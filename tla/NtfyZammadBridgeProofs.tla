------------------------ MODULE NtfyZammadBridgeProofs ------------------------
(***************************************************************************)
(* Theorems about NtfyZammadBridge, for every value of its constants.      *)
(***************************************************************************)
EXTENDS NtfyZammadBridge, FiniteSetTheorems, WellFoundedInduction, TLAPS

-----------------------------------------------------------------------------
(* Type correctness *)

\* What a PUT leaves of a ticket is a ticket, for the same alert.
LEMMA UpdatedType ==
    ASSUME TypeOK, NEW t \in Ticket, NEW s \in TicketStates \cup {"keep"},
           job \in Message
    PROVE  Updated(t, s) \in Ticket /\ Updated(t, s).key = t.key
<1>1. repeat[job.key].count \in Nat
  BY DEF TypeOK, StateDirType, Record, NoRecord, Message
<1>2. Note(repeat[job.key].count) \in Article
  BY <1>1 DEF Note, Article, AlertState, AlertStateOf, Message, TypeOK, HookType
<1>3. Append(t.log, Note(repeat[job.key].count)) \in Seq(Article)
  BY <1>2 DEF Ticket
<1>4. clock \in Nat
  BY DEF TypeOK, ZammadType
<1> QED
  BY <1>3, <1>4 DEF Updated, Ticket

\* Counting one more repeat leaves a repeat record.
LEMMA CountedType ==
    ASSUME NEW S, NEW r \in [state : S, at : Nat, count : Nat]
    PROVE  [r EXCEPT !.count = r.count + 1] \in [state : S, at : Nat, count : Nat]
<1>1. r.count + 1 \in Nat
  OBVIOUS
<1> QED
  BY <1>1

\* An operator's move leaves a ticket, for the same alert.
LEMMA MovedType ==
    ASSUME ZammadType, NEW t \in Ticket, NEW move
    PROVE  Moved(move, t) \in Ticket /\ Moved(move, t).key = t.key
  BY DEF ZammadType, Moved, Ticket, TicketStates, Active

\* Replacing one ticket by another for the same alert changes no number or key.
LEMMA ReplacedType ==
    ASSUME tickets \in Seq(Ticket), NEW i \in TicketIds, NEW t \in Ticket,
           t.key = tickets[i].key,
           tickets' = [tickets EXCEPT ![i] = t]
    PROVE  /\ tickets' \in Seq(Ticket) /\ Len(tickets') = Len(tickets)
           /\ \A j \in TicketIds : tickets'[j].key = tickets[j].key
  BY DEF TicketIds

\* Whatever an answer does, it leaves the hook and the spool well typed.
LEMMA AnsweredType ==
    ASSUME TypeOK, NEW s \in HandleSteps, pc \in HandleSteps, Answered(s)
    PROVE  /\ pc' \in Steps /\ job' \in Message \cup {NoMsg}
           /\ err' \in {"none", "transient", "rejected", "fatal"}
           /\ spool' \in SUBSET SpoolFile
           /\ pc' \in {s, "replay", "failed"}
           /\ pc' = s => job' = job
  BY DEF Answered, TypeOK, HookType, StateDirType, Failure, Steps, HandleSteps

\* No message is a message of its own kind.
LEMMA NoMsgIsNone == NoMsg \notin Message
  BY DEF NoMsg, Message

\* A nonempty set of numbers has a smallest one.
LEMMA SmallestNumber ==
    ASSUME NEW T, T \subseteq Nat, T # {}
    PROVE  \E n \in T : \A m \in T : n <= m
<1>1. PICK n \in T : \A m \in T : <<m, n>> \notin OpToRel(<, Nat)
  BY WFMin, NatLessThanWellFounded, Zenon
<1>2. \A m \in T : ~(m < n)
  BY <1>1, Zenon DEF OpToRel
<1> QED
  BY <1>2

\* The replay starts with a file of the spool that no other file is older than.
LEMMA OldestIsOldest ==
    ASSUME spool \in SUBSET SpoolFile, spool # {}
    PROVE  /\ Oldest \in spool
           /\ \A g \in spool : Oldest.msg.id <= g.msg.id
<1> DEFINE Ids == {f.msg.id : f \in spool}
<1>1. Ids \subseteq Nat /\ Ids # {}
  BY DEF SpoolFile, Message
<1>2. PICK n \in Ids : \A m \in Ids : n <= m
  BY <1>1, SmallestNumber
<1>3. \E f \in spool : \A g \in spool : f.msg.id <= g.msg.id
  BY <1>2
<1> QED
  BY <1>3 DEF Oldest

LEMMA TypeInit == Init => TypeOK
<1> SUFFICES ASSUME Init PROVE TypeOK
  OBVIOUS
<1>1. ZammadType
  <2>1. CASE tickets = <<>>
    BY <2>1, BridgeAssumption DEF Init, ZammadType
  <2>2. ASSUME NEW t \in Preexisting, tickets = <<t>> PROVE tickets \in Seq(Ticket)
    <3>1. t \in Ticket
      BY PreexistingAssumption
    <3> QED
      BY <2>2, <3>1
  <2> QED
    BY <2>1, <2>2, BridgeAssumption DEF Init, ZammadType
<1>2. HookType /\ InHand
  BY <1>1, PreexistingAssumption DEF Init, HookType, InHand, Found, Steps, HandleSteps, NoTicket,
     Existing, ZammadType
<1>3. NtfyType /\ StateDirType /\ HistoryType
  BY DEF Init, NtfyType, StateDirType, HistoryType, Record
<1> QED
  BY <1>1, <1>2, <1>3 DEF TypeOK

LEMMA TypeNext == TypeOK /\ [Next]_vars => TypeOK'
<1> SUFFICES ASSUME TypeOK, [Next]_vars PROVE TypeOK'
  OBVIOUS
<1> USE DEF TypeOK, ZammadType, NtfyType, HookType, StateDirType, HistoryType,
        InHand, Found, HandleSteps, Steps, zammad, ntfy, hook, stateDir, history
<1>0. CASE UNCHANGED vars
  BY <1>0 DEF vars
<1>1. ASSUME NEW m \in Message, Start(m), alerts' \in Nat PROVE TypeOK'
  BY <1>1, NoMsgIsNone DEF Start
<1>2. CASE Deliver
  <2>1. PICK k \in Keys, r \in BOOLEAN, s \in Sevs :
          Start([id |-> next, key |-> k, resolved |-> r, sev |-> s, skip |-> FALSE])
    BY <1>2 DEF Deliver
  <2>2. [id |-> next, key |-> k, resolved |-> r, sev |-> s, skip |-> FALSE] \in Message
    BY DEF Message
  <2> QED
    BY <1>1, <1>2, <2>1, <2>2 DEF Deliver
<1>3. CASE DeliverSelfAlert
  <2>1. PICK k \in Keys, s \in Sevs :
          Start([id |-> next, key |-> k, resolved |-> FALSE, sev |-> s, skip |-> TRUE])
    BY <1>3 DEF DeliverSelfAlert
  <2>2. [id |-> next, key |-> k, resolved |-> FALSE, sev |-> s, skip |-> TRUE] \in Message
    BY DEF Message
  <2>3. alerts' \in Nat
    BY <1>3 DEF DeliverSelfAlert
  <2> QED
    BY <1>1, <2>1, <2>2, <2>3
<1>4. CASE ReplayNext
  <2>1. Oldest.msg \in Message
    BY <1>4, OldestIsOldest DEF ReplayNext, SpoolFile
  <2> QED
    BY <1>4, <2>1, NoMsgIsNone DEF ReplayNext
<1>5. CASE HandleCurrent
  BY <1>5 DEF HandleCurrent
<1>6. CASE SearchActive
  <2>1. CASE WithKey(job.key, Active) = {}
    <3>1. Answered("searchClosed") /\ existing' = NoTicket
      BY <1>6, <2>1 DEF SearchActive
    <3>2. NoTicket \in Existing /\ NoTicket.id = 0 /\ ~NoTicket.closed
      BY DEF NoTicket, Existing
    <3> QED
      BY <1>6, <3>1, <3>2, AnsweredType DEF SearchActive
  <2>2. CASE WithKey(job.key, Active) # {}
    <3>1. PICK i \in WithKey(job.key, Active) :
            existing' = [id |-> i, closed |-> FALSE, closedAt |-> 0]
      BY <1>6, <2>2 DEF SearchActive
    <3>2. Answered("decide")
      BY <1>6, <2>2 DEF SearchActive
    <3>3. i \in TicketIds /\ tickets[i].key = job.key
      BY DEF WithKey
    <3>4. existing' \in Existing /\ existing'.id = i /\ ~existing'.closed /\ i # 0
      BY <3>1, <3>3 DEF Existing, TicketIds
    <3> QED
      BY <1>6, <3>2, <3>3, <3>4, AnsweredType DEF SearchActive, TicketIds
  <2> QED
    BY <2>1, <2>2
<1>7. CASE SearchClosed
  <2>1. Answered("decide")
    BY <1>7 DEF SearchClosed
  <2>2. CASE WithKey(job.key, {"closed"}) = {}
    <3>1. NoTicket \in Existing /\ NoTicket.id = 0 /\ ~NoTicket.closed
      BY DEF NoTicket, Existing
    <3>2. existing' = NoTicket
      BY <1>7, <2>2 DEF SearchClosed
    <3> QED
      BY <1>7, <2>1, <3>1, <3>2, AnsweredType DEF SearchClosed
  <2>3. CASE WithKey(job.key, {"closed"}) # {}
    <3>1. PICK i \in WithKey(job.key, {"closed"}) :
            existing' = [id |-> i, closed |-> TRUE, closedAt |-> tickets[i].closedAt]
      BY <1>7, <2>3 DEF SearchClosed
    <3>2. i \in TicketIds /\ tickets[i].key = job.key
      BY DEF WithKey
    <3>3. tickets[i].closedAt \in Nat
      <4>1. tickets[i] \in Ticket
        BY <3>2 DEF TicketIds
      <4> QED
        BY <4>1 DEF Ticket
    <3>4. existing' \in Existing /\ existing'.id = i /\ i # 0
      BY <3>1, <3>2, <3>3 DEF Existing, TicketIds
    <3> QED
      BY <1>7, <2>1, <3>2, <3>4, AnsweredType DEF SearchClosed, TicketIds
  <2> QED
    BY <2>2, <2>3
<1>8. CASE Decide
  <2>1. job \in Message /\ job.key \in Keys
    BY <1>8 DEF Decide, Message
  <2>2. repeat' \in [Keys -> Record] /\ hushed' \in [Keys -> Nat]
    <3>1. CASE UNCHANGED <<repeat, hushed>>
      BY <3>1
    <3>2. CASE IsRepeat /\ Suppress
      <4>1. repeat[job.key] \in [state : AlertState, at : Nat, count : Nat]
        <5>1. repeat[job.key] \in Record /\ repeat[job.key] # NoRecord
          BY <2>1, <3>2 DEF IsRepeat
        <5> QED
          BY <5>1 DEF Record
      <4> DEFINE r == [repeat[job.key] EXCEPT !.count = repeat[job.key].count + 1]
      <4>2. r \in Record
        BY <4>1, CountedType DEF Record
      <4>3. repeat' = [repeat EXCEPT ![job.key] = r]
        BY <3>2, Zenon DEF Suppress
      <4>4. repeat' \in [Keys -> Record]
        BY <2>1, <4>2, <4>3
      <4> QED
        BY <2>1, <3>2, <4>4 DEF Suppress
    <3> QED
      BY <1>8, <3>1, <3>2 DEF Decide
  <2>3. /\ pc' \in {"done", "checkTag", "create", "put"}
        /\ pc' \in {"checkTag", "put"} => Found
        /\ newState' \in {"keep", "closed", "reopened"}
    BY <1>8 DEF Decide
  <2> QED
    BY <1>8, <2>2, <2>3 DEF Decide
<1>9. CASE CheckTag
  <2>1. CASE UNCHANGED <<job, err, spool>> /\ pc' \in {"create", "put"}
    BY <1>9, <2>1 DEF CheckTag
  <2>2. ASSUME NEW s \in {"create", "put"}, Answered(s) PROVE TypeOK'
    BY <1>9, <2>2, AnsweredType DEF CheckTag
  <2> QED
    BY <1>9, <2>1, <2>2 DEF CheckTag
<1>10. CASE PutTicket
  <2> DEFINE t == tickets[existing.id]
  <2>1. Answered("remember") /\ job \in Message
    BY <1>10 DEF PutTicket
  <2>2. existing.id \in TicketIds /\ t \in Ticket
    BY <1>10 DEF PutTicket, Existing, TicketIds
  <2>3. Updated(t, newState) \in Ticket /\ Updated(t, newState).key = t.key
    BY <2>1, <2>2, UpdatedType DEF TicketStates, Active
  <2>4. /\ tickets' \in Seq(Ticket) /\ Len(tickets') = Len(tickets)
        /\ \A j \in TicketIds : tickets'[j].key = tickets[j].key
    <3>1. CASE tickets' = [tickets EXCEPT ![existing.id] = Updated(t, newState)]
      BY <2>2, <2>3, <3>1, ReplacedType
    <3>2. CASE tickets' = tickets
      BY <3>2
    <3> QED
      BY <1>10, <3>1, <3>2 DEF PutTicket
  <2> QED
    BY <1>10, <2>1, <2>4, AnsweredType DEF PutTicket
<1>11. CASE CreateTicket
  <2> DEFINE new == [key |-> job.key, state |-> "new", managed |-> FALSE,
                     closedAt |-> 0, log |-> <<Note(0)>>]
  <2>1. Answered("addTag") /\ job \in Message
    BY <1>11 DEF CreateTicket
  <2>2. CASE UNCHANGED <<tickets, existing>> /\ mode # "up"
    <3>1. pc' # "addTag"
      BY <2>1, <2>2 DEF Answered
    <3> QED
      BY <1>11, <2>1, <2>2, <3>1, AnsweredType DEF CreateTicket
  <2>3. CASE /\ tickets' = Append(tickets, new)
             /\ existing' = [id |-> Len(tickets) + 1, closed |-> FALSE, closedAt |-> 0]
    <3>1. Note(0) \in Article
      BY <2>1 DEF Note, Article, AlertState, AlertStateOf, Message
    <3>2. new \in Ticket
      BY <2>1, <3>1 DEF Ticket, TicketStates, Active, Message
    <3>3. tickets' \in Seq(Ticket) /\ Len(tickets') = Len(tickets) + 1
      BY <2>3, <3>2
    <3>4. /\ existing' \in Existing /\ existing'.id = Len(tickets')
          /\ ~existing'.closed /\ existing'.id # 0
      BY <2>3, <3>3 DEF Existing
    <3> QED
      BY <1>11, <2>1, <3>3, <3>4, AnsweredType DEF CreateTicket
  <2> QED
    BY <1>11, <2>2, <2>3 DEF CreateTicket, Applied
<1>12. CASE AddTag
  <2> DEFINE t == tickets[existing.id]
  <2>1. Answered("remember") /\ job \in Message
    BY <1>12 DEF AddTag
  <2>2. existing.id \in TicketIds /\ t \in Ticket
    BY <1>12 DEF AddTag, Existing, TicketIds
  <2>3. [t EXCEPT !.managed = TRUE] \in Ticket
    BY <2>2 DEF Ticket
  <2>4. /\ tickets' \in Seq(Ticket) /\ Len(tickets') = Len(tickets)
        /\ \A j \in TicketIds : tickets'[j].key = tickets[j].key
    <3>1. CASE tickets' = [tickets EXCEPT ![existing.id] = [t EXCEPT !.managed = TRUE]]
      <4>1. [t EXCEPT !.managed = TRUE].key = t.key
        BY <2>2 DEF Ticket
      <4> QED
        BY <2>2, <2>3, <3>1, <4>1, ReplacedType
    <3>2. CASE tickets' = tickets
      BY <3>2
    <3> QED
      BY <1>12, <3>1, <3>2 DEF AddTag
  <2> QED
    BY <1>12, <2>1, <2>4, AnsweredType DEF AddTag
<1>13. CASE RememberArticle
  BY <1>13, NoMsgIsNone DEF RememberArticle, Record, AlertState, AlertStateOf, Message
<1>14. CASE Finish
  <2>1. handled' \in Nat /\ last' \in [Keys -> Message \cup {NoMsg}] /\ paged' \in Nat
    <3>1. job \in Message /\ job.id \in Nat /\ job.key \in Keys
      BY <1>14 DEF Finish, Message
    <3>2. last' = last \/ last' = [last EXCEPT ![job.key] = job]
      BY <1>14 DEF Finish
    <3> QED
      BY <1>14, <3>1, <3>2 DEF Finish
  <2>2. NoTicket \in Existing /\ NoTicket.id = 0 /\ ~NoTicket.closed
    BY DEF NoTicket, Existing
  <2> QED
    BY <1>14, <2>1, <2>2 DEF Finish, Exit
<1>15. ASSUME Exit, spool' \in SUBSET SpoolFile, failures' \in Nat, alerts' \in Nat,
              paged' \in Nat,
              UNCHANGED <<tickets, mode, clock, next, repeat, hushed, handled, last>>
       PROVE  TypeOK'
  <2>1. NoTicket \in Existing /\ NoTicket.id = 0 /\ ~NoTicket.closed
    BY DEF NoTicket, Existing
  <2> QED
    BY <1>15, <2>1 DEF Exit
<1>16. CASE SpoolOpen
  <2>1. cur \in Message
    BY <1>16 DEF SpoolOpen
  <2>2. [msg |-> cur, ok |-> FALSE] \in SpoolFile
    BY <2>1 DEF SpoolFile
  <2>3. spool' \in SUBSET SpoolFile /\ pc' \in {"spoolWrite", "record"}
    BY <1>16, <2>2 DEF SpoolOpen
  <2> QED
    BY <1>16, <2>1, <2>3 DEF SpoolOpen
<1>17. CASE SpoolWrite
  <2>1. FileOf(cur) \in SpoolFile
    BY <1>17 DEF SpoolWrite, FileOf, SpoolFile
  <2> QED
    BY <1>17, <2>1 DEF SpoolWrite
<1>18. CASE SpoolTrim
  BY <1>18 DEF SpoolTrim, Newest
<1>19. CASE RecordFailure
  <2>1. CASE failures + 1 = Threshold
    BY <1>19, <2>1 DEF RecordFailure
  <2>2. CASE failures + 1 # Threshold
    BY <1>15, <1>19, <2>2 DEF RecordFailure
  <2> QED
    BY <2>1, <2>2
<1>20. CASE PublishSelfAlert
  BY <1>15, <1>20 DEF PublishSelfAlert
<1>21. CASE Crash
  BY <1>15, <1>21 DEF Crash
<1>22. CASE ModeChange
  BY <1>22 DEF ModeChange
<1>23. CASE Tick
  BY <1>23 DEF Tick
<1>24. CASE Operator
  <2>1. PICK move \in HumanMoves, i \in TicketIds :
          tickets' = [tickets EXCEPT ![i] = Moved(move, tickets[i])]
    BY <1>24 DEF Operator
  <2>2. tickets[i] \in Ticket
    BY DEF TicketIds
  <2>3. Moved(move, tickets[i]) \in Ticket
        /\ Moved(move, tickets[i]).key = tickets[i].key
    BY <2>2, MovedType
  <2>4. /\ tickets' \in Seq(Ticket) /\ Len(tickets') = Len(tickets)
        /\ \A j \in TicketIds : tickets'[j].key = tickets[j].key
    BY <2>1, <2>3, ReplacedType
  <2>5. UNCHANGED <<mode, clock, ntfy, hook, stateDir, history>>
    BY <1>24 DEF Operator
  <2> QED
    BY <2>4, <2>5 DEF TicketIds, Existing
<1> QED
  BY <1>0, <1>2, <1>3, <1>4, <1>5, <1>6, <1>7, <1>8, <1>9, <1>10, <1>11, <1>12,
     <1>13, <1>14, <1>16, <1>17, <1>18, <1>19, <1>20, <1>21, <1>22, <1>23, <1>24
  DEF Next, Run, World

\* The hook, the spool, the repeat records and the tickets hold values of their
\* types, and the ticket a step works on exists and is the one of the message
\* in hand, whatever Zammad, operators and crashes do.
THEOREM TypeCorrect == Spec => []TypeOK
  BY TypeInit, TypeNext, PTL DEF Spec

-----------------------------------------------------------------------------
(* At most one active ticket per key *)

\* Steps after which every key has the active tickets it had, or fewer of them.
Shrinks == \A k \in Keys : WithKey(k, Active)' \subseteq WithKey(k, Active)

\* Operators who neither release nor reopen tickets make no ticket active.
LEMMA OperatorShrinks ==
    ASSUME TypeOK, HumanMoves \cap {"release", "reopen"} = {}, Operator
    PROVE  Shrinks
<1>1. PICK move \in HumanMoves, i \in TicketIds :
        /\ MayMove(move, tickets[i])
        /\ tickets' = [tickets EXCEPT ![i] = Moved(move, tickets[i])]
  BY DEF Operator
<1>2. tickets \in Seq(Ticket) /\ tickets[i] \in Ticket
  BY DEF TypeOK, ZammadType, TicketIds
<1>3. Moved(move, tickets[i]) \in Ticket /\ Moved(move, tickets[i]).key = tickets[i].key
  BY <1>2, MovedType DEF TypeOK
<1>4. move \in {"take", "close", "pend", "untag"}
  BY BridgeAssumption DEF AllMoves
<1>5. Moved(move, tickets[i]).state \in Active => tickets[i].state \in Active
  BY <1>1, <1>2, <1>4 DEF Moved, MayMove, Active, Ticket
<1> QED
  BY <1>1, <1>2, <1>3, <1>5 DEF Shrinks, WithKey, TicketIds

LEMMA OneActiveInit == Init => OneActiveInv
<1> SUFFICES ASSUME Init PROVE OneActiveInv
  OBVIOUS
<1>1. Len(tickets) \in {0, 1}
  <2>1. CASE tickets = <<>>
    BY <2>1
  <2>2. ASSUME NEW t, tickets = <<t>> PROVE Len(tickets) = 1
    BY <2>2
  <2> QED
    BY <2>1, <2>2 DEF Init
<1>2. AtMostOneActive
  BY <1>1 DEF AtMostOneActive, WithKey, TicketIds
<1> QED
  BY <1>2 DEF Init, OneActiveInv

LEMMA OneActiveNext ==
    ASSUME TypeOK, TypeOK', OneActiveInv, [Next]_vars,
           HumanMoves \cap {"release", "reopen"} = {}
    PROVE  OneActiveInv'
<1> USE DEF zammad, ntfy, hook, stateDir, history
\* What is left to show of a step that makes no ticket active.
<1>1. ASSUME Shrinks PROVE AtMostOneActive'
  BY <1>1 DEF OneActiveInv, AtMostOneActive, Shrinks
<1>2. ASSUME UNCHANGED tickets PROVE Shrinks
  BY <1>2 DEF Shrinks, WithKey, TicketIds
<1>3. ASSUME UNCHANGED tickets,
             pc' \notin {"searchClosed", "decide", "checkTag", "put", "create"}
      PROVE  OneActiveInv'
  BY <1>1, <1>2, <1>3 DEF OneActiveInv
\* Steps of the world leave the hook alone, or end or start its run.
<1>4. ASSUME Shrinks, UNCHANGED hook PROVE OneActiveInv'
  <2>1. pc \in HandleSteps => job.key \in Keys
    BY DEF TypeOK, HookType, InHand, Message
  <2>2. pc \in HandleSteps /\ NoActive(job.key) => NoActive(job.key)'
    BY <1>4, <2>1 DEF Shrinks, NoActive
  <2> QED
    BY <1>1, <1>4, <2>2 DEF OneActiveInv, HandleSteps, Found
<1>5. CASE UNCHANGED vars
  BY <1>2, <1>4, <1>5 DEF vars
<1>6. CASE Deliver \/ DeliverSelfAlert
  BY <1>3, <1>6 DEF Deliver, DeliverSelfAlert, Start
<1>7. CASE Crash
  BY <1>3, <1>7 DEF Crash, Exit
<1>8. CASE ModeChange \/ Tick
  BY <1>2, <1>4, <1>8 DEF ModeChange, Tick
<1>9. CASE Operator
  BY <1>4, <1>9, OperatorShrinks DEF Operator
\* The search.
<1>10. CASE ReplayNext \/ HandleCurrent
  BY <1>3, <1>10 DEF ReplayNext, HandleCurrent
<1>11. CASE SearchActive
  <2>1. CASE NoActive(job.key)
    <3>1. Answered("searchClosed") /\ UNCHANGED tickets
      BY <1>11, <2>1 DEF SearchActive, NoActive
    <3>2. NoActive(job.key)'  \/ pc' \in {"replay", "failed"}
      BY <2>1, <3>1 DEF Answered, NoActive, WithKey, TicketIds
    <3> QED
      BY <1>1, <1>2, <3>1, <3>2 DEF OneActiveInv, Answered
  <2>2. CASE ~NoActive(job.key)
    <3>1. /\ Answered("decide") /\ UNCHANGED tickets
          /\ existing'.id # 0 /\ ~existing'.closed
      BY <1>11, <2>2 DEF SearchActive, NoActive, WithKey, TicketIds
    <3> QED
      BY <1>1, <1>2, <3>1 DEF OneActiveInv, Answered, Found
  <2> QED
    BY <2>1, <2>2
<1>12. CASE SearchClosed
  <2>1. /\ Answered("decide") /\ UNCHANGED tickets /\ NoActive(job.key)
    BY <1>12 DEF SearchClosed, OneActiveInv
  <2>2. NoActive(job.key)'  \/ pc' \in {"replay", "failed"}
    BY <2>1 DEF Answered, NoActive, WithKey, TicketIds
  <2> QED
    BY <1>1, <1>2, <2>1, <2>2 DEF OneActiveInv, Answered
<1>13. CASE Decide
  <2>1. UNCHANGED <<tickets, job, existing>>
    BY <1>13 DEF Decide
  <2>2. NoActive(job.key) => NoActive(job.key)'
    BY <2>1 DEF NoActive, WithKey, TicketIds
  <2>3. ~Found \/ existing.closed => NoActive(job.key)
    BY <1>13 DEF Decide, OneActiveInv
  <2>4. /\ pc' \in {"done", "checkTag", "create", "put"}
        /\ pc' = "create" => ~Found \/ existing.closed
        /\ pc' = "put" => newState' = "keep"
    BY <1>13 DEF Decide
  <2> QED
    BY <1>1, <1>2, <2>1, <2>2, <2>3, <2>4 DEF OneActiveInv, Found
<1>14. CASE CheckTag
  <2>1. UNCHANGED <<tickets, existing>>
    BY <1>14 DEF CheckTag
  <2>2. job' = job \/ pc' \in {"replay", "failed"}
    BY <1>14 DEF CheckTag, Answered
  <2>3. job' = job /\ NoActive(job.key) => NoActive(job.key)'
    BY <2>1 DEF NoActive, WithKey, TicketIds
  <2>4. existing.closed => NoActive(job.key)
    BY <1>14 DEF CheckTag, OneActiveInv
  <2>5. Found
    BY <1>14 DEF CheckTag, TypeOK, InHand
  <2>6. /\ pc' \in {"put", "create", "replay", "failed"}
        /\ pc' = "create" => existing.closed
        /\ pc' = "put" /\ newState' = "reopened" => existing.closed
    BY <1>14 DEF CheckTag, Answered
  <2> QED
    BY <1>1, <1>2, <2>1, <2>2, <2>3, <2>4, <2>5, <2>6 DEF OneActiveInv, Found
<1>15. CASE PutTicket
  <2> DEFINE i == existing.id
             t == Updated(tickets[i], newState)
  <2>1. i \in TicketIds /\ tickets[i] \in Ticket /\ tickets[i].key = job.key
    BY <1>15 DEF PutTicket, TypeOK, InHand, Found, HookType, Existing, ZammadType, TicketIds
  <2>2. t \in Ticket /\ t.key = job.key
    <3>1. newState \in TicketStates \cup {"keep"}
      BY DEF TypeOK, HookType, TicketStates, Active
    <3>2. job \in Message
      BY <1>15 DEF PutTicket, TypeOK, HookType, InHand, HandleSteps
    <3> QED
      BY <2>1, <3>1, <3>2, UpdatedType
  <2>3. pc' \in {"remember", "replay", "failed"}
    BY <1>15 DEF PutTicket, Answered
  <2>4. CASE UNCHANGED tickets
    BY <1>3, <2>3, <2>4
  <2>5. CASE tickets' = [tickets EXCEPT ![i] = t] /\ newState # "reopened"
    <3>1. t.state \in Active => tickets[i].state \in Active
      BY <2>1, <2>5 DEF TypeOK, HookType, Updated, Ticket, Active
    <3>2. Shrinks
      BY <2>1, <2>2, <2>5, <3>1 DEF Shrinks, WithKey, TicketIds
    <3> QED
      BY <1>1, <2>3, <3>2 DEF OneActiveInv
  <2>6. CASE tickets' = [tickets EXCEPT ![i] = t] /\ newState = "reopened"
    <3>1. NoActive(job.key)
      BY <1>15, <2>6 DEF PutTicket, OneActiveInv
    <3>2. \A k \in Keys : WithKey(k, Active)' \subseteq
             WithKey(k, Active) \cup (IF k = job.key THEN {i} ELSE {})
      BY <2>1, <2>2, <2>6 DEF WithKey, TicketIds
    <3>3. AtMostOneActive'
      BY <3>1, <3>2 DEF AtMostOneActive, OneActiveInv, NoActive
    <3> QED
      BY <2>3, <3>3 DEF OneActiveInv
  <2> QED
    BY <1>15, <2>4, <2>5, <2>6 DEF PutTicket
<1>16. CASE CreateTicket
  <2> DEFINE new == [key |-> job.key, state |-> "new", managed |-> FALSE,
                     closedAt |-> 0, log |-> <<Note(0)>>]
  <2>1. pc' \in {"addTag", "replay", "failed"}
    BY <1>16 DEF CreateTicket, Answered
  <2>2. CASE UNCHANGED tickets
    BY <1>3, <2>1, <2>2
  <2>3. CASE tickets' = Append(tickets, new)
    <3>1. NoActive(job.key)
      BY <1>16 DEF CreateTicket, OneActiveInv
    <3>2. \A k \in Keys : WithKey(k, Active)' \subseteq
             WithKey(k, Active) \cup (IF k = job.key THEN {Len(tickets) + 1} ELSE {})
      BY <2>3 DEF WithKey, TicketIds, TypeOK, ZammadType
    <3>3. AtMostOneActive'
      BY <3>1, <3>2 DEF AtMostOneActive, OneActiveInv, NoActive
    <3> QED
      BY <2>1, <3>3 DEF OneActiveInv
  <2> QED
    BY <1>16, <2>2, <2>3 DEF CreateTicket
<1>17. CASE AddTag
  <2> DEFINE i == existing.id
             t == [tickets[i] EXCEPT !.managed = TRUE]
  <2>1. pc' \in {"remember", "replay", "failed"}
    BY <1>17 DEF AddTag, Answered
  <2>2. CASE UNCHANGED tickets
    BY <1>3, <2>1, <2>2
  <2>3. CASE tickets' = [tickets EXCEPT ![i] = t]
    <3>1. i \in TicketIds /\ tickets[i] \in Ticket
      BY <1>17 DEF AddTag, TypeOK, InHand, Found, HookType, Existing, ZammadType, TicketIds
    <3>2. t.key = tickets[i].key /\ t.state = tickets[i].state
      BY <3>1 DEF Ticket
    <3>3. Shrinks
      BY <2>3, <3>1, <3>2 DEF Shrinks, WithKey, TicketIds, TypeOK, ZammadType
    <3> QED
      BY <1>1, <2>1, <3>3 DEF OneActiveInv
  <2> QED
    BY <1>17, <2>2, <2>3 DEF AddTag
\* After the calls.
<1>18. CASE RememberArticle \/ Finish
  BY <1>3, <1>18 DEF RememberArticle, Finish, Exit
<1>19. CASE SpoolOpen \/ SpoolWrite \/ SpoolTrim
  BY <1>3, <1>19 DEF SpoolOpen, SpoolWrite, SpoolTrim
<1>20. CASE RecordFailure \/ PublishSelfAlert
  BY <1>3, <1>20 DEF RecordFailure, PublishSelfAlert, Exit
<1> QED
  BY <1>5, <1>6, <1>7, <1>8, <1>9, <1>10, <1>11, <1>12, <1>13, <1>14, <1>15,
     <1>16, <1>17, <1>18, <1>19, <1>20
  DEF Next, Run, World

\* Though the hook searches and then creates or reopens in separate calls, with
\* operators, outages, lost answers, crashes and replays in between, no key ever
\* has two active tickets, unless operators release or reopen tickets.
THEOREM OneActive ==
    HumanMoves \cap {"release", "reopen"} = {} => (Spec => []AtMostOneActive)
<1> SUFFICES ASSUME HumanMoves \cap {"release", "reopen"} = {}
             PROVE  Spec => []AtMostOneActive
  OBVIOUS
<1>1. OneActiveInv => AtMostOneActive
  BY DEF OneActiveInv
<1>2. TypeOK /\ TypeOK' /\ OneActiveInv /\ [Next]_vars => OneActiveInv'
  BY OneActiveNext
<1> QED
  BY <1>1, <1>2, TypeCorrect, OneActiveInit, PTL DEF Spec

-----------------------------------------------------------------------------
(* Only the bridge's own tickets are closed or reopened *)

LEMMA OwnedNext ==
    ASSUME TypeOK, OwnedInv, [Next]_vars, "untag" \notin HumanMoves
    PROVE  OwnedInv'
<1> USE DEF OwnedInv, zammad, ntfy, hook, stateDir, history
<1>1. ASSUME pc' # "put" PROVE OwnedInv'
  BY <1>1
<1>2. CASE UNCHANGED vars
  BY <1>2 DEF vars
<1>3. CASE CheckTag
  <2>1. newState' # "keep" => Owned(existing.id)
    BY <1>3 DEF CheckTag
  <2> QED
    BY <1>3, <2>1 DEF CheckTag, Owned
<1>4. CASE Decide
  <2>1. pc' = "put" => newState' = "keep"
    BY <1>4 DEF Decide
  <2> QED
    BY <2>1
<1>5. CASE ModeChange \/ Tick
  BY <1>5 DEF ModeChange, Tick
<1>6. CASE Operator
  <2>1. PICK move \in HumanMoves, i \in TicketIds :
          tickets' = [tickets EXCEPT ![i] = Moved(move, tickets[i])]
    BY <1>6 DEF Operator
  <2>2. tickets[i] \in Ticket /\ tickets \in Seq(Ticket)
    BY DEF TypeOK, ZammadType, TicketIds
  <2>3. move \in AllMoves \ {"untag"}
    BY BridgeAssumption
  <2>4. Moved(move, tickets[i]).managed = tickets[i].managed
    BY <2>2, <2>3 DEF Moved, AllMoves, Ticket
  <2>5. \A j \in TicketIds : tickets'[j].managed = tickets[j].managed
    BY <2>1, <2>2, <2>4 DEF TicketIds
  <2>6. pc = "put" => existing.id \in TicketIds
    BY DEF TypeOK, InHand, Found, HookType, Existing, ZammadType, TicketIds
  <2> QED
    BY <1>6, <2>5, <2>6 DEF Operator
<1>7. CASE Deliver \/ DeliverSelfAlert \/ Crash
  BY <1>7 DEF Deliver, DeliverSelfAlert, Start, Crash, Exit
<1>8. CASE \/ ReplayNext \/ HandleCurrent \/ SearchActive \/ SearchClosed
           \/ PutTicket \/ CreateTicket \/ AddTag
  BY <1>8 DEF ReplayNext, HandleCurrent, SearchActive, SearchClosed, PutTicket,
     CreateTicket, AddTag, Answered
<1>9. CASE \/ RememberArticle \/ Finish \/ SpoolOpen \/ SpoolWrite \/ SpoolTrim
           \/ RecordFailure \/ PublishSelfAlert
  BY <1>9 DEF RememberArticle, Finish, SpoolOpen, SpoolWrite, SpoolTrim,
     RecordFailure, PublishSelfAlert, Exit
<1> QED
  BY <1>2, <1>3, <1>4, <1>5, <1>6, <1>7, <1>8, <1>9 DEF Next, Run, World

\* A ticket that a PUT is about to close or reopen was not denied when the tag was
\* read, and the denylist does not change.
LEMMA NotDeniedNext ==
    ASSUME NotDeniedInv, [Next]_vars
    PROVE  NotDeniedInv'
<1> USE DEF NotDeniedInv, zammad, ntfy, hook, stateDir, history
<1>1. ASSUME pc' # "put" PROVE NotDeniedInv'
  BY <1>1
<1>2. CASE UNCHANGED vars \/ ModeChange \/ Tick \/ Operator
  BY <1>2 DEF vars, ModeChange, Tick, Operator
<1>3. CASE CheckTag
  BY <1>3 DEF CheckTag, Owned
<1>4. CASE Decide
  <2>1. pc' = "put" => newState' = "keep"
    BY <1>4 DEF Decide
  <2> QED
    BY <2>1
<1>5. CASE Deliver \/ DeliverSelfAlert \/ Crash
  BY <1>5 DEF Deliver, DeliverSelfAlert, Start, Crash, Exit
<1>6. CASE \/ ReplayNext \/ HandleCurrent \/ SearchActive \/ SearchClosed
           \/ PutTicket \/ CreateTicket \/ AddTag
  BY <1>6 DEF ReplayNext, HandleCurrent, SearchActive, SearchClosed, PutTicket,
     CreateTicket, AddTag, Answered
<1>7. CASE \/ RememberArticle \/ Finish \/ SpoolOpen \/ SpoolWrite \/ SpoolTrim
           \/ RecordFailure \/ PublishSelfAlert
  BY <1>7 DEF RememberArticle, Finish, SpoolOpen, SpoolWrite, SpoolTrim,
     RecordFailure, PublishSelfAlert, Exit
<1> QED
  BY <1>2, <1>3, <1>4, <1>5, <1>6, <1>7 DEF Next, Run, World

\* A PUT that closes or reopens is decided in CheckTag, on a ticket that is the
\* bridge's own at that moment.
LEMMA DecidedStep ==
    ASSUME [Next]_vars, hook' # hook, pc' = "put", newState' # "keep"
    PROVE  Owned(existing'.id)
<1> USE DEF zammad, ntfy, hook, stateDir, history
<1>1. CASE CheckTag
  BY <1>1 DEF CheckTag, Owned
<1>2. CASE Decide
  BY <1>2 DEF Decide
<1>3. CASE UNCHANGED vars \/ ModeChange \/ Tick \/ Operator
  BY <1>3 DEF vars, ModeChange, Tick, Operator
<1>4. CASE Deliver \/ DeliverSelfAlert \/ Crash
  BY <1>4 DEF Deliver, DeliverSelfAlert, Start, Crash, Exit
<1>5. CASE \/ ReplayNext \/ HandleCurrent \/ SearchActive \/ SearchClosed
           \/ PutTicket \/ CreateTicket \/ AddTag
  BY <1>5 DEF ReplayNext, HandleCurrent, SearchActive, SearchClosed, PutTicket,
     CreateTicket, AddTag, Answered
<1>6. CASE \/ RememberArticle \/ Finish \/ SpoolOpen \/ SpoolWrite \/ SpoolTrim
           \/ RecordFailure \/ PublishSelfAlert
  BY <1>6 DEF RememberArticle, Finish, SpoolOpen, SpoolWrite, SpoolTrim,
     RecordFailure, PublishSelfAlert, Exit
<1> QED
  BY <1>1, <1>2, <1>3, <1>4, <1>5, <1>6 DEF Next, Run, World

\* Of the hook's own steps only the PUT changes the state of a ticket, that of the
\* one in hand and only when it was decided to close or reopen it.
LEMMA OwnedStep ==
    ASSUME TypeOK, [Next]_vars, NEW i \in TicketIds,
           hook' # hook, tickets'[i].state # tickets[i].state
    PROVE  pc = "put" /\ newState # "keep" /\ i = existing.id
<1> USE DEF zammad, ntfy, hook, stateDir, history
<1>1. tickets' # tickets
  OBVIOUS
<1>2. ~UNCHANGED vars
  BY DEF vars
<1>3. CASE PutTicket
  <2>1. tickets' = [tickets EXCEPT ![existing.id] = Updated(tickets[existing.id], newState)]
    BY <1>1, <1>3 DEF PutTicket
  <2>2. i = existing.id
    BY <2>1 DEF TypeOK, ZammadType, TicketIds
  <2>3. tickets[i] \in Ticket
    BY DEF TypeOK, ZammadType, TicketIds
  <2>4. newState # "keep"
    BY <2>1, <2>2, <2>3 DEF Updated, Ticket, TypeOK, ZammadType, TicketIds
  <2> QED
    BY <1>3, <2>2, <2>4 DEF PutTicket
<1>4. CASE CreateTicket
  <2>1. PICK t : tickets' = Append(tickets, t)
    BY <1>1, <1>4 DEF CreateTicket
  <2>2. tickets'[i] = tickets[i]
    BY <2>1 DEF TypeOK, ZammadType, TicketIds
  <2> QED
    BY <2>2
<1>5. CASE AddTag
  <2>1. tickets' = [tickets EXCEPT ![existing.id] = [tickets[existing.id] EXCEPT !.managed = TRUE]]
    BY <1>1, <1>5 DEF AddTag
  <2>2. tickets[i] \in Ticket
    BY DEF TypeOK, ZammadType, TicketIds
  <2>3. tickets'[i].state = tickets[i].state
    BY <2>1, <2>2 DEF TypeOK, ZammadType, TicketIds, Ticket
  <2> QED
    BY <2>3
<1>6. CASE \/ ReplayNext \/ HandleCurrent \/ SearchActive \/ SearchClosed
           \/ Decide \/ CheckTag \/ RememberArticle \/ Finish
  BY <1>1, <1>6 DEF ReplayNext, HandleCurrent, SearchActive, SearchClosed, Decide,
     CheckTag, RememberArticle, Finish
<1>7. CASE SpoolOpen \/ SpoolWrite \/ SpoolTrim \/ RecordFailure \/ PublishSelfAlert
  BY <1>1, <1>7 DEF SpoolOpen, SpoolWrite, SpoolTrim, RecordFailure, PublishSelfAlert
<1>8. CASE Deliver \/ DeliverSelfAlert \/ Crash \/ ModeChange \/ Tick \/ Operator
  BY <1>1, <1>8 DEF Deliver, DeliverSelfAlert, Start, Crash, ModeChange, Tick, Operator
<1> QED
  BY <1>2, <1>3, <1>4, <1>5, <1>6, <1>7, <1>8 DEF Next, Run, World

\* The bridge closes or reopens only a ticket that it found tagged when it decided
\* to, in the call before, and that the denylist does not name - also when an
\* operator removes the tag between reading it and the PUT.
THEOREM DecidedOwn == Spec => DecidedOnOwn
<1>1. Init => NotDeniedInv
  BY DEF Init, NotDeniedInv
<1>2. NotDeniedInv /\ [Next]_vars => NotDeniedInv'
  BY NotDeniedNext
<1>3. TypeOK /\ NotDeniedInv /\ [Next]_vars =>
        [/\ hook' # hook /\ pc' = "put" /\ newState' # "keep" => Owned(existing'.id)
         /\ \A i \in TicketIds :
              hook' # hook /\ tickets'[i].state # tickets[i].state =>
                pc = "put" /\ newState # "keep" /\ i = existing.id /\ i \notin Denylist]_vars
  BY DecidedStep, OwnedStep DEF NotDeniedInv
<1> QED
  BY <1>1, <1>2, <1>3, TypeCorrect, PTL DEF Spec, DecidedOnOwn

\* As long as nobody removes tags, the ticket it closes or reopens carries the tag
\* also at the moment Zammad applies the change.
THEOREM OnlyOwned ==
    "untag" \notin HumanMoves => (Spec => OnlyOwnedChangeState)
<1> SUFFICES ASSUME "untag" \notin HumanMoves PROVE Spec => OnlyOwnedChangeState
  OBVIOUS
<1>1. Init => OwnedInv
  BY DEF Init, OwnedInv
<1>2. TypeOK /\ OwnedInv /\ [Next]_vars => OwnedInv'
  BY OwnedNext
<1>3. TypeOK /\ OwnedInv /\ [Next]_vars =>
        [\A i \in TicketIds :
           hook' # hook /\ tickets'[i].state # tickets[i].state =>
             i \notin Denylist /\ tickets[i].managed]_vars
  BY OwnedStep DEF OwnedInv
<1> QED
  BY <1>1, <1>2, <1>3, TypeCorrect, PTL DEF Spec, OnlyOwnedChangeState

-----------------------------------------------------------------------------
(* The spool and the hook implement AlertQueue *)

\* Steps that take in no message and finish none.
Keeps ==
    /\ UNCHANGED <<next, handled>>
    /\ Waiting' \subseteq Waiting

LEMMA QueueNext ==
    ASSUME TypeOK, TypeOK', QueueInv, [Next]_vars
    PROVE  QueueInv' /\ (Keeps \/ Queue!Accept \/ Queue!Handle)
<1> USE DEF zammad, ntfy, hook, stateDir, history
<1>1. /\ spool \in SUBSET SpoolFile /\ next \in Nat /\ handled \in Nat
      /\ cur \in Message \cup {NoMsg} /\ job \in Message \cup {NoMsg}
      /\ (pc = "idle") = (cur = NoMsg)
      /\ pc \in HandleSteps => job \in Message
  BY DEF TypeOK, StateDirType, NtfyType, HookType, HistoryType, InHand
<1>2. \A f \in spool : f.msg \in Message /\ f.msg.id \in Nat
  BY <1>1 DEF SpoolFile, Message
<1>3. cur # NoMsg => cur.id \in Nat
  BY <1>1 DEF Message
\* Steps that leave the spool and the message in hand, inside handle() or not.
<1>4. ASSUME UNCHANGED <<spool, cur, next, handled>>, cur # NoMsg => pc' # "idle",
             \/ pc \in HandleSteps /\ job' = job /\ pc' \in HandleSteps \cup {"failed"}
             \/ pc = "replay" /\ pc' = "failed"
             \/ pc' \in {"record", "publish"}
             \/ UNCHANGED <<pc, job>>
      PROVE  QueueInv' /\ Keeps
  BY <1>4 DEF QueueInv, Keeps, Waiting, Replaying, HandleSteps
\* Steps that end the run.
<1>5. ASSUME Exit, UNCHANGED <<spool, next, handled>> PROVE QueueInv' /\ Keeps
  BY <1>5 DEF QueueInv, Keeps, Waiting, Exit, HandleSteps
\* A call that returns or raises.
<1>6. ASSUME NEW s \in HandleSteps, Answered(s), pc \in HandleSteps,
             UNCHANGED <<cur, next, handled>>
      PROVE  QueueInv' /\ Keeps
  <2>1. CASE UNCHANGED <<job, spool>> /\ pc' \in HandleSteps \cup {"failed"}
    BY <1>4, <1>6, <2>1 DEF HandleSteps
  <2>2. CASE spool' \subseteq spool /\ pc' = "replay"
    BY <1>6, <2>2 DEF QueueInv, Keeps, Waiting, HandleSteps
  <2> QED
    BY <1>6, <2>1, <2>2 DEF Answered
<1>7. CASE UNCHANGED vars
  BY <1>1, <1>4, <1>7 DEF vars
<1>8. CASE Deliver \/ DeliverSelfAlert
  <2>1. PICK m : Start(m) /\ m.id = next
    <3>1. CASE Deliver
      <4>1. PICK k \in Keys, r \in BOOLEAN, s \in Sevs :
              Start([id |-> next, key |-> k, resolved |-> r, sev |-> s, skip |-> FALSE])
        BY <3>1 DEF Deliver
      <4> DEFINE m == [id |-> next, key |-> k, resolved |-> r, sev |-> s, skip |-> FALSE]
      <4>2. m.id = next
        OBVIOUS
      <4> HIDE DEF m
      <4> QED
        BY <4>1, <4>2 DEF m
    <3>2. CASE DeliverSelfAlert
      <4>1. PICK k \in Keys, s \in Sevs :
              Start([id |-> next, key |-> k, resolved |-> FALSE, sev |-> s, skip |-> TRUE])
        BY <3>2 DEF DeliverSelfAlert
      <4> DEFINE m == [id |-> next, key |-> k, resolved |-> FALSE, sev |-> s, skip |-> TRUE]
      <4>2. m.id = next
        OBVIOUS
      <4> HIDE DEF m
      <4> QED
        BY <4>1, <4>2 DEF m
    <3> QED
      BY <1>8, <3>1, <3>2
  <2>2. /\ cur = NoMsg /\ cur' = m /\ cur' # NoMsg /\ next' = next + 1
        /\ pc' = "replay" /\ UNCHANGED <<spool, handled>> /\ next <= MaxMsgs
    BY <1>1, <2>1 DEF Start, TypeOK, InHand
  <2>3. QueueInv'
    BY <1>1, <1>2, <2>1, <2>2 DEF QueueInv, HandleSteps
  <2>4. Waiting' = Waiting \cup {next} /\ \A w \in Waiting : next > w
    BY <1>1, <1>2, <2>1, <2>2 DEF Waiting, QueueInv
  <2>5. next \in 1 .. MaxMsgs /\ next > handled
    BY <2>2, BridgeAssumption DEF TypeOK, NtfyType, HistoryType, QueueInv
  <2>6. Queue!Accept
    BY <2>2, <2>4, <2>5 DEF Queue!Accept
  <2> QED
    BY <2>3, <2>6
<1>9. CASE ReplayNext
  <2>1. Oldest \in spool /\ \A g \in spool : Oldest.msg.id <= g.msg.id
    BY <1>1, <1>9, OldestIsOldest DEF ReplayNext
  <2>2. CASE pc' = "failed"
    BY <1>4, <1>9, <2>2 DEF ReplayNext, HandleSteps
  <2>3. CASE Oldest.ok /\ job' = Oldest.msg /\ pc' = "search"
    <3>1. Oldest = FileOf(job')
      BY <1>1, <2>1, <2>3 DEF FileOf, SpoolFile
    <3>2. Oldest.msg.id < cur.id
      BY <1>9, <2>1 DEF ReplayNext, QueueInv
    <3>3. job' # cur
      BY <1>2, <1>3, <2>1, <2>3, <3>2
    <3>4. UNCHANGED <<spool, cur, next, handled>> /\ pc = "replay"
      BY <1>9 DEF ReplayNext
    <3> QED
      BY <2>1, <2>3, <3>1, <3>3, <3>4 DEF QueueInv, Keeps, Waiting, Replaying, HandleSteps
  <2> QED
    BY <1>9, <2>2, <2>3 DEF ReplayNext
<1>10. CASE HandleCurrent
  <2>1. /\ spool = {} /\ job' = cur /\ pc' \in {"done", "search"}
        /\ UNCHANGED <<spool, cur, next, handled>>
    BY <1>10 DEF HandleCurrent
  <2> QED
    BY <2>1 DEF QueueInv, Keeps, Waiting, Replaying, HandleSteps
<1>11. CASE SearchActive \/ SearchClosed
  BY <1>6, <1>11 DEF SearchActive, SearchClosed, HandleSteps
<1>12. CASE Decide
  BY <1>4, <1>12 DEF Decide, HandleSteps
<1>13. CASE CheckTag
  <2>1. CASE UNCHANGED <<job, err, spool>> /\ pc' \in {"create", "put"}
    BY <1>4, <1>13, <2>1 DEF CheckTag, HandleSteps
  <2>2. ASSUME NEW s \in {"create", "put"}, Answered(s) PROVE QueueInv' /\ Keeps
    BY <1>6, <1>13, <2>2 DEF CheckTag, HandleSteps
  <2> QED
    BY <1>13, <2>1, <2>2 DEF CheckTag
<1>14. CASE PutTicket \/ CreateTicket \/ AddTag
  BY <1>6, <1>14 DEF PutTicket, CreateTicket, AddTag, HandleSteps
<1>15. CASE RememberArticle
  BY <1>4, <1>15 DEF RememberArticle, HandleSteps
<1>16. CASE Finish
  <2>1. job \in Message /\ job.id \in Nat /\ handled' = job.id /\ UNCHANGED next
        /\ cur # NoMsg /\ cur.id \in Nat
    BY <1>1, <1>3, <1>16 DEF Finish, HandleSteps, Message
  <2>2. CASE Replaying
    <3>1. /\ spool' = spool \ {FileOf(job)} /\ pc' = "replay" /\ UNCHANGED cur
      BY <1>16, <2>2 DEF Finish
    <3>2. FileOf(job) \in spool /\ \A f \in spool : job.id <= f.msg.id
      BY <1>16, <2>2 DEF Finish, QueueInv, HandleSteps
    <3>3. /\ handled < job.id /\ job.id < cur.id /\ cur.id < next
          /\ \A f \in spool : f.msg.id = job.id => f = FileOf(job)
      BY <1>16, <2>1, <3>2 DEF Finish, QueueInv, HandleSteps, FileOf
    <3>4. \A f \in spool' : job.id < f.msg.id
      BY <1>2, <2>1, <3>1, <3>2, <3>3
    <3>5. QueueInv'
      <4>1. job.id < next /\ (cur' # NoMsg => job.id < cur'.id /\ cur'.id < next)
        BY <1>1, <2>1, <3>1, <3>3
      <4>2. /\ \A f \in spool' : f.msg.id < next /\ f.msg.id < cur'.id
            /\ \A f, g \in spool' : f.msg.id = g.msg.id => f = g
        BY <1>16, <3>1 DEF Finish, QueueInv, HandleSteps
      <4> QED
        BY <2>1, <3>1, <3>4, <4>1, <4>2 DEF QueueInv, HandleSteps
    <3>6. Waiting' = Waiting \ {job.id} /\ job.id \in Waiting
      BY <2>1, <3>1, <3>2, <3>3, <3>4 DEF Waiting, FileOf
    <3>7. \A w \in Waiting : job.id <= w
      BY <1>2, <2>1, <3>2, <3>3 DEF Waiting
    <3> QED
      BY <2>1, <3>3, <3>5, <3>6, <3>7 DEF Queue!Handle
  <2>3. CASE ~Replaying
    <3>1. spool = {} /\ job = cur /\ cur' = NoMsg /\ pc' = "idle" /\ UNCHANGED spool
      BY <1>16, <2>3 DEF Finish, QueueInv, HandleSteps, Replaying, Exit
    <3>2. QueueInv'
      BY <2>1, <3>1 DEF QueueInv, HandleSteps
    <3>3. Waiting = {job.id} /\ Waiting' = {}
      BY <2>1, <3>1 DEF Waiting
    <3>4. handled < job.id
      BY <2>1, <3>1 DEF QueueInv
    <3> QED
      BY <2>1, <3>2, <3>3, <3>4 DEF Queue!Handle
  <2> QED
    BY <2>2, <2>3
<1>17. CASE SpoolOpen
  <2>1. /\ cur # NoMsg /\ UNCHANGED <<cur, next, handled>>
        /\ pc = "failed" /\ pc' \in {"spoolWrite", "record"}
    BY <1>1, <1>17 DEF SpoolOpen
  <2>2. CASE UNCHANGED spool /\ pc' = "record"
    BY <2>1, <2>2 DEF QueueInv, Keeps, Waiting, HandleSteps
  <2>3. CASE spool' = spool \cup {[msg |-> cur, ok |-> FALSE]} /\ pc' = "spoolWrite"
    <3>1. \A f \in spool : f.msg.id < cur.id
      BY <2>1 DEF QueueInv
    <3>2. \A f \in spool' :
             \/ f \in spool
             \/ f = [msg |-> cur, ok |-> FALSE] /\ f.msg.id = cur.id
      BY <2>3
    <3>3. /\ \A f \in spool' : handled < f.msg.id /\ f.msg.id < next
          /\ \A f \in spool' : f.msg.id = cur.id => f = [msg |-> cur, ok |-> FALSE]
      BY <1>2, <1>3, <2>1, <3>1, <3>2 DEF QueueInv
    <3>4. \A f, g \in spool' : f.msg.id = g.msg.id => f = g
      BY <1>2, <1>3, <2>1, <3>1, <3>2, <3>3 DEF QueueInv
    <3>5. QueueInv'
      BY <2>1, <2>3, <3>3, <3>4 DEF QueueInv, HandleSteps
    <3> QED
      BY <2>1, <2>3, <3>5 DEF Keeps, Waiting
  <2> QED
    BY <1>17, <2>2, <2>3 DEF SpoolOpen
<1>18. CASE SpoolWrite
  <2> DEFINE half == [msg |-> cur, ok |-> FALSE]
  <2>1. /\ cur # NoMsg /\ UNCHANGED <<cur, next, handled>> /\ pc' = "trim"
        /\ spool' = (spool \ {half}) \cup {FileOf(cur)}
    BY <1>1, <1>18 DEF SpoolWrite
  <2>2. FileOf(cur).msg = cur
    BY DEF FileOf
  <2>3. \A f \in spool : f.msg.id = cur.id => f = half
    BY <1>18 DEF SpoolWrite, QueueInv
  <2>4. \A f \in spool' : f = FileOf(cur) \/ (f \in spool /\ f.msg.id # cur.id)
    BY <2>1, <2>3
  <2>5. QueueInv'
    BY <1>2, <1>3, <2>1, <2>2, <2>4 DEF QueueInv, HandleSteps
  <2>6. Waiting' \subseteq Waiting
    BY <2>1, <2>2, <2>4 DEF Waiting
  <2> QED
    BY <2>1, <2>5, <2>6 DEF Keeps
<1>19. CASE SpoolTrim
  <2>1. spool' \subseteq spool /\ pc' = "record" /\ UNCHANGED <<cur, next, handled>>
    BY <1>19 DEF SpoolTrim, Newest
  <2> QED
    BY <2>1 DEF QueueInv, Keeps, Waiting, HandleSteps
<1>20. CASE RecordFailure
  BY <1>4, <1>5, <1>20 DEF RecordFailure
<1>21. CASE PublishSelfAlert \/ Crash
  BY <1>5, <1>21 DEF PublishSelfAlert, Crash
<1>22. CASE ModeChange \/ Tick \/ Operator
  BY <1>1, <1>4, <1>22 DEF ModeChange, Tick, Operator
<1> QED
  BY <1>7, <1>8, <1>9, <1>10, <1>11, <1>12, <1>13, <1>14, <1>15, <1>16, <1>17,
     <1>18, <1>19, <1>20, <1>21, <1>22
  DEF Next, Run, World

\* The messages are handled in the order in which ntfy delivered them and each
\* is done with once, through replays, drops, rejections and crashes.
THEOREM OrderedHandling == Spec => HandledInOrder
<1>1. Init => QueueInv /\ Queue!Init
  BY DEF Init, QueueInv, Queue!Init, Waiting, HandleSteps
<1>2. TypeOK /\ TypeOK' /\ QueueInv /\ [Next]_vars =>
        QueueInv' /\ [Queue!Next]_Queue!vars
  BY QueueNext DEF Keeps, Queue!Next, Queue!GiveUp, Queue!vars
<1> QED
  BY <1>1, <1>2, TypeCorrect, PTL DEF Spec, HandledInOrder, Queue!Spec

-----------------------------------------------------------------------------
(* No message is lost *)

\* Zammad is up, down or loses answers, nothing kills the hook, and neither the
\* spool nor the count of failures reaches its limit.
Gentle ==
    /\ Modes \subseteq {"up", "down", "lossy"} /\ ~CanCrash
    /\ MaxMsgs <= SpoolMax /\ MaxMsgs < Threshold

\* With one file per message and room for every message, spool_message() drops
\* nothing.
LEMMA NothingTrimmed ==
    ASSUME TypeOK, QueueInv, next <= MaxMsgs + 1, MaxMsgs <= SpoolMax
    PROVE  Newest(spool) = spool
<1> SUFFICES ASSUME NEW f \in spool
             PROVE  Cardinality({g \in spool : g.msg.id > f.msg.id}) < SpoolMax
  BY DEF Newest
<1> DEFINE Later == {g \in spool : g.msg.id > f.msg.id}
           Ids == (f.msg.id + 1) .. MaxMsgs
           idOf == [g \in Later |-> g.msg.id]
<1>1. SpoolMax \in Nat /\ MaxMsgs \in Nat /\ next \in Nat /\ handled \in Nat
  BY BridgeAssumption DEF TypeOK, NtfyType, HistoryType
<1>2. \A g \in spool : g.msg.id \in Nat
  BY DEF TypeOK, StateDirType, SpoolFile, Message
<1>3. \A g \in spool : 0 < g.msg.id /\ g.msg.id <= MaxMsgs
  BY <1>1, <1>2 DEF QueueInv
<1>4. idOf \in Injection(Later, Ids)
  <2>1. idOf \in [Later -> Ids]
    BY <1>1, <1>2, <1>3
  <2>2. \A g, h \in Later : idOf[g] = idOf[h] => g = h
    BY DEF QueueInv
  <2> QED
    BY <2>1, <2>2 DEF Injection, IsInjective
<1>5. IsFiniteSet(Ids) /\ Cardinality(Ids) <= MaxMsgs - 1
  <2> DEFINE first == f.msg.id + 1
  <2>1. first \in Int /\ MaxMsgs \in Int /\ 2 <= first /\ first <= MaxMsgs + 1
    BY <1>1, <1>2, <1>3
  <2> HIDE DEF first
  <2>2. /\ IsFiniteSet(first .. MaxMsgs)
        /\ Cardinality(first .. MaxMsgs)
             = IF first > MaxMsgs THEN 0 ELSE MaxMsgs - first + 1
    BY <2>1, FS_Interval
  <2>3. Cardinality(first .. MaxMsgs) <= MaxMsgs - 1
    BY <2>1, <2>2
  <2> QED
    BY <2>2, <2>3 DEF first
<1>6. /\ IsFiniteSet(Later) /\ Cardinality(Later) <= Cardinality(Ids)
  BY <1>4, <1>5, FS_Injection
<1>7. Cardinality(Later) \in Nat /\ Cardinality(Ids) \in Nat
  BY <1>5, <1>6, FS_CardinalityType
<1> QED
  BY <1>1, <1>3, <1>5, <1>6, <1>7

LEMMA LossInit == Init => LossInv
  BY BridgeAssumption DEF Init, LossInv, NoMessageLost, NoMsg

LEMMA LossNext ==
    ASSUME Gentle, TypeOK, TypeOK', QueueInv, LossInv, [Next]_vars
    PROVE  LossInv'
<1> USE DEF zammad, ntfy, hook, stateDir, history
<1>1. /\ spool \in SUBSET SpoolFile /\ next \in Nat /\ handled \in Nat
      /\ failures \in Nat /\ mode \in Modes
      /\ cur \in Message \cup {NoMsg} /\ (pc = "idle") = (cur = NoMsg)
      /\ pc \in HandleSteps => job \in Message
      /\ Threshold \in Nat /\ MaxMsgs \in Nat
  BY BridgeAssumption
  DEF TypeOK, ZammadType, StateDirType, NtfyType, HookType, HistoryType, InHand
\* Steps that leave the spool and the message in hand.
<1>2. ASSUME UNCHANGED <<spool, cur, next, alerts, failures, handled>>,
             \/ /\ pc \in HandleSteps \cup {"replay"}
                /\ pc' \in HandleSteps \cup {"replay"}
             \/ pc = "replay" /\ pc' = "failed" /\ err' = "transient"
             \/ pc \in HandleSteps /\ pc' = "failed" /\ err' = "transient"
             \/ UNCHANGED <<pc, err>>
      PROVE  LossInv'
  <2>1. NoMessageLost'
    BY <1>2 DEF LossInv, NoMessageLost
  <2>2. CASE UNCHANGED <<pc, err>>
    BY <1>2, <2>1, <2>2 DEF LossInv
  <2>3. CASE /\ pc \in HandleSteps \cup {"replay"}
             /\ pc' \in HandleSteps \cup {"replay", "failed"}
             /\ pc' = "failed" => err' = "transient"
    <3>1. \A f \in spool : ~f.msg.skip /\ f.ok
      BY <2>3 DEF LossInv, HandleSteps
    <3> QED
      BY <1>2, <2>1, <2>3, <3>1 DEF LossInv, HandleSteps
  <2> QED
    BY <1>2, <2>2, <2>3 DEF HandleSteps
\* A call that returns or raises.
<1>3. ASSUME NEW s \in HandleSteps, Answered(s), pc \in HandleSteps,
             UNCHANGED <<cur, next, alerts, failures, handled>>
      PROVE  LossInv'
  <2>1. mode \in {"up", "down", "lossy"}
    BY <1>1 DEF Gentle
  <2>2. /\ UNCHANGED spool
        /\ pc' = s \/ (pc' = "failed" /\ err' = "transient")
    BY <1>3, <2>1 DEF Answered, Failure
  <2> QED
    BY <1>2, <1>3, <2>2
<1>4. CASE UNCHANGED vars
  BY <1>2, <1>4 DEF vars
<1>5. CASE Deliver
  <2>1. PICK k \in Keys, r \in BOOLEAN, s \in Sevs :
          Start([id |-> next, key |-> k, resolved |-> r, sev |-> s, skip |-> FALSE])
    BY <1>5 DEF Deliver
  <2>2. /\ cur' # NoMsg /\ cur'.id = next /\ ~cur'.skip
        /\ next' = next + 1 /\ next <= MaxMsgs /\ pc = "idle" /\ pc' = "replay"
        /\ UNCHANGED <<spool, failures, handled, alerts>>
    BY <1>5, <2>1, NoMsgIsNone DEF Deliver, Start, NoMsg
  <2>3. cur.id = 0
    BY <1>1, <2>2 DEF NoMsg
  <2>4. NoMessageLost'
    BY <1>1, <2>2, <2>3 DEF LossInv, NoMessageLost
  <2> QED
    BY <1>1, <2>2, <2>4 DEF LossInv
<1>6. CASE DeliverSelfAlert \/ Crash
  BY <1>6 DEF DeliverSelfAlert, Crash, LossInv, Gentle
<1>7. CASE ReplayNext
  <2>1. Oldest.ok
    BY <1>1, <1>7, OldestIsOldest DEF ReplayNext, LossInv
  <2> QED
    BY <1>2, <1>7, <2>1 DEF ReplayNext, HandleSteps
<1>8. CASE HandleCurrent
  BY <1>2, <1>8 DEF HandleCurrent, HandleSteps
<1>9. CASE SearchActive \/ SearchClosed
  BY <1>3, <1>9 DEF SearchActive, SearchClosed, HandleSteps
<1>10. CASE Decide
  BY <1>2, <1>10 DEF Decide, HandleSteps
<1>11. CASE CheckTag
  <2>1. CASE UNCHANGED <<job, err, spool>> /\ pc' \in {"create", "put"}
    BY <1>2, <1>11, <2>1 DEF CheckTag, HandleSteps
  <2>2. ASSUME NEW s \in {"create", "put"}, Answered(s) PROVE LossInv'
    BY <1>3, <1>11, <2>2 DEF CheckTag, HandleSteps
  <2> QED
    BY <1>11, <2>1, <2>2 DEF CheckTag
<1>12. CASE PutTicket \/ CreateTicket \/ AddTag
  BY <1>3, <1>12 DEF PutTicket, CreateTicket, AddTag, HandleSteps
<1>13. CASE RememberArticle
  BY <1>2, <1>13 DEF RememberArticle, HandleSteps
<1>14. CASE Finish
  <2>1. /\ job.id \in Nat /\ handled' = job.id /\ UNCHANGED <<next, alerts>>
        /\ handled < job.id
    BY <1>1, <1>14 DEF Finish, HandleSteps, Message, QueueInv, Replaying, FileOf, InHand
  <2>2. CASE Replaying
    <3>1. /\ spool' = spool \ {FileOf(job)} /\ pc' = "replay"
          /\ UNCHANGED <<cur, failures>>
      BY <1>14, <2>2 DEF Finish
    <3>2. NoMessageLost'
      BY <1>1, <2>1, <3>1 DEF LossInv, NoMessageLost, FileOf
    <3> QED
      BY <1>14, <2>1, <3>1, <3>2 DEF LossInv, Finish
  <2>3. CASE ~Replaying
    <3>1. /\ spool = {} /\ job = cur /\ cur' = NoMsg /\ pc' = "idle"
          /\ UNCHANGED spool /\ failures' = 0
      BY <1>14, <2>3 DEF Finish, QueueInv, HandleSteps, Replaying, Exit
    <3>2. NoMessageLost'
      BY <1>1, <2>1, <3>1 DEF LossInv, NoMessageLost
    <3> QED
      BY <1>1, <2>1, <3>1, <3>2 DEF LossInv
  <2> QED
    BY <2>2, <2>3
<1>15. CASE SpoolOpen
  <2>1. /\ spool' = spool \cup {[msg |-> cur, ok |-> FALSE]} /\ pc' = "spoolWrite"
        /\ UNCHANGED <<cur, next, alerts, failures, handled>>
        /\ pc = "failed"
    BY <1>1, <1>15 DEF SpoolOpen, LossInv
  <2>2. NoMessageLost'
    BY <2>1 DEF LossInv, NoMessageLost
  <2>3. \A f \in spool' : ~f.msg.skip /\ (f.ok \/ f.msg = cur)
    BY <1>1, <2>1 DEF LossInv, HandleSteps
  <2> QED
    BY <2>1, <2>2, <2>3 DEF LossInv
<1>16. CASE SpoolWrite
  <2> DEFINE half == [msg |-> cur, ok |-> FALSE]
  <2>1. /\ spool' = (spool \ {half}) \cup {FileOf(cur)} /\ pc' = "trim"
        /\ UNCHANGED <<cur, next, alerts, failures, handled>>
        /\ pc = "spoolWrite"
    BY <1>16 DEF SpoolWrite
  <2>2. FileOf(cur) \in spool' /\ FileOf(cur).msg = cur /\ FileOf(cur).ok
    BY <2>1 DEF FileOf
  <2>3. \A f \in spool' : ~f.msg.skip /\ f.ok
    <3>1. \A f \in spool : f.msg = cur /\ ~f.ok => f = half
      BY <1>1 DEF SpoolFile
    <3>2. \A f \in spool \ {half} : ~f.msg.skip /\ f.ok
      BY <2>1, <3>1 DEF LossInv
    <3>3. ~cur.skip
      BY <1>1, <2>1 DEF LossInv
    <3> QED
      BY <2>1, <2>2, <3>2, <3>3
  <2>4. NoMessageLost'
    BY <2>1 DEF LossInv, NoMessageLost
  <2> QED
    BY <2>1, <2>2, <2>3, <2>4 DEF LossInv
<1>17. CASE SpoolTrim
  <2>1. /\ UNCHANGED <<spool, cur, next, alerts, failures, handled>>
        /\ pc = "trim" /\ pc' = "record"
    BY <1>17, NothingTrimmed DEF SpoolTrim, LossInv, Gentle
  <2> QED
    BY <2>1 DEF LossInv, NoMessageLost
<1>18. CASE RecordFailure
  <2>1. failures + 1 # Threshold
    BY <1>1, <1>18 DEF RecordFailure, LossInv, Gentle
  <2>2. /\ failures' = failures + 1 /\ pc = "record" /\ pc' = "idle" /\ cur' = NoMsg
        /\ UNCHANGED <<spool, next, alerts, handled>>
    BY <1>18, <2>1 DEF RecordFailure, Exit
  <2>3. NoMessageLost'
    BY <2>2 DEF LossInv, NoMessageLost
  <2> QED
    BY <1>1, <2>2, <2>3 DEF LossInv
<1>19. CASE PublishSelfAlert
  BY <1>19 DEF PublishSelfAlert, LossInv
<1>20. CASE ModeChange \/ Tick \/ Operator
  BY <1>2, <1>20 DEF ModeChange, Tick, Operator
<1> QED
  BY <1>4, <1>5, <1>6, <1>7, <1>8, <1>9, <1>10, <1>11, <1>12, <1>13, <1>14, <1>15,
     <1>16, <1>17, <1>18, <1>19, <1>20
  DEF Next, Run, World

\* While Zammad is at worst down or loses answers, the hook is not killed and no
\* limit is reached, every message delivered has been handled or still waits.
THEOREM NothingLost == Gentle => (Spec => []NoMessageLost)
<1> SUFFICES ASSUME Gentle PROVE Spec => []NoMessageLost
  OBVIOUS
<1>1. Init => QueueInv /\ LossInv
  BY LossInit DEF Init, QueueInv, HandleSteps
<1>2. TypeOK /\ TypeOK' /\ QueueInv /\ LossInv /\ [Next]_vars => QueueInv' /\ LossInv'
  BY QueueNext, LossNext
<1>3. LossInv => NoMessageLost
  BY DEF LossInv
<1> QED
  BY <1>1, <1>2, <1>3, TypeCorrect, PTL DEF Spec
=============================================================================
