----------------------- MODULE ApprovalLedger_proofs -----------------------
(***************************************************************************)
(* Proofs about ApprovalLedger: for histories of any length, the audit log *)
(* explains every status, and a final decision is the last event of its    *)
(* request.                                                                *)
(***************************************************************************)
EXTENDS ApprovalLedger, SequenceTheorems, TLAPS

Event == CreatedEvent \cup DecidedEvent

(***************************************************************************)
(* An event that announced a final status left the entry with one.  This   *)
(* is what relates the history to the guard of a decision, which reads the *)
(* entry and not the history.                                              *)
(***************************************************************************)
FinalRecorded ==
  \A n \in DOMAIN history :
    EventStatus(history[n]) \in FinalStatus =>
      entries[history[n].request_id].status \in FinalStatus

LedgerInv ==
  LedgerTypeOK /\ HistoryExplainsStatus /\ FinalRecorded /\ FinalClosesHistory

-----------------------------------------------------------------------------
(***************************************************************************)
(* What a step does, in the terms the invariants use: one event is added,  *)
(* for one request, whose entry gets the status the event announces, and   *)
(* no other entry changes.                                                 *)
(***************************************************************************)
Step(i, event) ==
  /\ i \in Ids /\ event \in Event /\ event.request_id = i
  /\ entries'[i] \in Entry /\ entries'[i].status = EventStatus(event)
  /\ \A j \in Ids : j # i => entries'[j] = entries[j]
  /\ DOMAIN history = 1..Len(history) /\ Len(history) \in Nat
  /\ DOMAIN history' = 1..(Len(history) + 1) /\ Len(history') = Len(history) + 1
  /\ \A n \in 1..Len(history) : history'[n] = history[n]
  /\ history'[Len(history) + 1] = event

(***************************************************************************)
(* The event of a registration is the first of its request, that of a      *)
(* decision is not, and a decided request was there and open.              *)
(***************************************************************************)
Registers(i, event) ==
  /\ entries[i] = NoEntry
  /\ event.event_type = "request_created"
  /\ event.payload.triage = entries'[i].triage

Decides(i, event) ==
  /\ entries[i] # NoEntry /\ entries[i].status \notin FinalStatus
  /\ event.event_type = "human_decision_recorded"
  /\ entries'[i].triage = entries[i].triage

(***************************************************************************)
(* Every status is in RequestStatus.                                       *)
(***************************************************************************)
LEMMA StatusTypes ==
  /\ \A decision \in Decision : NewStatus(decision) \in RequestStatus
  /\ \A triage \in Triage : InitialStatus(triage) \in RequestStatus
BY DEF NewStatus, InitialStatus, RequestStatus

(***************************************************************************)
(* Appending keeps the elements and the type of a sequence.                *)
(***************************************************************************)
LEMMA AppendEvent ==
  ASSUME history \in Seq(Event), NEW event \in Event, history' = Append(history, event)
  PROVE  /\ history' \in Seq(Event)
         /\ DOMAIN history = 1..Len(history) /\ Len(history) \in Nat
         /\ DOMAIN history' = 1..(Len(history) + 1) /\ Len(history') = Len(history) + 1
         /\ \A n \in 1..Len(history) : history'[n] = history[n]
         /\ history'[Len(history) + 1] = event
BY AppendProperties, LenProperties

(***************************************************************************)
(* A registration is such a step and keeps the types.                      *)
(***************************************************************************)
LEMMA RegisterStep ==
  ASSUME LedgerTypeOK, NEW i \in Ids, NEW key \in Keys \cup {NoKey},
         NEW payload \in Payloads, NEW triage \in Triage, Register(i, key, payload, triage)
  PROVE  LedgerTypeOK' /\ \E event : Step(i, event) /\ Registers(i, event)
<1> DEFINE status == InitialStatus(triage)
           entry  == [key |-> key, payload |-> payload, triage |-> triage, status |-> status]
           event  == [request_id |-> i, event_type |-> "request_created",
                      payload |-> [status |-> status, triage |-> triage]]
<1>1. /\ entry \in Entry /\ entry.status = status /\ entry.triage = triage
      /\ event \in Event /\ event.request_id = i
      /\ event.event_type = "request_created"
      /\ event.payload.triage = triage /\ EventStatus(event) = status
  BY StatusTypes DEF Entry, Event, CreatedEvent, EventStatus
<1>2. /\ entries' = [entries EXCEPT ![i] = entry]
      /\ history' = Append(history, event)
      /\ entries[i] = NoEntry
  BY DEF Register
<1> HIDE DEF entry, event, status
<1>3. entries \in [Ids -> Entry \cup {NoEntry}] /\ history \in Seq(Event)
  BY DEF LedgerTypeOK, Event
<1>4. entries' \in [Ids -> Entry \cup {NoEntry}] /\ entries'[i] = entry
      /\ \A j \in Ids : j # i => entries'[j] = entries[j]
  BY <1>1, <1>2, <1>3
<1>5. /\ history' \in Seq(Event)
      /\ DOMAIN history = 1..Len(history) /\ Len(history) \in Nat
      /\ DOMAIN history' = 1..(Len(history) + 1) /\ Len(history') = Len(history) + 1
      /\ \A n \in 1..Len(history) : history'[n] = history[n]
      /\ history'[Len(history) + 1] = event
  BY <1>1, <1>2, <1>3, AppendEvent
<1> QED
  BY <1>1, <1>2, <1>4, <1>5 DEF LedgerTypeOK, Event, Step, Registers

(***************************************************************************)
(* So is a decision.                                                       *)
(***************************************************************************)
LEMMA DecideStep ==
  ASSUME LedgerTypeOK, NEW i \in Ids, NEW decision \in Decision,
         NEW reviewer \in Reviewers, Decide(i, decision, reviewer)
  PROVE  LedgerTypeOK' /\ \E event : Step(i, event) /\ Decides(i, event)
<1> DEFINE status == NewStatus(decision)
           entry  == [entries[i] EXCEPT !.status = status]
           event  == [request_id |-> i, event_type |-> "human_decision_recorded",
                      payload |-> [decision |-> decision, reviewer |-> reviewer,
                                   new_status |-> status]]
<1>1. /\ event \in Event /\ event.request_id = i
      /\ event.event_type = "human_decision_recorded" /\ EventStatus(event) = status
  BY StatusTypes DEF Event, DecidedEvent, EventStatus
<1>2. entries \in [Ids -> Entry \cup {NoEntry}] /\ history \in Seq(Event)
  BY DEF LedgerTypeOK, Event
<1>3. /\ entries' = [entries EXCEPT ![i] = entry]
      /\ history' = Append(history, event)
      /\ entries[i] # NoEntry /\ entries[i].status \notin FinalStatus
  BY <1>2 DEF Decide
<1>4. entries[i] \in Entry
  BY <1>2, <1>3
<1>5. entry \in Entry /\ entry.status = status /\ entry.triage = entries[i].triage
  BY <1>4, StatusTypes DEF Entry
<1> HIDE DEF entry, event, status
<1>6. entries' \in [Ids -> Entry \cup {NoEntry}] /\ entries'[i] = entry
      /\ \A j \in Ids : j # i => entries'[j] = entries[j]
  BY <1>2, <1>3, <1>5
<1>7. /\ history' \in Seq(Event)
      /\ DOMAIN history = 1..Len(history) /\ Len(history) \in Nat
      /\ DOMAIN history' = 1..(Len(history) + 1) /\ Len(history') = Len(history) + 1
      /\ \A n \in 1..Len(history) : history'[n] = history[n]
      /\ history'[Len(history) + 1] = event
  BY <1>1, <1>2, <1>3, AppendEvent
<1> QED
  BY <1>1, <1>3, <1>5, <1>6, <1>7 DEF LedgerTypeOK, Event, Step, Decides

-----------------------------------------------------------------------------
(***************************************************************************)
(* A step of either kind preserves the three invariants.                   *)
(***************************************************************************)
LEMMA StepKeepsInv ==
  ASSUME LedgerInv, NEW i, NEW event, Step(i, event),
         Registers(i, event) \/ Decides(i, event)
  PROVE  (HistoryExplainsStatus /\ FinalRecorded /\ FinalClosesHistory)'
<1>0. PICK last : last = Len(history) + 1
  OBVIOUS
<1>1. \A n \in DOMAIN history :
        /\ history[n] \in Event /\ history[n].request_id \in Ids
        /\ entries[history[n].request_id] # NoEntry
  BY DEF LedgerInv, LedgerTypeOK, HistoryExplainsStatus, Event, CreatedEvent, DecidedEvent,
         Step
<1>2. /\ DOMAIN history = 1..Len(history) /\ Len(history) \in Nat
      /\ last = Len(history) + 1
      /\ DOMAIN history' = 1..last /\ Len(history') = last
      /\ \A n \in 1..Len(history) : history'[n] = history[n]
      /\ history'[last] = event
      /\ i \in Ids /\ event.request_id = i
      /\ entries'[i].status = EventStatus(event)
      /\ entries'[i] # NoEntry
      /\ \A j \in Ids : j # i => entries'[j] = entries[j]
  BY <1>0, LedgerAssumption DEF Step
<1>3. HistoryExplainsStatus'
  <2>1. ASSUME NEW n \in 1..Len(history)
        PROVE  /\ entries'[history'[n].request_id] # NoEntry
               /\ history'[n].event_type = "request_created" <=> FirstEvent(n)'
               /\ FirstEvent(n)' =>
                    history'[n].payload.triage = entries'[history'[n].request_id].triage
               /\ LastEvent(n)' =>
                    EventStatus(history'[n]) = entries'[history'[n].request_id].status
    <3>1. FirstEvent(n)' <=> FirstEvent(n)
      BY <1>2 DEF FirstEvent
    <3>2. LastEvent(n)' => LastEvent(n) /\ history[n].request_id # i
      BY <1>2 DEF LastEvent
    <3>3. Registers(i, event) => history[n].request_id # i
      BY <1>1, <1>2 DEF Registers
    <3>4. entries'[history[n].request_id].triage = entries[history[n].request_id].triage
      BY <1>1, <1>2, <3>3 DEF Decides
    <3> QED
      BY <1>1, <1>2, <3>1, <3>2, <3>4 DEF LedgerInv, HistoryExplainsStatus
  <2>2. /\ event.event_type = "request_created" <=> FirstEvent(last)'
        /\ FirstEvent(last)' => event.payload.triage = entries'[i].triage
    <3>1. CASE Registers(i, event)
      <4>1. FirstEvent(last)'
        BY <1>1, <1>2, <3>1 DEF FirstEvent, Registers
      <4> QED
        BY <3>1, <4>1 DEF Registers
    <3>2. CASE Decides(i, event)
      <4>1. PICK n \in DOMAIN history : history[n].request_id = i
        BY <1>2, <3>2 DEF LedgerInv, HistoryExplainsStatus, Decides
      <4>2. ~FirstEvent(last)'
        BY <1>2, <4>1 DEF FirstEvent
      <4> QED
        BY <3>2, <4>2 DEF Decides
    <3> QED
      BY <3>1, <3>2
  <2>3. ASSUME NEW j \in Ids, entries'[j] # NoEntry
        PROVE  \E n \in DOMAIN history' : history'[n].request_id = j
    <3>1. CASE j = i
      BY <1>2, <3>1
    <3>2. CASE j # i
      BY <1>2, <2>3, <3>2 DEF LedgerInv, HistoryExplainsStatus
    <3> QED
      BY <3>1, <3>2
  <2> QED
    BY <1>2, <2>1, <2>2, <2>3 DEF HistoryExplainsStatus
<1>4. ASSUME NEW n \in 1..Len(history), history[n].request_id = i
      PROVE  EventStatus(history[n]) \notin FinalStatus
  BY <1>1, <1>2, <1>4 DEF LedgerInv, FinalRecorded, Registers, Decides
<1>5. FinalRecorded'
  <2>1. ASSUME NEW n \in 1..Len(history), EventStatus(history'[n]) \in FinalStatus
        PROVE  entries'[history'[n].request_id].status \in FinalStatus
    <3>1. history[n].request_id # i
      BY <1>2, <1>4, <2>1
    <3> QED
      BY <1>1, <1>2, <2>1, <3>1 DEF LedgerInv, FinalRecorded
  <2> QED
    BY <1>2, <2>1 DEF FinalRecorded, EventStatus
<1>6. FinalClosesHistory'
  BY <1>2, <1>4 DEF LedgerInv, FinalClosesHistory, EventStatus
<1> QED
  BY <1>3, <1>5, <1>6

(***************************************************************************)
(* The empty ledger satisfies the invariants.                              *)
(***************************************************************************)
LEMMA LedgerInit == Init => LedgerInv
<1> SUFFICES ASSUME Init PROVE LedgerInv
  OBVIOUS
<1>1. history = <<>> /\ DOMAIN history = {} /\ history \in Seq(CreatedEvent \cup DecidedEvent)
  BY DEF Init
<1> QED
  BY <1>1 DEF Init, LedgerInv, LedgerTypeOK, HistoryExplainsStatus, FinalRecorded,
              FinalClosesHistory

(***************************************************************************)
(* Every step keeps them.                                                  *)
(***************************************************************************)
LEMMA LedgerStep == LedgerInv /\ [Next]_ledgerVars => LedgerInv'
<1> SUFFICES ASSUME LedgerInv, [Next]_ledgerVars PROVE LedgerInv'
  OBVIOUS
<1>1. ASSUME NEW i \in Ids, NEW key \in Keys \cup {NoKey}, NEW payload \in Payloads,
             NEW triage \in Triage, Register(i, key, payload, triage)
      PROVE  LedgerInv'
  BY <1>1, RegisterStep, StepKeepsInv DEF LedgerInv
<1>2. ASSUME NEW i \in Ids, NEW decision \in Decision, NEW reviewer \in Reviewers,
             Decide(i, decision, reviewer)
      PROVE  LedgerInv'
  BY <1>2, DecideStep, StepKeepsInv DEF LedgerInv
<1>3. CASE UNCHANGED ledgerVars
  BY <1>3 DEF ledgerVars, LedgerInv, LedgerTypeOK, HistoryExplainsStatus, FinalRecorded,
              FinalClosesHistory, FirstEvent, LastEvent, EventStatus
<1> QED
  BY <1>1, <1>2, <1>3 DEF Next

(***************************************************************************)
(* The invariants hold throughout, for histories of any length.            *)
(***************************************************************************)
THEOREM LedgerInductive == Spec => []LedgerInv
BY LedgerInit, LedgerStep, PTL DEF Spec

(***************************************************************************)
(* Entries and history keep their types.                                   *)
(***************************************************************************)
THEOREM LedgerTypeCorrect == Spec => []LedgerTypeOK
BY LedgerInductive, PTL DEF LedgerInv

(***************************************************************************)
(* The audit log alone explains every stored status.                       *)
(***************************************************************************)
THEOREM LedgerExplained == Spec => []HistoryExplainsStatus
BY LedgerInductive, PTL DEF LedgerInv

(***************************************************************************)
(* Nothing is recorded of a request after its final decision.              *)
(***************************************************************************)
THEOREM LedgerFinalCloses == Spec => []FinalClosesHistory
BY LedgerInductive, PTL DEF LedgerInv

=============================================================================
