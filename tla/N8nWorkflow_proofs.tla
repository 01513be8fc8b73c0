------------------------- MODULE N8nWorkflow_proofs -------------------------
(***************************************************************************)
(* Proofs about N8nWorkflow: for any clients, keys and payloads, whatever  *)
(* answers are lost and however often the volume is, a client is answered  *)
(* with its own payload and a keyed submission is one request at most.     *)
(***************************************************************************)
EXTENDS N8nWorkflow, FiniteSetTheorems, TLAPS

Run ==
  [number : 1..MaxExecutions, client : Clients, payload : Payloads, key : Keys,
   created : Ids \cup {NoAnswer}]

FlowTypeOK ==
  /\ entries \in [Ids -> Entry \cup {NoEntry}]
  /\ submission \in [Clients -> Submission]
  /\ answer \in [Clients -> Ids \cup {NoAnswer}]
  /\ executed \in 0..MaxExecutions /\ losses \in Nat
  /\ executions \subseteq Run
  /\ origin \in [Ids -> Clients \cup {NoClient}]

Keyed(c) == submission[c].key # NoKey

(***************************************************************************)
(* The request is stored and has what the client sends.                    *)
(***************************************************************************)
Fits(i, c) == entries[i] # NoEntry /\ entries[i].payload = submission[c].payload

RunsFit ==
  \A run \in executions :
    /\ run.payload = submission[run.client].payload
    /\ Keyed(run.client) => run.key = submission[run.client].key
    /\ run.created # NoAnswer => Fits(run.created, run.client)

AnswersFit == \A c \in Clients : answer[c] # NoAnswer => Fits(answer[c], c)

OriginsFit ==
  \A i \in Ids : origin[i] # NoClient =>
    /\ entries[i] # NoEntry
    /\ Keyed(origin[i]) => entries[i].key = submission[origin[i]].key

OneHolder ==
  \A i, j \in Ids :
    /\ entries[i] # NoEntry /\ entries[j] # NoEntry
    /\ entries[i].key = entries[j].key /\ entries[i].key # NoKey
    => i = j

(***************************************************************************)
(* While no number comes back, each belongs to one client, and so does the *)
(* request that has it as its key.                                         *)
(***************************************************************************)
NumbersFit ==
  /\ \A run \in executions : run.number <= executed
  /\ \A run \in executions : ~Keyed(run.client) => run.key = run.number
  /\ \A run, other \in executions : run.number = other.number => run.client = other.client
  /\ \A i \in Ids : entries[i] # NoEntry /\ entries[i].key \in 1..MaxExecutions =>
       entries[i].key <= executed
  /\ \A run \in executions, i \in Ids :
       ~Keyed(run.client) /\ entries[i] # NoEntry /\ entries[i].key = run.number =>
         origin[i] = run.client
  /\ \A run \in executions :
       ~Keyed(run.client) /\ run.created # NoAnswer => origin[run.created] = run.client
  /\ \A c \in Clients : answer[c] # NoAnswer /\ ~Keyed(c) => origin[answer[c]] = c

FlowInv ==
  /\ FlowTypeOK /\ RunsFit /\ AnswersFit /\ OriginsFit /\ OneHolder
  /\ losses = 0 => NumbersFit

-----------------------------------------------------------------------------
(***************************************************************************)
(* At first nothing has been submitted or stored.                          *)
(***************************************************************************)
LEMMA FlowStarts == FlowInit => FlowInv
<1> SUFFICES ASSUME FlowInit PROVE FlowInv
  OBVIOUS
<1>1. FlowTypeOK
  BY WorkflowAssumption DEF FlowInit, Init, FlowTypeOK
<1> QED
  BY <1>1 DEF FlowInit, Init, FlowInv, RunsFit, AnswersFit, OriginsFit, OneHolder, NumbersFit

(***************************************************************************)
(* An execution starts with its client's payload and a key of its own.     *)
(***************************************************************************)
LEMMA SubmitKeeps ==
  ASSUME FlowInv, NEW c \in Clients, Submit(c)
  PROVE  FlowInv'
<1> DEFINE new == [number |-> executed', client |-> c, payload |-> submission[c].payload,
                   key |-> idempotency_key(submission[c], executed'), created |-> NoAnswer]
<1>1. /\ UNCHANGED <<entries, submission, answer, losses, origin>>
      /\ executed' = executed + 1 /\ executed < MaxExecutions
      /\ executions' = executions \cup {new}
  BY DEF Submit, ledgerVars
<1>2. /\ executed \in Nat /\ executed' \in 1..MaxExecutions
      /\ submission[c] \in Submission
  BY <1>1, WorkflowAssumption DEF FlowInv, FlowTypeOK
<1>3. /\ new.number = executed' /\ new.client = c /\ new.payload = submission[c].payload
      /\ new.created = NoAnswer
      /\ Keyed(c) => new.key = submission[c].key
      /\ ~Keyed(c) => new.key = executed'
  BY DEF Keyed, idempotency_key
<1>4. new \in Run
  BY <1>2, WorkflowAssumption DEF Run, Submission, OwnKeys, idempotency_key
<1> HIDE DEF new
<1>5. FlowTypeOK'
  BY <1>1, <1>2, <1>4 DEF FlowInv, FlowTypeOK
<1>6. RunsFit' /\ AnswersFit' /\ OriginsFit' /\ OneHolder'
  BY <1>1, <1>3 DEF FlowInv, RunsFit, AnswersFit, OriginsFit, OneHolder, Fits, Keyed
<1>7. ASSUME losses = 0
      PROVE  NumbersFit'
  <2>1. /\ NumbersFit
        /\ \A run \in executions : run.number \in Nat /\ run.number < executed'
    BY <1>1, <1>2, <1>7 DEF FlowInv, FlowTypeOK, Run, NumbersFit
  <2>2. \A i \in Ids : entries[i] # NoEntry /\ entries[i].key \in 1..MaxExecutions =>
          entries[i].key < executed'
    BY <1>1, <1>2, <2>1 DEF NumbersFit
  <2> QED
    BY <1>1, <1>2, <1>3, <2>1, <2>2 DEF NumbersFit, Keyed
<1> QED
  BY <1>1, <1>5, <1>6, <1>7 DEF FlowInv

(***************************************************************************)
(* An execution learns of a request that fits it: its new one, or the one  *)
(* that holds its key and has its payload.                                 *)
(***************************************************************************)
LEMMA MoveRun ==
  ASSUME FlowTypeOK, NEW run \in executions, NEW i \in Ids, Move(run, i)
  PROVE  \E moved \in Run :
           /\ executions' = (executions \ {run}) \cup {moved}
           /\ moved.created = i
           /\ moved.number = run.number /\ moved.client = run.client
           /\ moved.payload = run.payload /\ moved.key = run.key
<1> DEFINE moved == [run EXCEPT !.created = i]
<1>1. run \in Run
  BY DEF FlowTypeOK
<1>2. /\ moved \in Run /\ moved.created = i
      /\ moved.number = run.number /\ moved.client = run.client
      /\ moved.payload = run.payload /\ moved.key = run.key
  BY <1>1 DEF Run
<1>3. executions' = (executions \ {run}) \cup {moved}
  BY DEF Move
<1> HIDE DEF moved
<1> QED
  BY <1>2, <1>3

(***************************************************************************)
(* The backend registers the request of an execution under its key.        *)
(***************************************************************************)
LEMMA RegisterKeeps ==
  ASSUME FlowInv, NEW run \in executions, NEW i \in Ids, NEW triage \in Triage,
         Register(i, run.key, run.payload, triage),
         origin' = [origin EXCEPT ![i] = run.client], Move(run, i),
         UNCHANGED <<submission, attempts, answer, executed, losses>>
  PROVE  FlowInv'
<1> DEFINE new == [key |-> run.key, payload |-> run.payload, triage |-> triage,
                   status |-> InitialStatus(triage)]
<1>1. run \in Run
  BY DEF FlowInv, FlowTypeOK
<1>2. new \in Entry /\ new.key = run.key /\ new.payload = run.payload
  BY <1>1 DEF Run, Entry, InitialStatus, RequestStatus
<1>3. entries[i] = NoEntry /\ KeyFree(run.key) /\ entries' = [entries EXCEPT ![i] = new]
  BY DEF Register
<1> HIDE DEF new
<1>4. /\ entries'[i] = new /\ new # NoEntry
      /\ \A j \in Ids \ {i} : entries'[j] = entries[j]
      /\ entries' \in [Ids -> Entry \cup {NoEntry}]
  BY <1>2, <1>3, LedgerAssumption DEF FlowInv, FlowTypeOK
<1>5. /\ origin'[i] = run.client /\ \A j \in Ids \ {i} : origin'[j] = origin[j]
      /\ origin' \in [Ids -> Clients \cup {NoClient}]
  BY <1>1 DEF FlowInv, FlowTypeOK, Run
<1>6. PICK moved \in Run :
        /\ executions' = (executions \ {run}) \cup {moved}
        /\ moved.created = i
        /\ moved.number = run.number /\ moved.client = run.client
        /\ moved.payload = run.payload /\ moved.key = run.key
  BY MoveRun DEF FlowInv
<1>7. FlowTypeOK'
  BY <1>4, <1>5, <1>6 DEF FlowInv, FlowTypeOK
<1>8. \A j \in Ids, c \in Clients : Fits(j, c) => j # i /\ Fits(j, c)'
  BY <1>3, <1>4 DEF Fits
<1>9. Fits(i, run.client)'
  BY <1>2, <1>4 DEF FlowInv, RunsFit, Fits
<1>10. RunsFit'
  <2>1. \A other \in executions :
          other.client \in Clients /\ other.created \in Ids \cup {NoAnswer}
    BY DEF FlowInv, FlowTypeOK, Run
  <2> QED
    BY <1>6, <1>8, <1>9, <2>1 DEF FlowInv, RunsFit, Keyed
<1>11. AnswersFit'
  BY <1>8 DEF FlowInv, FlowTypeOK, AnswersFit
<1>12. OriginsFit'
  BY <1>2, <1>4, <1>5 DEF FlowInv, RunsFit, OriginsFit, Keyed
<1>13. OneHolder'
  BY <1>2, <1>3, <1>4 DEF FlowInv, OneHolder, KeyFree
<1>14. ASSUME losses = 0
       PROVE  NumbersFit'
  <2>1. NumbersFit /\ executed \in Nat
    BY <1>14, WorkflowAssumption DEF FlowInv, FlowTypeOK
  <2>2. \A other \in executions : other \in Run /\ other.created # i
    BY <1>3, WorkflowAssumption DEF FlowInv, FlowTypeOK, RunsFit, Fits, Run
  <2>3. /\ Keyed(run.client) => new.key \notin 1..MaxExecutions
        /\ ~Keyed(run.client) => new.key = run.number
    BY <1>1, <1>2, <2>1 DEF FlowInv, FlowTypeOK, RunsFit, NumbersFit, Keyed, Run, Submission,
       OwnKeys
  <2>4. \A c \in Clients : answer[c] # i
    BY <1>3, WorkflowAssumption DEF FlowInv, AnswersFit, Fits
  <2>5. /\ \A other \in executions' : other.number <= executed'
        /\ \A other \in executions' : ~Keyed(other.client)' => other.key = other.number
        /\ \A r, s \in executions' : r.number = s.number => r.client = s.client
    BY <1>6, <2>1 DEF NumbersFit, Keyed
  <2>6. \A j \in Ids : entries'[j] # NoEntry /\ entries'[j].key \in 1..MaxExecutions =>
          entries'[j].key <= executed'
    BY <1>4, <2>1, <2>3 DEF NumbersFit
  <2>7. \A other \in executions', j \in Ids :
          ~Keyed(other.client)' /\ entries'[j] # NoEntry /\ entries'[j].key = other.number =>
            origin'[j] = other.client
    <3>1. ASSUME NEW other \in executions, ~Keyed(other.client), new.key = other.number
          PROVE  run.client = other.client
      <4>1. other.number \in 1..MaxExecutions
        BY <2>2 DEF Run
      <4> QED
        BY <2>1, <2>3, <3>1, <4>1 DEF NumbersFit
    <3>2. ASSUME NEW other \in executions, NEW j \in Ids, ~Keyed(other.client)',
                 entries'[j] # NoEntry, entries'[j].key = other.number
          PROVE  origin'[j] = other.client
      BY <1>4, <1>5, <2>1, <3>1, <3>2 DEF NumbersFit, Keyed
    <3> QED
      BY <1>6, <3>2 DEF Keyed
  <2>8. /\ \A other \in executions' :
             ~Keyed(other.client)' /\ other.created # NoAnswer =>
               origin'[other.created] = other.client
        /\ \A c \in Clients : answer'[c] # NoAnswer /\ ~Keyed(c)' => origin'[answer'[c]] = c
    BY <1>5, <1>6, <2>1, <2>2, <2>4 DEF NumbersFit, Keyed, FlowInv, FlowTypeOK, Run
  <2> QED
    BY <2>5, <2>6, <2>7, <2>8 DEF NumbersFit
<1> QED
  BY <1>7, <1>10, <1>11, <1>12, <1>13, <1>14 DEF FlowInv

(***************************************************************************)
(* The backend finds the key held by a request with the same payload.      *)
(***************************************************************************)
LEMMA HeldKeeps ==
  ASSUME FlowInv, NEW run \in executions, NEW i \in Holder(run.key),
         entries[i].payload = run.payload, Move(run, i),
         UNCHANGED <<ledgerVars, origin, submission, attempts, answer, executed, losses>>
  PROVE  FlowInv'
<1>1. i \in Ids /\ entries[i] # NoEntry /\ entries[i].key = run.key /\ UNCHANGED entries
  BY DEF Holder, ledgerVars
<1>2. PICK moved \in Run :
        /\ executions' = (executions \ {run}) \cup {moved}
        /\ moved.created = i
        /\ moved.number = run.number /\ moved.client = run.client
        /\ moved.payload = run.payload /\ moved.key = run.key
  BY <1>1, MoveRun DEF FlowInv
<1>3. FlowTypeOK'
  BY <1>1, <1>2 DEF FlowInv, FlowTypeOK
<1>4. RunsFit' /\ AnswersFit' /\ OriginsFit' /\ OneHolder'
  BY <1>1, <1>2 DEF FlowInv, RunsFit, AnswersFit, OriginsFit, OneHolder, Fits, Keyed
<1>5. ASSUME losses = 0
      PROVE  NumbersFit'
  <2>1. NumbersFit
    BY <1>5 DEF FlowInv
  <2>2. ~Keyed(run.client) => origin[i] = run.client
    BY <1>1, <2>1 DEF NumbersFit
  <2> QED
    BY <1>1, <1>2, <2>1, <2>2 DEF NumbersFit, Keyed
<1> QED
  BY <1>3, <1>4, <1>5 DEF FlowInv

(***************************************************************************)
(* So the backend call, in both its outcomes, keeps the invariant.         *)
(***************************************************************************)
LEMMA CreateKeeps ==
  ASSUME FlowInv, NEW run \in executions, CreateBackendRequest(run)
  PROVE  FlowInv'
BY RegisterKeeps, HeldKeeps DEF CreateBackendRequest

(***************************************************************************)
(* What is left of the executions when one ends, or all.                   *)
(***************************************************************************)
LEMMA EndsKeep ==
  ASSUME FlowInv, NEW run \in executions,
         RespondWithTriage(run) \/ RunFails(run)
  PROVE  FlowInv'
<1>1. /\ UNCHANGED <<entries, submission, executed, losses, origin>>
      /\ executions' \subseteq executions
      /\ run \in Run /\ run.client \in Clients /\ run.created \in Ids \cup {NoAnswer}
  BY DEF RespondWithTriage, RunFails, ledgerVars, FlowInv, FlowTypeOK, Run
<1>2. /\ answer' \in [Clients -> Ids \cup {NoAnswer}]
      /\ \A c \in Clients : answer'[c] = answer[c] \/
           (c = run.client /\ answer'[c] = run.created /\ run.created # NoAnswer)
  BY <1>1 DEF RespondWithTriage, RunFails, FlowInv, FlowTypeOK
<1>3. FlowTypeOK'
  BY <1>1, <1>2 DEF FlowInv, FlowTypeOK
<1>4. RunsFit' /\ OriginsFit' /\ OneHolder'
  BY <1>1 DEF FlowInv, RunsFit, OriginsFit, OneHolder, Fits, Keyed
<1>5. AnswersFit'
  BY <1>1, <1>2 DEF FlowInv, RunsFit, AnswersFit, Fits
<1>6. ASSUME losses = 0
      PROVE  NumbersFit'
  <2>1. NumbersFit
    BY <1>6 DEF FlowInv
  <2> QED
    BY <1>1, <1>2, <2>1 DEF NumbersFit, Keyed
<1> QED
  BY <1>1, <1>3, <1>4, <1>5, <1>6 DEF FlowInv

(***************************************************************************)
(* The loss of the volume keeps what does not depend on the numbers.       *)
(***************************************************************************)
LEMMA LossKeeps ==
  ASSUME FlowInv, LoseVolume
  PROVE  FlowInv'
<1>1. /\ UNCHANGED <<entries, submission, answer, origin>>
      /\ executed' = 0 /\ executions' = {} /\ losses' = losses + 1 /\ losses \in Nat
  BY DEF LoseVolume, ledgerVars, FlowInv, FlowTypeOK
<1>2. FlowTypeOK'
  BY <1>1, WorkflowAssumption DEF FlowInv, FlowTypeOK
<1>3. losses' # 0
  BY <1>1
<1> QED
  BY <1>1, <1>2, <1>3 DEF FlowInv, RunsFit, AnswersFit, OriginsFit, OneHolder, Fits, Keyed

-----------------------------------------------------------------------------
(***************************************************************************)
(* The invariant holds throughout.                                         *)
(***************************************************************************)
THEOREM FlowInductive == FlowSpec => []FlowInv
<1>1. FlowInv /\ [FlowNext]_vars => FlowInv'
  <2> SUFFICES ASSUME FlowInv, [FlowNext]_vars PROVE FlowInv'
    OBVIOUS
  <2>1. CASE FlowNext
    BY <2>1, SubmitKeeps, CreateKeeps, EndsKeep, LossKeeps DEF FlowNext
  <2>2. CASE UNCHANGED vars
    BY <2>2 DEF vars, flowVars, ledgerVars, FlowInv, FlowTypeOK, RunsFit, AnswersFit, OriginsFit,
       OneHolder, NumbersFit, Fits, Keyed
  <2> QED
    BY <2>1, <2>2
<1> QED
  BY FlowStarts, <1>1, PTL DEF FlowSpec

(***************************************************************************)
(* The answer of the request webhook is about the client's own payload.    *)
(***************************************************************************)
THEOREM OwnPayload == FlowSpec => []AnsweredWithOwnPayload
<1>1. FlowInv => AnsweredWithOwnPayload
  BY DEF FlowInv, AnswersFit, Fits, AnsweredWithOwnPayload
<1> QED
  BY FlowInductive, <1>1, PTL

(***************************************************************************)
(* A submission with a key of its own is one request at most.              *)
(***************************************************************************)
THEOREM KeyedOnce == FlowSpec => []KeyedSubmittedOnce
<1>1. ASSUME FlowInv, NEW c \in Clients, Keyed(c)
      PROVE  Cardinality({i \in Ids : origin[i] = c}) <= 1
  <2> DEFINE made == {i \in Ids : origin[i] = c}
  <2>1. \A i, j \in made : i = j
    BY <1>1, WorkflowAssumption DEF FlowInv, OriginsFit, OneHolder, Keyed
  <2>2. CASE made = {}
    BY <2>2, FS_EmptySet
  <2>3. CASE made # {}
    <3>1. PICK i \in made : made = {i}
      BY <2>1, <2>3
    <3> QED
      BY <3>1, FS_Singleton
  <2> QED
    BY <2>2, <2>3
<1>2. FlowInv => KeyedSubmittedOnce
  BY <1>1 DEF KeyedSubmittedOnce, Keyed
<1> QED
  BY FlowInductive, <1>2, PTL

(***************************************************************************)
(* Submissions without a key are told apart while the volume lasts.        *)
(***************************************************************************)
THEOREM KeylessApart == FlowSpec => []KeylessNotSwallowed
<1>1. FlowInv => KeylessNotSwallowed
  BY DEF FlowInv, NumbersFit, Keyed, KeylessNotSwallowed
<1> QED
  BY FlowInductive, <1>1, PTL

(***************************************************************************)
(* The webhook is a client of the ledger as it is promised: whatever the   *)
(* workflow does, and whatever it loses, is a registration or nothing, so  *)
(* that what is proved of every ledger is true of this one.                *)
(***************************************************************************)
THEOREM FlowKeepsLedger == FlowSpec => Spec
<1>1. FlowInv /\ [FlowNext]_vars => [Next]_ledgerVars
  <2> SUFFICES ASSUME FlowInv, [FlowNext]_vars PROVE [Next]_ledgerVars
    OBVIOUS
  <2>1. ASSUME NEW run \in executions, CreateBackendRequest(run) PROVE [Next]_ledgerVars
    <3>1. run.key \in Keys /\ run.payload \in Payloads
      BY DEF FlowInv, FlowTypeOK, Run
    <3>2. CASE UNCHANGED ledgerVars
      BY <3>2
    <3>3. ASSUME NEW i \in Ids, NEW triage \in Triage,
                 Register(i, run.key, run.payload, triage)
          PROVE  Next
      BY <3>1, <3>3 DEF Next
    <3> QED
      BY <2>1, <3>2, <3>3 DEF CreateBackendRequest
  <2>2. ASSUME NEW c \in Clients, Submit(c) PROVE UNCHANGED ledgerVars
    BY <2>2 DEF Submit
  <2>3. ASSUME NEW run \in executions, RespondWithTriage(run) \/ RunFails(run)
        PROVE  UNCHANGED ledgerVars
    BY <2>3 DEF RespondWithTriage, RunFails
  <2>4. CASE LoseVolume
    BY <2>4 DEF LoseVolume
  <2>5. CASE UNCHANGED vars
    BY <2>5 DEF vars
  <2> QED
    BY <2>1, <2>2, <2>3, <2>4, <2>5 DEF FlowNext
<1>2. FlowInit => Init
  BY DEF FlowInit
<1> QED
  BY <1>1, <1>2, FlowInductive, PTL DEF FlowSpec, Spec

=============================================================================
