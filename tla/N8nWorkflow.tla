---------------------------- MODULE N8nWorkflow ----------------------------
(***************************************************************************)
(* The request webhook (workflows/ai_ops_approval_n8n.json) between its    *)
(* clients and the ledger: the key it gives to each submission, and what   *)
(* comes of submissions that are sent again because an answer was lost, of *)
(* restarts, and of an n8n volume that is lost, with which the numbers of  *)
(* executions begin again.                                                 *)
(***************************************************************************)
EXTENDS ApprovalLedger, FiniteSets

CONSTANTS
  Clients, NoClient, NoAnswer,
  MaxExecutions,  \* bound on the executions between two losses of the volume
  MaxAttempts,    \* bound on how often one client sends its submission
  MaxLosses       \* bound on the losses of the volume

VARIABLES
  submission,   \* client -> what it sends, each time the same
  attempts,     \* client -> how often it has sent it
  answer,       \* client -> the request it was told of
  executed,     \* the number of the last execution
  executions,   \* those in progress
  losses,
  origin        \* request -> the client whose submission it was made for

flowVars == <<submission, attempts, answer, executed, executions, losses, origin>>
vars == <<ledgerVars, flowVars>>

(***************************************************************************)
(* The keys n8n makes are written as the numbers of its executions.        *)
(***************************************************************************)
OwnKeys == Keys \ (1..MaxExecutions)

Submission == [key : OwnKeys \cup {NoKey}, payload : Payloads]

ASSUME WorkflowAssumption ==
  /\ MaxExecutions \in Nat
  /\ 1..MaxExecutions \subseteq Keys
  /\ NoClient \notin Clients /\ NoAnswer \notin Ids

FlowInit ==
  /\ Init
  /\ submission \in [Clients -> Submission]
  /\ attempts = [c \in Clients |-> 0]
  /\ answer = [c \in Clients |-> NoAnswer]
  /\ executed = 0 /\ executions = {} /\ losses = 0
  /\ origin = [i \in Ids |-> NoClient]

(* Fault: the key in the body is deleted before it is read. *)
KeyOfExecution(sent, number) == number

(* Fault: the key is made from the workflow instead of the execution. *)
KeyOfWorkflow(sent, number) == IF sent.key # NoKey THEN sent.key ELSE 1

(***************************************************************************)
(* The key from the header or the body, or else the execution's number.    *)
(***************************************************************************)
idempotency_key(sent, number) == IF sent.key # NoKey THEN sent.key ELSE number

(***************************************************************************)
(* A client sends its submission, or sends it again without an answer.     *)
(***************************************************************************)
Submit(c) ==
  /\ answer[c] = NoAnswer
  /\ attempts[c] < MaxAttempts /\ executed < MaxExecutions
  /\ attempts' = [attempts EXCEPT ![c] = @ + 1]
  /\ executed' = executed + 1
  /\ executions' = executions \cup
       {[number |-> executed', client |-> c, payload |-> submission[c].payload,
         key |-> idempotency_key(submission[c], executed'), created |-> NoAnswer]}
  /\ UNCHANGED <<ledgerVars, submission, answer, losses, origin>>

Holder(key) == {i \in Ids : entries[i] # NoEntry /\ entries[i].key = key}

Move(run, id) == executions' = (executions \ {run}) \cup {[run EXCEPT !.created = id]}

(* Fault: a known key is answered whatever the payload. *)
CreateWithoutConflict(run) ==
  /\ run.created = NoAnswer
  /\ \/ /\ Holder(run.key) = {}
        /\ \E i \in Ids, triage \in Triage :
             /\ Register(i, run.key, run.payload, triage)
             /\ origin' = [origin EXCEPT ![i] = run.client]
             /\ Move(run, i)
     \/ /\ \E i \in Holder(run.key) : Move(run, i)
        /\ UNCHANGED <<ledgerVars, origin>>
  /\ UNCHANGED <<submission, attempts, answer, executed, losses>>

(***************************************************************************)
(* POST /requests: a new request, or the key's own one.  A key with        *)
(* another payload is a conflict (RunFails).                               *)
(***************************************************************************)
CreateBackendRequest(run) ==
  /\ run.created = NoAnswer
  /\ \/ /\ Holder(run.key) = {}
        /\ \E i \in Ids, triage \in Triage :
             /\ Register(i, run.key, run.payload, triage)
             /\ origin' = [origin EXCEPT ![i] = run.client]
             /\ Move(run, i)
     \/ /\ \E i \in Holder(run.key) : entries[i].payload = run.payload /\ Move(run, i)
        /\ UNCHANGED <<ledgerVars, origin>>
  /\ UNCHANGED <<submission, attempts, answer, executed, losses>>

RespondWithTriage(run) ==
  /\ run.created # NoAnswer
  /\ answer' = [answer EXCEPT ![run.client] = run.created]
  /\ executions' = executions \ {run}
  /\ UNCHANGED <<ledgerVars, submission, attempts, executed, losses, origin>>

(***************************************************************************)
(* The backend refuses or fails, its answer or n8n's is lost, or n8n is    *)
(* restarted: the execution ends and the client learns nothing.            *)
(***************************************************************************)
RunFails(run) ==
  /\ executions' = executions \ {run}
  /\ UNCHANGED <<ledgerVars, submission, attempts, answer, executed, losses, origin>>

(***************************************************************************)
(* n8n_data is lost, and the backend's volume is not.                      *)
(***************************************************************************)
LoseVolume ==
  /\ losses < MaxLosses /\ losses' = losses + 1
  /\ executed' = 0 /\ executions' = {}
  /\ UNCHANGED <<ledgerVars, submission, attempts, answer, origin>>

FlowNext ==
  \/ \E c \in Clients : Submit(c)
  \/ \E run \in executions :
       CreateBackendRequest(run) \/ RespondWithTriage(run) \/ RunFails(run)
  \/ LoseVolume

FlowSpec == FlowInit /\ [][FlowNext]_vars

-----------------------------------------------------------------------------
(***************************************************************************)
(* Properties                                                              *)
(***************************************************************************)

(***************************************************************************)
(* The request a client is answered with has the payload it submitted,     *)
(* even when its generated key was given out before the volume was lost.   *)
(* After a loss it may be an older request, of the same payload.           *)
(***************************************************************************)
AnsweredWithOwnPayload ==
  \A c \in Clients : answer[c] # NoAnswer =>
    entries[answer[c]].payload = submission[c].payload

(***************************************************************************)
(* A submission that carries its own key becomes one request at most,      *)
(* however often it is sent, whatever n8n loses in between.                *)
(***************************************************************************)
KeyedSubmittedOnce ==
  \A c \in Clients : submission[c].key # NoKey =>
    Cardinality({i \in Ids : origin[i] = c}) <= 1

(***************************************************************************)
(* While the volume lasts, a submission without a key is never mistaken    *)
(* for another one with the same payload: the client is answered with a    *)
(* request made for it.  (After a loss it may be answered with an older    *)
(* one, or run into conflicts.)                                            *)
(***************************************************************************)
KeylessNotSwallowed ==
  losses = 0 =>
    \A c \in Clients : answer[c] # NoAnswer /\ submission[c].key = NoKey =>
      origin[answer[c]] = c

=============================================================================
