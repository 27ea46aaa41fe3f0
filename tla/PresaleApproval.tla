--------------------------- MODULE PresaleApproval ---------------------------
(***************************************************************************)
(* The approval half of a presale request: the approval instance, the      *)
(* approval log, the commands that decide a node, cancel and reopen, and   *)
(* the callback of the approval engine (service_approval.go,               *)
(* service_create.go, service_mutation.go of modules/presale).             *)
(*                                                                         *)
(* The program runs in one of two modes.  Without an approval task         *)
(* resolver (~EngineMode) a decision is applied in the transaction  *)
(* of the command.  With one, the command only binds the decision to the   *)
(* current task of the engine and writes an outbox event; the delivery     *)
(* worker hands the event to the engine, and the engine's callback applies *)
(* the decision.                                                           *)
(*                                                                         *)
(* A user acts on what the screen shows: Look copies the request, and      *)
(* every command carries the version of the screen it was issued from.     *)
(***************************************************************************)
EXTENDS PresaleRequest, FiniteSets

CONSTANTS
    Users,         \* platform users that look at the request and decide
    Applicant,     \* the user that created the request
    Admins,        \* users with the role crm_super_admin
    Cancellers,    \* users that may cancel an approved request
    CanDecide,     \* CanDecide[n]: the users allowed to decide node n
    EngineModes,   \* TRUE: an approval task resolver is configured
    MaxTask,       \* bound on the tasks the engine opens
    MaxTries       \* failed deliveries after which an event is dead

ASSUME ApprovalAssumption ==
    /\ Applicant \in Users /\ Admins \subseteq Users
    /\ Cancellers \subseteq Users
    /\ CanDecide \in [ApprovalNodes -> SUBSET Users]
    /\ EngineModes \subseteq BOOLEAN
    /\ MaxTask \in Nat /\ MaxTries \in Nat \ {0}

VARIABLES
    inst,          \* the approval instance of the request
    approvalLog,   \* crm_presale_approval_logs
    screen,        \* what each user last saw of the request
    outbox,        \* PRESALE_APPROVAL_ACTION_REQUESTED events
    engine,        \* the approval engine: in use or not, its open task
                   \* and its counters
    callbacks      \* callbacks the engine sends, at least once each

approvalVars == <<inst, approvalLog, screen, outbox, engine, callbacks>>
engineVars   == <<outbox, engine, callbacks>>

Actions   == {"PASS", "REJECT"}
NoTask    == 0
NoBinding == [task |-> NoTask, approver |-> Applicant, action |-> "PASS"]
Bindings  == [task : 1..MaxTask, approver : Users, action : Actions]

Views == [version : 0..MaxVersion, status : Statuses, node : Nat,
          round : 0..MaxRound]

LogEntries == [round : 1..MaxRound, node : Nat, approver : Users,
               result : Actions, seq : Nat, task : 0..MaxTask]

Events == [task : 1..MaxTask, approver : Users, action : Actions,
           round : 1..MaxRound, tries : 0..MaxTries,
           status : {"PENDING", "SENT", "DEAD_LETTER"}]

(* A callback does not carry the round; it is here to tell which event the *)
(* engine has performed.                                                   *)
Messages == [task : 1..MaxTask, node : Nat, approver : Users,
             result : Actions, seq : Nat, round : 1..MaxRound]

Engines == [on : BOOLEAN, open : 0..MaxTask, node : Nat, last : 0..MaxTask,
            seq : Nat]

(* Configured when the process starts, and never changed.                  *)
EngineMode == engine.on

Instances == [status : {"PENDING", "APPROVED", "REJECTED"}, node : Nat,
              pending : Bindings \cup {NoBinding}, lastSeq : Nat]

ApprovalTypeOK ==
    /\ RequestTypeOK
    /\ inst \in Instances
    /\ approvalLog \in SUBSET LogEntries
    /\ screen \in [Users -> Views]
    /\ outbox \in SUBSET Events
    /\ engine \in Engines
    /\ callbacks \in SUBSET Messages

-----------------------------------------------------------------------------
(* CreateRequest inserts the request and its instance in one transaction.  *)
ApprovalInit ==
    /\ RequestInit
    /\ inst = [status |-> "PENDING", node |-> 1, pending |-> NoBinding,
               lastSeq |-> 0]
    /\ approvalLog = {}
    /\ screen = [u \in Users |-> [version |-> 0, status |-> "PENDING_APPROVAL",
                                  node |-> 0, round |-> 0]]
    /\ outbox = {} /\ callbacks = {}
    /\ engine \in [on : EngineModes, open : {NoTask}, node : {0}, last : {0},
                   seq : {0}]

FollowsFromSame(n, m) ==
    /\ m \in ApprovalNodes /\ m >= n
    /\ \A k \in ApprovalNodes : k >= n => m <= k

(* nextApprovalNode: the node after n that the snapshot marks APPROVAL.    *)
Follows(n, m) ==
    /\ m \in ApprovalNodes /\ m > n
    /\ \A k \in ApprovalNodes : k > n => m <= k

IsLastNodeAdjacent(n) == n + 1 \notin ApprovalNodes

IsLastNode(n) == \A k \in ApprovalNodes : k <= n

(* A user reads the request and from now on acts on what was read.         *)
Look(u) ==
    /\ screen' = [screen EXCEPT ![u] =
                    [version |-> req.version, status |-> req.status,
                     node |-> req.node, round |-> round]]
    /\ UNCHANGED <<requestVars, inst, approvalLog, engineVars>>

(* What a decision of node req.node does to the instance i and the         *)
(* request, in the internal mode and in the callback alike.                *)
ApplyDecision(i, result) ==
    \/ /\ result = "REJECT"
       /\ MoveTo([req EXCEPT !.node = 0], "REJECTED")
       /\ inst' = [i EXCEPT !.status = "REJECTED"]
    \/ /\ result = "PASS"
       /\ \E m \in ApprovalNodes :
            /\ Follows(req.node, m)
            /\ UpdateRequestVersioned([req EXCEPT !.node = m])
            /\ inst' = [i EXCEPT !.node = m]
       /\ UNCHANGED statusLog
    \/ /\ result = "PASS"
       /\ IsLastNode(req.node)
       /\ MoveTo([req EXCEPT !.node = 0], "APPROVED_PENDING_ASSIGNMENT")
       /\ inst' = [i EXCEPT !.status = "APPROVED"]

MayDecideAnyVersion(u) ==
    /\ req.status = "PENDING_APPROVAL"
    /\ req.node \in ApprovalNodes /\ u \in CanDecide[req.node]
    /\ inst.status = "PENDING" /\ inst.node = req.node

(* The guards RequestApprovalAction checks under the row locks.            *)
MayDecide(u) ==
    /\ req.status = "PENDING_APPROVAL"
    /\ req.version = screen[u].version
    /\ req.node \in ApprovalNodes /\ u \in CanDecide[req.node]
    /\ inst.status = "PENDING" /\ inst.node = req.node

(* RequestApprovalAction without a task resolver.                          *)
DecideInternally(u, action) ==
    /\ ~EngineMode
    /\ MayDecide(u)
    /\ approvalLog' = approvalLog \cup
         {[round |-> round, node |-> req.node, approver |-> u,
           result |-> action, seq |-> inst.lastSeq + 1, task |-> NoTask]}
    /\ ApplyDecision([inst EXCEPT !.lastSeq = @ + 1], action)
    /\ UNCHANGED <<round, screen, engineVars>>

(* RequestApprovalAction with a task resolver: one decision in flight, the *)
(* binding and the outbox event in one transaction.                        *)
RequestDecision(u, action) ==
    /\ EngineMode
    /\ req.version < MaxVersion
    /\ MayDecide(u)
    /\ inst.pending = NoBinding
    /\ engine.open # NoTask /\ engine.node = req.node
    /\ inst' = [inst EXCEPT !.pending = [task |-> engine.open,
                                         approver |-> u, action |-> action]]
    /\ outbox' = outbox \cup
         {[task |-> engine.open, approver |-> u, action |-> action,
           round |-> round, tries |-> 0, status |-> "PENDING"]}
    /\ UNCHANGED <<requestVars, approvalLog, screen, engine, callbacks>>

BoundToTask(m) == m.seq > inst.lastSeq /\ inst.pending.task = m.task

BoundStrict(m) ==
    /\ m.seq > inst.lastSeq + 1
    /\ inst.pending = [task |-> m.task, approver |-> m.approver,
                       action |-> m.result]

(* The callback belongs to the decision in flight and is newer than the    *)
(* last one applied.                                                       *)
Bound(m) ==
    /\ m.seq > inst.lastSeq
    /\ inst.pending = [task |-> m.task, approver |-> m.approver,
                       action |-> m.result]

(* HandleApprovalCallback for a message the engine has sent.  A callback   *)
(* whose task is already logged, or that does not match the binding,       *)
(* changes nothing.                                                        *)
HandleApprovalCallback(m) ==
    /\ \A l \in approvalLog : l.task # m.task
    /\ req.status = "PENDING_APPROVAL" /\ req.node = m.node
    /\ Bound(m)
    /\ approvalLog' = approvalLog \cup
         {[round |-> round, node |-> m.node, approver |-> m.approver,
           result |-> m.result, seq |-> m.seq, task |-> m.task]}
    /\ ApplyDecision([inst EXCEPT !.lastSeq = m.seq, !.pending = NoBinding],
                     m.result)
    /\ UNCHANGED <<round, screen, engineVars>>

-----------------------------------------------------------------------------
(* The delivery worker and the approval engine, which is not part of the   *)
(* program.                                                                *)

(* The engine opens the task of a node it has reached.  It is not told     *)
(* when the request is cancelled or reopened: which node it offers next is *)
(* its own affair.                                                         *)
EngineOpens(n) ==
    /\ EngineMode
    /\ engine.open = NoTask /\ engine.last < MaxTask
    /\ engine' = [engine EXCEPT !.open = engine.last + 1, !.node = n,
                                !.last = engine.last + 1]
    /\ UNCHANGED <<requestVars, inst, approvalLog, screen, outbox, callbacks>>

(* The engine performs the action on its open task and announces it.       *)
EngineActs(e) ==
    /\ engine.open = e.task
    /\ engine' = [engine EXCEPT !.open = NoTask, !.seq = @ + 1]
    /\ callbacks' = callbacks \cup
         {[task |-> e.task, node |-> engine.node, approver |-> e.approver,
           result |-> e.action, seq |-> engine.seq + 1, round |-> e.round]}

(* The event id makes a delivery idempotent: the engine recognises an      *)
(* event it has already performed.                                         *)
Performed(e) == \E m \in callbacks : m.task = e.task /\ m.result = e.action
                              /\ m.approver = e.approver /\ m.round = e.round

Resolve(e, status, tries) ==
    outbox' = (outbox \ {e}) \cup
              {[e EXCEPT !.status = status, !.tries = tries]}

(* One delivery: the engine accepts; the worker marks the event sent, or   *)
(* stops before it can, and the event is claimed again after the lease.    *)
Deliver(e) ==
    /\ e.status = "PENDING"
    /\ \/ EngineActs(e)
       \/ Performed(e) /\ UNCHANGED <<engine, callbacks>>
    /\ \/ Resolve(e, "SENT", e.tries)
       \/ UNCHANGED outbox
    /\ UNCHANGED <<requestVars, inst, approvalLog, screen>>

DeliveryFailsLate(e) ==
    /\ e.status = "PENDING"
    /\ Resolve(e, IF e.tries = MaxTries THEN "DEAD_LETTER" ELSE "PENDING",
               e.tries + 1)
    /\ UNCHANGED <<requestVars, inst, approvalLog, screen, engine, callbacks>>

(* A delivery the engine or the network refuses; the last retry makes the  *)
(* event a dead letter.                                                    *)
DeliveryFails(e) ==
    /\ e.status = "PENDING"
    /\ Resolve(e, IF e.tries + 1 = MaxTries THEN "DEAD_LETTER" ELSE "PENDING",
               e.tries + 1)
    /\ UNCHANGED <<requestVars, inst, approvalLog, screen, engine, callbacks>>

-----------------------------------------------------------------------------
CancelCompleted(u) ==
    /\ req.version = screen[u].version
    /\ \/ req.status = "PENDING_APPROVAL" /\ u = Applicant
       \/ req.status \in ApprovedStatuses /\ u \in Cancellers
    /\ MoveTo(req, "CANCELLED")
    /\ UNCHANGED <<round, inst, approvalLog, screen, engineVars>>

(* Cancel: the applicant while the approval runs, a privileged user while  *)
(* the request is assignable.  The instance is left as it is.              *)
Cancel(u) ==
    /\ req.version = screen[u].version
    /\ \/ req.status = "PENDING_APPROVAL" /\ u = Applicant
       \/ req.status \in Assignable /\ u \in Cancellers
    /\ MoveTo(req, "CANCELLED")
    /\ UNCHANGED <<round, inst, approvalLog, screen, engineVars>>

(* ReopenRequest: a new round of the same request and the same instance.   *)
(* The engine, the assignments and the last event sequence are kept.       *)
Reopen(u) ==
    /\ u \in Admins \cup {Applicant}
    /\ req.status \in {"REJECTED", "CANCELLED"}
    /\ round < MaxRound
    /\ screen[u].version = req.version
    /\ MoveTo([req EXCEPT !.node = 1], "PENDING_APPROVAL")
    /\ inst' = [inst EXCEPT !.status = "PENDING", !.node = 1,
                            !.pending = NoBinding]
    /\ round' = round + 1
    /\ UNCHANGED <<approvalLog, screen, engineVars>>

ApprovalSteps ==
    \/ \E u \in Users : Look(u)
    \/ \E u \in Users, a \in Actions : DecideInternally(u, a)
    \/ \E u \in Users, a \in Actions : RequestDecision(u, a)
    \/ \E m \in callbacks : HandleApprovalCallback(m)
    \/ \E n \in ApprovalNodes : EngineOpens(n)
    \/ \E e \in outbox : Deliver(e)
    \/ \E e \in outbox : DeliveryFails(e)
    \/ \E u \in Users : Cancel(u)
    \/ \E u \in Users : Reopen(u)

-----------------------------------------------------------------------------
(* The other half of the aggregate, as far as approval can tell: a         *)
(* transaction that assigns, executes or completes an approved request     *)
(* writes the row once or twice and logs what it did.  Presale shows that  *)
(* the steps of PresaleExecution are such moves.                           *)
ExecutionMoves ==
    /\ req.status \in Assignable
    /\ \E to \in ApprovedStatuses, p \in Persons \cup {NoPerson},
          l \in Levels, v \in 1..MaxVersion :
        /\ v = req.version + 1 \/ v = req.version + 2
        /\ req' = [req EXCEPT !.status = to, !.lead = p, !.level = l,
                              !.version = v]
        /\ statusLog' = [statusLog EXCEPT !.end = to]
    /\ UNCHANGED <<round, approvalVars>>

approvalState == <<requestVars, approvalVars>>

ApprovalNext == ApprovalSteps \/ ExecutionMoves
ApprovalSpec == ApprovalInit /\ [][ApprovalNext]_approvalState

-----------------------------------------------------------------------------
(* Properties.                                                             *)

PassedInRound(n) == \E l \in approvalLog :
                        l.round = round /\ l.node = n /\ l.result = "PASS"

(* A request is assigned, executed or completed only when every approval   *)
(* node of its snapshot was passed in the current round; a round waiting   *)
(* at node n has passed all nodes before n.  Reopening starts over: the    *)
(* passes of an earlier round do not count (ReopenRequest,                 *)
(* applyInternalApprovalAction, HandleApprovalCallback).                   *)
RoundFullyApproved ==
    /\ req.status \in ApprovedStatuses =>
          \A n \in ApprovalNodes : PassedInRound(n)
    /\ req.status = "PENDING_APPROVAL" =>
          \A n \in ApprovalNodes : n < req.node => PassedInRound(n)

(* No node is decided twice in one round, whoever decides and however      *)
(* often commands and callbacks are repeated, and a rejection ends its     *)
(* round (RequestApprovalAction, HandleApprovalCallback).                  *)
OneDecisionPerNode ==
    /\ \A l, k \in approvalLog :
          l.round = k.round /\ l.node = k.node => l = k
    /\ \A l \in approvalLog :
          l.round = round /\ l.result = "REJECT" => req.status = "REJECTED"

(* Two reads that return the same version return the same request: the     *)
(* version a command carries stands for everything the user saw            *)
(* (UpdateRequestVersioned).                                               *)
VersionNamesTheView ==
    \A u \in Users : screen[u].version = req.version =>
        screen[u] = [version |-> req.version, status |-> req.status,
                     node |-> req.node, round |-> round]

(* A user decides the node, in the round, that was on the user's screen,   *)
(* and nobody cancels a request in a status that no user has seen: a       *)
(* decision sent twice, or sent from a stale page, never falls on the next *)
(* node (the version checks of RequestApprovalAction and Cancel).          *)
ActsOnWhatWasSeen ==
    [][/\ \A l \in approvalLog' \ approvalLog :
            ~EngineMode => /\ screen[l.approver].node = l.node
                           /\ screen[l.approver].round = l.round
       /\ req.status # "CANCELLED" /\ req'.status = "CANCELLED" =>
            \E u \in Users : /\ screen[u].status = req.status
                             /\ screen[u].round = round]_approvalState

(* In engine mode every logged decision was requested by that approver, in *)
(* that round, for that task: a callback of a task bound before the        *)
(* request was reopened decides nothing (HandleApprovalCallback and the    *)
(* binding ReopenRequest clears).                                          *)
DecidedAsRequested ==
    EngineMode => \A l \in approvalLog : \E e \in outbox :
        /\ e.task = l.task /\ e.approver = l.approver
        /\ e.action = l.result /\ e.round = l.round

(* The delivery worker polls, and each attempt ends in a mark on the event *)
(* unless the worker stops; the engine repeats a callback until it is      *)
(* accepted.  Nothing obliges users, the engine's flow or the network.     *)
ApprovalFairness ==
    /\ WF_approvalState(\E e \in outbox : /\ Deliver(e) \/ DeliveryFails(e)
                                 /\ outbox' # outbox)
    /\ WF_approvalState(\E m \in callbacks : HandleApprovalCallback(m))

FairApprovalSpec == ApprovalSpec /\ ApprovalFairness

(* A decision in flight is decided, withdrawn with its request, or its     *)
(* event has died and the request waits for an operator                    *)
(* (presaleworker dispatch, HandleApprovalCallback).                       *)
DecisionResolves ==
    inst.pending # NoBinding ~>
        \/ inst.pending = NoBinding
        \/ req.status # "PENDING_APPROVAL"
        \/ \E e \in outbox : /\ e.status = "DEAD_LETTER"
                            /\ e.task = inst.pending.task
                            /\ e.round = round

=============================================================================
