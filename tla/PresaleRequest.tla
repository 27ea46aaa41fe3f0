--------------------------- MODULE PresaleRequest ---------------------------
(***************************************************************************)
(* The presale request aggregate (src/internal/modules/presale): the row   *)
(* of crm_presale_requests every command locks, and the status log that is *)
(* written with it.  PresaleApproval and PresaleExecution extend this      *)
(* module; each of them owns one half of the commands.                     *)
(*                                                                         *)
(* Every command is one database transaction that holds the row lock of    *)
(* FindRequestForUpdate until it commits, so a command is one action.      *)
(***************************************************************************)
EXTENDS Naturals, Sequences

CONSTANTS
    Persons,     \* platform users the request can be assigned to
    NoPerson,    \* the empty team_lead_person_id
    Nodes,       \* node types of the rule snapshot up to the assignment of
                 \* people; <<>> when the request has no snapshot
    TwoLevels,   \* whether the snapshot assigns a team lead first
    MaxVersion,  \* bound: no command writes a higher version of the request
    MaxRound     \* bound on the approval rounds: reopenings plus one

NodeTypes == {"APPROVAL", "DEPARTMENT_ASSIGNMENT"}

Statuses == {"PENDING_APPROVAL", "REJECTED", "CANCELLED",
             "APPROVED_PENDING_ASSIGNMENT", "PENDING_EXECUTION_ASSIGNMENT",
             "EXECUTING", "COMPLETED"}

Levels == {"NONE", "TEAM_LEAD", "EXECUTOR"}

(* A request without a snapshot has the two historic approval nodes.       *)
ApprovalNodes == IF Nodes = <<>> THEN {1, 2}
                 ELSE {i \in 1..Len(Nodes) : Nodes[i] = "APPROVAL"}

(* Rule validation makes the first node an approval node, and rules have   *)
(* at most ten nodes.                                                      *)
ASSUME SnapshotAssumption ==
    /\ Nodes \in Seq(NodeTypes)
    /\ 1 \in ApprovalNodes
    /\ TwoLevels \subseteq BOOLEAN
ASSUME PersonAssumption  == NoPerson \notin Persons
ASSUME BoundAssumption   == MaxVersion \in Nat \ {0} /\ MaxRound \in Nat \ {0}

VARIABLES
    req,         \* the request row
    round,       \* the approval round: reopening starts the next one
    statusLog    \* what crm_presale_status_logs says, see below

requestVars == <<req, round, statusLog>>

RequestType == [version : 1..MaxVersion, status : Statuses, node : Nat,
                lead : Persons \cup {NoPerson}, level : Levels,
                twoLevel : BOOLEAN]

(* The snapshot has TEAM_LEAD_ASSIGNMENT or EXECUTOR_ASSIGNMENT nodes; it  *)
(* is written with the request and never again.                            *)
UsesTwoLevelAssignment == req.twoLevel

(* Of the log the model keeps the status its newest entry leads to, and    *)
(* whether every entry began where the entry before it ended.              *)
LogType == [end : Statuses, gapless : BOOLEAN]

RequestTypeOK ==
    /\ req \in RequestType
    /\ round \in 1..MaxRound
    /\ statusLog \in LogType

(* Statuses in which people can be assigned, and statuses that only an     *)
(* approved request may have.                                              *)
Assignable == {"APPROVED_PENDING_ASSIGNMENT", "PENDING_EXECUTION_ASSIGNMENT",
               "EXECUTING"}
ApprovedStatuses == Assignable \cup {"COMPLETED"}

-----------------------------------------------------------------------------
RequestInitUnversioned ==
    /\ req \in [version : {0}, status : {"PENDING_APPROVAL"}, node : {1},
                lead : {NoPerson}, level : {"NONE"}, twoLevel : TwoLevels]
    /\ round = 1
    /\ statusLog = [end |-> "PENDING_APPROVAL", gapless |-> TRUE]

(* A new request waits at node 1; creating it writes no status log.        *)
RequestInit ==
    /\ req \in [version : {1}, status : {"PENDING_APPROVAL"}, node : {1},
                lead : {NoPerson}, level : {"NONE"}, twoLevel : TwoLevels]
    /\ round = 1
    /\ statusLog = [end |-> "PENDING_APPROVAL", gapless |-> TRUE]

WrittenUnversioned(row) == row

(* UPDATE ... WHERE version = ? with version + 1; the row is locked, so    *)
(* the update finds the version the transaction has read.                  *)
Written(row) == [row EXCEPT !.version = @ + 1]

Logged(log, from, to) ==
    [end |-> to, gapless |-> log.gapless /\ log.end = from]

UpdateRequestVersioned(row) ==
    /\ req.version < MaxVersion
    /\ req' = Written(row)

(* A versioned update that moves the request to another status.            *)
MoveTo(row, to) ==
    /\ UpdateRequestVersioned([row EXCEPT !.status = to])
    /\ statusLog' = Logged(statusLog, req.status, to)

(* The status log tells the whole story of the request: it has an entry    *)
(* for every change of the status, the two of a transaction that assigns   *)
(* and completes at once included (statusLog and its callers).             *)
StatusLogComplete == statusLog.gapless /\ statusLog.end = req.status

=============================================================================
