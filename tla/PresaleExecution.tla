-------------------------- MODULE PresaleExecution --------------------------
(***************************************************************************)
(* The execution half of a presale request: selecting the team lead and    *)
(* the executors, taking over, rejecting and invalidating a lead, worklogs *)
(* and completion (assignment_*.go, service_mutation.go, service.go of     *)
(* modules/presale).                                                       *)
(*                                                                         *)
(* A rule snapshot with TEAM_LEAD nodes assigns in two levels: a director  *)
(* selects the team lead, the lead selects the executors.  Other snapshots *)
(* assign the executors directly.                                          *)
(*                                                                         *)
(* The two-level commands look people up in the platform directory and in  *)
(* the handover freezes BEFORE their transaction, and write in it.  Such a *)
(* command is two actions, Begin... and Commit..., and a record in "calls" *)
(* between them.  A command that does all its work in one transaction is   *)
(* one action, issued from the version it finds: with any other version it *)
(* is refused and changes nothing.                                         *)
(***************************************************************************)
EXTENDS PresaleRequest, Integers, FiniteSets

CONSTANTS
    Leavers,     \* bound: people who may leave or be handed over
    Snapshots,   \* bound: sets of people the PMS may report as invalid
    MaxCalls,    \* bound on the commands between precheck and transaction
    MaxRows      \* bound on current rows one person has on the request

ASSUME ExecutionAssumption ==
    /\ Leavers \subseteq Persons
    /\ {} \in Snapshots /\ Snapshots \subseteq SUBSET Persons
    /\ MaxCalls \in Nat /\ MaxRows \in Nat \ {0}

VARIABLES
    executors,      \* executors[p]: current EXECUTOR rows of p
    leadRows,       \* leadRows[p]: current TEAM_LEAD rows of p
    evidence,       \* evidence[p]: ADDED minus REMOVED assignment events of p
    worked,         \* <<p, r>>: p has written a worklog in round r
    gone,           \* people the directory no longer lists in the department
    inactive,       \* people whose PMS engineer row has valid_flag 0
    frozen,         \* people whose responsibilities are being handed over
    calls,          \* commands that have passed their prechecks
    invalidations   \* leads found invalid, InvalidateTeamLead not yet run

peopleVars    == <<gone, inactive, frozen>>
rowVars       == <<executors, leadRows, evidence>>
executionVars == <<rowVars, worked, peopleVars, calls, invalidations>>

NoLead == NoPerson

Calls == [kind : {"SELECT_LEAD", "REPLACE_EXECUTORS", "TAKEOVER"},
          version : 1..MaxVersion, people : SUBSET Persons,
          lead : Persons \cup {NoLead}]

ExecutionTypeOK ==
    /\ RequestTypeOK
    /\ executors \in [Persons -> 0..MaxRows]
    /\ leadRows \in [Persons -> 0..MaxRows]
    /\ evidence \in [Persons -> Int]
    /\ worked \in SUBSET (Persons \X (1..MaxRound))
    /\ gone \in SUBSET Persons /\ inactive \in SUBSET Persons
    /\ frozen \in SUBSET Persons
    /\ calls \in SUBSET Calls
    /\ invalidations \in SUBSET Persons

Executors == {p \in Persons : executors[p] > 0}

-----------------------------------------------------------------------------
NoRows == [p \in Persons |-> 0]

ExecutionInit ==
    /\ RequestInit
    /\ executors = NoRows /\ leadRows = NoRows /\ evidence = NoRows
    /\ worked = {}
    /\ gone = {} /\ inactive = {} /\ frozen = {}
    /\ calls = {} /\ invalidations = {}

SetLeadKeepingRows(lead) ==
    /\ leadRows' = [leadRows EXCEPT ![lead] = 1]
    /\ evidence' = [evidence EXCEPT ![lead] = @ + 1]
    /\ UNCHANGED executors

(* endCurrentTeamLeadAssignment ends every TEAM_LEAD row of the request    *)
(* and records a REMOVED event for each; the new lead, if there is one,    *)
(* gets one row and one ADDED event.                                       *)
SetLead(lead) ==
    /\ leadRows' = [p \in Persons |-> IF p = lead THEN 1 ELSE 0]
    /\ evidence' = [p \in Persons |->
                      evidence[p] - leadRows[p] + (IF p = lead THEN 1 ELSE 0)]
    /\ UNCHANGED executors

SetExecutorsEndingAll(people) ==
    /\ executors' = [p \in Persons |->
                       IF p \in people /\ executors[p] = 0 THEN 1 ELSE 0]
    /\ evidence' = [p \in Persons |->
                      evidence[p] + executors'[p] - executors[p]]
    /\ UNCHANGED leadRows

SetExecutorsLosingEvents(people) ==
    /\ executors' = [p \in Persons |-> IF p \in people THEN 1 ELSE 0]
    /\ evidence' = [p \in Persons |-> IF p \in people /\ executors[p] = 0
                                      THEN evidence[p] + 1 ELSE evidence[p]]
    /\ UNCHANGED leadRows

(* Replacing the executors ends one row of each person who is dropped and  *)
(* adds one for each person who is new; the rows are looked up by person.  *)
SetExecutors(people) ==
    /\ executors' = [p \in Persons |->
                       IF p \in people /\ executors[p] = 0 THEN 1
                       ELSE IF p \notin people /\ executors[p] > 0
                            THEN executors[p] - 1
                       ELSE executors[p]]
    /\ evidence' = [p \in Persons |->
                      evidence[p] + executors'[p] - executors[p]]
    /\ UNCHANGED leadRows

(* completeIfReady: worklogs of the request count, whatever round they are *)
(* of; there is no code that voids one.                                    *)
AllHaveWorked(people) ==
    /\ people # {}
    /\ \A p \in people : \E r \in 1..MaxRound : <<p, r>> \in worked

CompleteSilently(row, log, ready) ==
    /\ req' = IF ready THEN Written([row EXCEPT !.status = "COMPLETED"])
              ELSE row
    /\ statusLog' = log

(* completeIfReady: the second versioned update of the transaction, with   *)
(* its own entry in the log.                                               *)
CompleteIfReady(row, log, ready) ==
    /\ req' = IF ready THEN Written([row EXCEPT !.status = "COMPLETED"])
              ELSE row
    /\ statusLog' = IF ready THEN Logged(log, row.status, "COMPLETED")
                    ELSE log

AssignExecutorsKeepingLevel(people, level) ==
    /\ req.version + 1 < MaxVersion
    /\ SetExecutors(people)
    /\ CompleteIfReady(
         Written([req EXCEPT !.status = "EXECUTING"]),
         IF req.status = "EXECUTING" THEN statusLog
         ELSE Logged(statusLog, req.status, "EXECUTING"),
         AllHaveWorked({p \in Persons : executors'[p] > 0}))

(* The transaction that ReplaceAssignments and ReplaceExecutorAssignments  *)
(* have in common.                                                         *)
AssignExecutors(people, level) ==
    /\ req.version + 1 < MaxVersion
    /\ SetExecutors(people)
    /\ CompleteIfReady(
         Written([req EXCEPT !.status = "EXECUTING", !.level = level]),
         IF req.status = "EXECUTING" THEN statusLog
         ELSE Logged(statusLog, req.status, "EXECUTING"),
         AllHaveWorked({p \in Persons : executors'[p] > 0}))

(* guardUserWrite, in the transaction: the latch of the handover decides.  *)
GuardUserWrite(people) == people \cap frozen = {}

-----------------------------------------------------------------------------
(* One level.                                                              *)

(* SelectExecutionDepartment without a lead writes the department only.    *)
SelectDepartmentOnly ==
    /\ ~UsesTwoLevelAssignment
    /\ req.status = "APPROVED_PENDING_ASSIGNMENT"
    /\ UpdateRequestVersioned(req)
    /\ UNCHANGED <<round, statusLog, executionVars>>

(* ReplaceAssignments: directory, freezes and rows in one transaction.     *)
ReplaceAssignments(people) ==
    /\ ~UsesTwoLevelAssignment
    /\ req.lead = NoLead
    /\ req.status \in {"APPROVED_PENDING_ASSIGNMENT", "EXECUTING"}
    /\ people # {} /\ people \cap gone = {}
    /\ GuardUserWrite(people \ Executors)
    /\ AssignExecutors(people, req.level)
    /\ UNCHANGED <<round, worked, peopleVars, calls, invalidations>>

-----------------------------------------------------------------------------
(* Two levels.                                                             *)

Begin(kind, people, lead) ==
    /\ Cardinality(calls) < MaxCalls
    /\ calls' = calls \cup {[kind |-> kind, version |-> req.version,
                             people |-> people, lead |-> lead]}
    /\ UNCHANGED <<requestVars, rowVars, worked, peopleVars>>

(* selectExecutionDepartmentAndTeamLead, before its transaction: nothing   *)
(* of the request is read.                                                 *)
BeginSelectTeamLead(p) ==
    /\ p \notin gone \cup frozen
    /\ Begin("SELECT_LEAD", {p}, NoLead)
    /\ UNCHANGED invalidations

(* ReplaceExecutorAssignments, before its transaction, by the lead.  A     *)
(* lead that is gone is not only refused: a request that waits for         *)
(* executors is sent back to have a lead selected (revalidateTeamLead).    *)
BeginReplaceByLead(people) ==
    /\ req.lead # NoLead
    /\ people # {} /\ people \cap gone = {}
    /\ (people \ Executors) \cap frozen = {}
    /\ \/ /\ req.lead \notin gone
          /\ Begin("REPLACE_EXECUTORS", people, req.lead)
          /\ UNCHANGED invalidations
       \/ /\ req.lead \in gone
          /\ req.status = "PENDING_EXECUTION_ASSIGNMENT"
          /\ invalidations' = invalidations \cup {req.lead}
          /\ UNCHANGED <<requestVars, rowVars, worked, peopleVars, calls>>

(* The same by a super admin, for whom the lead is not validated again.    *)
BeginReplaceByAdmin(people) ==
    /\ req.lead # NoLead
    /\ people # {} /\ people \cap gone = {}
    /\ (people \ Executors) \cap frozen = {}
    /\ Begin("REPLACE_EXECUTORS", people, NoLead)
    /\ UNCHANGED invalidations

(* TakeoverExecutingTeamLead, before its transaction.                      *)
BeginTakeover(p) ==
    /\ req.status = "EXECUTING"
    /\ req.lead # NoLead /\ req.lead # p
    /\ p \notin gone \cup frozen
    /\ Begin("TAKEOVER", {p}, NoLead)
    /\ UNCHANGED invalidations

(* The transaction finds the version the command was issued from.          *)
CurrentCall(c, kind) == c.kind = kind /\ c.version = req.version

Finish(c) ==
    /\ calls' = calls \ {c}
    /\ UNCHANGED <<round, worked, peopleVars, invalidations>>

CommitSelectTeamLead(c) ==
    /\ UsesTwoLevelAssignment
    /\ CurrentCall(c, "SELECT_LEAD")
    /\ req.status = "APPROVED_PENDING_ASSIGNMENT"
    /\ GuardUserWrite(c.people)
    /\ \E p \in c.people :
         /\ SetLead(p)
         /\ MoveTo([req EXCEPT !.lead = p, !.level = "TEAM_LEAD"],
                   "PENDING_EXECUTION_ASSIGNMENT")
    /\ Finish(c)

(* The freeze of a new executor is read again, the directory is not.       *)
CommitReplaceExecutors(c) ==
    /\ UsesTwoLevelAssignment
    /\ CurrentCall(c, "REPLACE_EXECUTORS")
    /\ req.lead # NoLead
    /\ c.lead \in {NoLead, req.lead}
    /\ req.status \in {"PENDING_EXECUTION_ASSIGNMENT", "EXECUTING"}
    /\ GuardUserWrite(c.people \ Executors)
    /\ AssignExecutors(c.people, "EXECUTOR")
    /\ Finish(c)

CommitTakeover(c) ==
    /\ CurrentCall(c, "TAKEOVER")
    /\ req.status = "EXECUTING"
    /\ req.lead # NoLead /\ req.lead \notin c.people
    /\ GuardUserWrite(c.people)
    /\ \E p \in c.people :
         /\ SetLead(p)
         /\ UpdateRequestVersioned([req EXCEPT !.lead = p])
    /\ UNCHANGED statusLog
    /\ Finish(c)

(* A command that is refused in its transaction, or whose process ends     *)
(* before it.                                                              *)
Abandon(c) ==
    /\ Finish(c)
    /\ UNCHANGED <<req, statusLog, rowVars>>

BackToAssignment ==
    /\ SetLead(NoLead)
    /\ MoveTo([req EXCEPT !.lead = NoLead, !.level = "NONE"],
              "APPROVED_PENDING_ASSIGNMENT")

(* RejectExecutionAssignment, by the lead or a super admin.                *)
RejectExecutionAssignment ==
    /\ req.lead # NoLead
    /\ req.status = "PENDING_EXECUTION_ASSIGNMENT"
    /\ BackToAssignment
    /\ UNCHANGED <<round, worked, peopleVars, calls, invalidations>>

LeadFoundExecuting(people) ==
    {p \in people : p = req.lead /\ req.status = "EXECUTING"}

(* invalidateTeamLeadsForInactiveEngineers: the lead whose engineer row is *)
(* invalid.  A lead who has changed department keeps a valid row, and one  *)
(* the PMS does not know has none: neither is found.                       *)
LeadFound(people) ==
    {p \in people :
        /\ p = req.lead
        /\ req.status \in {"PENDING_EXECUTION_ASSIGNMENT", "EXECUTING"}}

(* Apply: a snapshot of the PMS becomes the engineer rows, and the same    *)
(* transaction looks for requests whose lead is invalid by them.  Nothing  *)
(* ties the PMS to the directory: it may report a person late, never, or   *)
(* as valid again.  The locks of the invalidation are taken one by one.    *)
ApplyEngineers(invalid) ==
    /\ inactive' = invalid
    /\ invalidations' = invalidations \cup LeadFound(invalid)
    /\ UNCHANGED <<requestVars, rowVars, worked, gone, frozen, calls>>

LeadRemovableAlways == req.lead # NoLead

LeadRemovable ==
    req.lead # NoLead /\ req.status = "PENDING_EXECUTION_ASSIGNMENT"

(* InvalidateTeamLead, in its transaction: whoever is lead by now.  An     *)
(* executing request is left alone, only a notice goes out.                *)
InvalidateTeamLead(x) ==
    /\ invalidations' = invalidations \ {x}
    /\ \/ LeadRemovable /\ BackToAssignment
       \/ ~LeadRemovable /\ UNCHANGED <<req, statusLog, rowVars>>
    /\ UNCHANGED <<round, worked, peopleVars, calls>>

-----------------------------------------------------------------------------
(* Execution.                                                              *)

(* AddWorklog, by a current executor.  The request is not written.         *)
AddWorklog(p) ==
    /\ req.status = "EXECUTING" /\ p \in Executors
    /\ worked' = worked \cup {<<p, round>>}
    /\ UNCHANGED <<requestVars, rowVars, peopleVars, calls, invalidations>>

(* Complete, by a current executor, worklogs or not.                       *)
Complete(p) ==
    /\ req.status = "EXECUTING" /\ p \in Executors
    /\ MoveTo(req, "COMPLETED")
    /\ UNCHANGED <<round, executionVars>>

-----------------------------------------------------------------------------
(* People.                                                                 *)

PersonLeaves(p) ==
    /\ gone' = gone \cup {p}
    /\ UNCHANGED <<requestVars, rowVars, worked, inactive, frozen, calls,
                   invalidations>>

Freeze(p) ==
    /\ frozen' = frozen \cup {p}
    /\ UNCHANGED <<requestVars, rowVars, worked, gone, inactive, calls,
                   invalidations>>

ReleaseFreeze(p) ==
    /\ frozen' = frozen \ {p}
    /\ UNCHANGED <<requestVars, rowVars, worked, gone, inactive, calls,
                   invalidations>>

ExecutionSteps ==
    \/ SelectDepartmentOnly
    \/ \E people \in SUBSET Persons :
          \/ ReplaceAssignments(people)
          \/ BeginReplaceByLead(people)
          \/ BeginReplaceByAdmin(people)
    \/ \E c \in calls :
          \/ CommitSelectTeamLead(c)
          \/ CommitReplaceExecutors(c)
          \/ CommitTakeover(c)
          \/ Abandon(c)
    \/ RejectExecutionAssignment
    \/ \E invalid \in Snapshots : ApplyEngineers(invalid)
    \/ \E x \in invalidations : InvalidateTeamLead(x)
    \/ \E p \in Persons :
          \/ BeginSelectTeamLead(p) \/ BeginTakeover(p)
          \/ AddWorklog(p) \/ Complete(p)
    \/ \E p \in Leavers : PersonLeaves(p) \/ Freeze(p) \/ ReleaseFreeze(p)

-----------------------------------------------------------------------------
(* The other half of the aggregate, as far as execution can tell: the      *)
(* request is decided, cancelled and reopened.  Lead, level and rows stay. *)
(* Presale shows that the steps of PresaleApproval are such moves.         *)
ApprovalMoves ==
    /\ \/ /\ req.status = "PENDING_APPROVAL"
          /\ \E n \in ApprovalNodes : UpdateRequestVersioned([req EXCEPT !.node = n])
          /\ UNCHANGED <<round, statusLog>>
       \/ /\ req.status = "PENDING_APPROVAL"
          /\ \E to \in {"REJECTED", "APPROVED_PENDING_ASSIGNMENT"} :
                MoveTo([req EXCEPT !.node = 0], to)
          /\ UNCHANGED round
       \/ /\ req.status \in {"PENDING_APPROVAL"} \cup Assignable
          /\ MoveTo(req, "CANCELLED")
          /\ UNCHANGED round
       \/ /\ req.status \in {"REJECTED", "CANCELLED"}
          /\ round < MaxRound
          /\ MoveTo([req EXCEPT !.node = 1], "PENDING_APPROVAL")
          /\ round' = round + 1
    /\ UNCHANGED executionVars

executionState == <<requestVars, executionVars>>

ExecutionNext == ExecutionSteps \/ ApprovalMoves
ExecutionSpec == ExecutionInit /\ [][ExecutionNext]_executionState

-----------------------------------------------------------------------------
(* Properties.                                                             *)

(* The row names a team lead exactly when one TEAM_LEAD assignment is      *)
(* current, and then it names its person: however selections, takeovers,   *)
(* rejections and invalidations interleave, the projection on the request  *)
(* and the assignment rows tell the same story (SetLead and its callers).  *)
LeadProjection ==
    leadRows = [p \in Persons |-> IF p = req.lead THEN 1 ELSE 0]

(* A request waits for executors only under a lead, and it is executed by  *)
(* somebody; in two levels under a lead, at the executor level.  A round   *)
(* that starts with the rows of the round before does not break this       *)
(* (ReplaceExecutorAssignments, ReplaceAssignments, ReopenRequest).        *)
StatusFitsAssignments ==
    /\ req.status = "PENDING_EXECUTION_ASSIGNMENT" =>
          req.lead # NoLead /\ req.level = "TEAM_LEAD"
    /\ req.status = "EXECUTING" =>
          /\ Executors # {}
          /\ UsesTwoLevelAssignment => req.lead # NoLead /\ req.level = "EXECUTOR"

(* The assignment events add up to the current rows, person by person      *)
(* (recordAssignmentEvent and its callers).                                *)
EvidenceMatchesRows ==
    \A p \in Persons : evidence[p] = executors[p] + leadRows[p]

(* The version of the request stands for its assignments too: who saw a    *)
(* version saw these rows.  Commands of two managers that both saw it      *)
(* cannot both take effect (the version checks of the assignment           *)
(* commands).                                                              *)
RowsChangeWithVersion ==
    [][UNCHANGED req => UNCHANGED <<executors, leadRows>>]_executionState

(* People being handed over get no new assignment, not even from a command *)
(* that passed its prechecks before the freeze (guardUserWrite).           *)
FrozenGetsNothing ==
    [][\A p \in frozen : /\ executors'[p] <= executors[p]
                         /\ leadRows'[p] <= leadRows[p]]_executionState

(* What the precheck of a command read of the request still holds in a     *)
(* transaction that finds the version of the command: the command of a     *)
(* lead who was replaced meanwhile is refused, and nobody takes over from  *)
(* herself (the version checks of the two-level commands).                 *)
PrecheckStillHolds ==
    \A c \in calls : c.version = req.version =>
        /\ c.kind = "REPLACE_EXECUTORS" => /\ req.lead # NoLead
                                          /\ c.lead \in {NoLead, req.lead}
        /\ c.kind = "TAKEOVER" => /\ req.status = "EXECUTING"
                                  /\ req.lead \notin c.people

(* Assignments change only while the request is assigned or executed, and  *)
(* a completed request never changes again: commands and invalidations     *)
(* that come late find it closed.                                          *)
ClosedIsLeftAlone ==
    [][/\ req.status \notin Assignable => UNCHANGED rowVars
       /\ req.status = "COMPLETED" => UNCHANGED req]_executionState

(* The synchronisation with the PMS is scheduled again after every job,    *)
(* whether that succeeds or ends as a dead letter (Schedule), and a job    *)
(* that finds the PMS unchanged applies its snapshot as any other.  That   *)
(* the PMS ever changes its mind is not assumed.                           *)
ExecutionFairness ==
    /\ WF_executionState(ApplyEngineers(inactive))
    /\ WF_executionState(\E x \in invalidations : InvalidateTeamLead(x))

FairExecutionSpec == ExecutionSpec /\ ExecutionFairness

(* A request does not go on waiting for a lead whose engineer row is       *)
(* invalid, were he selected before or after the snapshot that said so: it *)
(* is sent back, cancelled, gets another lead, or the PMS reports the lead *)
(* valid again.  (The last disjunct is the bound of the model.)            *)
InactiveLeadReleased ==
    (req.status = "PENDING_EXECUTION_ASSIGNMENT" /\ req.lead \in inactive) ~>
        \/ req.status # "PENDING_EXECUTION_ASSIGNMENT"
        \/ req.lead \notin inactive
        \/ req.version = MaxVersion

=============================================================================
