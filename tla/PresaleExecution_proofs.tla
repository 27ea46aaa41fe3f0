----------------------- MODULE PresaleExecution_proofs -----------------------
(***************************************************************************)
(* Proofs about PresaleExecution, for every rule snapshot, every set of    *)
(* people and every bound.                                                 *)
(*                                                                         *)
(* Few of the steps write the request or its assignment rows.  StepKinds   *)
(* sorts them out; the proofs of the invariants go through its cases.      *)
(***************************************************************************)
EXTENDS PresaleExecution, PresaleRequest_proofs

(* Commands in flight without effect yet, and everything people do.        *)
Quiet == UNCHANGED <<requestVars, rowVars>>

(* A lead is rejected or invalidated.                                      *)
SentBack ==
    /\ req.status = "PENDING_EXECUTION_ASSIGNMENT"
    /\ BackToAssignment
    /\ UNCHANGED round

(* The steps of execution that write the request or its rows.              *)
Writes ==
    \/ SelectDepartmentOnly
    \/ \E people \in SUBSET Persons : ReplaceAssignments(people)
    \/ \E c \in calls : \/ CommitSelectTeamLead(c)
                        \/ CommitReplaceExecutors(c)
                        \/ CommitTakeover(c)
    \/ SentBack
    \/ \E p \in Persons : Complete(p)

(* Every step of execution is quiet or one of these.                       *)
LEMMA StepKinds ==
  ASSUME ExecutionSteps
  PROVE  Quiet \/ Writes
  <1> USE DEF Quiet, requestVars
  <1>1. CASE \E people \in SUBSET Persons :
                BeginReplaceByLead(people) \/ BeginReplaceByAdmin(people)
    BY <1>1 DEF BeginReplaceByLead, BeginReplaceByAdmin, Begin
  <1>2. CASE \E p \in Persons : BeginSelectTeamLead(p) \/ BeginTakeover(p)
    BY <1>2 DEF BeginSelectTeamLead, BeginTakeover, Begin
  <1>3. CASE \E c \in calls : Abandon(c)
    BY <1>3 DEF Abandon, Finish
  <1>4. CASE \/ \E invalid \in Snapshots : ApplyEngineers(invalid)
             \/ \E p \in Persons : AddWorklog(p)
    BY <1>4 DEF ApplyEngineers, AddWorklog
  <1>5. CASE \E p \in Leavers : PersonLeaves(p) \/ Freeze(p) \/ ReleaseFreeze(p)
    BY <1>5 DEF PersonLeaves, Freeze, ReleaseFreeze
  <1>6. CASE RejectExecutionAssignment
    BY <1>6 DEF RejectExecutionAssignment, SentBack, Writes
  <1>7. CASE \E x \in invalidations : InvalidateTeamLead(x)
    BY <1>7 DEF InvalidateTeamLead, LeadRemovable, SentBack, Writes
  <1> QED
    BY <1>1, <1>2, <1>3, <1>4, <1>5, <1>6, <1>7 DEF ExecutionSteps, Writes

(* So every step of the specification is quiet, one of these, or a move of *)
(* the approval half.                                                      *)
LEMMA NextKinds ==
  ASSUME [ExecutionNext]_executionState
  PROVE  Quiet \/ Writes \/ ApprovalMoves
  BY StepKinds
  DEF ExecutionNext, Quiet, executionState, executionVars

-----------------------------------------------------------------------------
(* What the writing operators do.                                          *)

(* Setting the lead keeps the types of the rows and their evidence.        *)
LEMMA SetLeadEffect ==
  ASSUME ExecutionTypeOK, NEW p \in Persons \cup {NoLead}, SetLead(p)
  PROVE  /\ leadRows' \in [Persons -> 0..MaxRows]
         /\ evidence' \in [Persons -> Int]
         /\ executors' = executors
         /\ leadRows' = [q \in Persons |-> IF q = p THEN 1 ELSE 0]
         /\ EvidenceMatchesRows => EvidenceMatchesRows'
  BY ExecutionAssumption DEF SetLead, ExecutionTypeOK, EvidenceMatchesRows

(* Replacing the executors keeps the types and the evidence as well, and   *)
(* everybody who is chosen has a row afterwards.                           *)
LEMMA SetExecutorsEffect ==
  ASSUME ExecutionTypeOK, NEW people \in SUBSET Persons, SetExecutors(people)
  PROVE  /\ executors' \in [Persons -> 0..MaxRows]
         /\ evidence' \in [Persons -> Int]
         /\ leadRows' = leadRows
         /\ people \subseteq Executors'
         /\ EvidenceMatchesRows => EvidenceMatchesRows'
  <1>1. \A p \in Persons : executors[p] \in 0..MaxRows /\ evidence[p] \in Int
    BY DEF ExecutionTypeOK
  <1>2. \A p \in Persons : executors'[p] \in 0..MaxRows
    BY <1>1, ExecutionAssumption DEF SetExecutors
  <1>3. executors' \in [Persons -> 0..MaxRows]
    BY <1>2 DEF SetExecutors
  <1>4. evidence' \in [Persons -> Int]
    BY <1>1, <1>2 DEF SetExecutors
  <1>5. people \subseteq Executors'
    BY <1>1 DEF SetExecutors, Executors
  <1>6. EvidenceMatchesRows => EvidenceMatchesRows'
    BY <1>1, <1>2 DEF SetExecutors, EvidenceMatchesRows, ExecutionTypeOK
  <1> QED
    BY <1>3, <1>4, <1>5, <1>6 DEF SetExecutors

(* Assigning executors leads to EXECUTING or at once to COMPLETED, with    *)
(* every move in the log.                                                  *)
LEMMA AssignEffect ==
  ASSUME RequestTypeOK, NEW people \in SUBSET Persons, NEW level \in Levels,
         AssignExecutors(people, level)
  PROVE  /\ SetExecutors(people)
         /\ req' \in RequestType /\ statusLog' \in LogType
         /\ req'.lead = req.lead /\ req'.level = level
         /\ req'.version \in {req.version + 1, req.version + 2}
         /\ req'.node = req.node
         /\ req'.twoLevel = req.twoLevel
         /\ req'.status \in {"EXECUTING", "COMPLETED"}
         /\ StatusLogComplete => StatusLogComplete'
  <1> DEFINE assigned == [req EXCEPT !.status = "EXECUTING", !.level = level]
             row == Written(assigned)
             completed == [row EXCEPT !.status = "COMPLETED"]
             log == IF req.status = "EXECUTING" THEN statusLog
                    ELSE Logged(statusLog, req.status, "EXECUTING")
             ready == AllHaveWorked({p \in Persons : executors'[p] > 0})
  <1>0. req \in RequestType /\ statusLog \in LogType /\ req.version \in Nat
    BY DEF RequestTypeOK, RequestType
  <1>1. /\ SetExecutors(people)
        /\ req' = IF ready THEN Written(completed) ELSE row
        /\ statusLog' = IF ready THEN Logged(log, row.status, "COMPLETED")
                        ELSE log
        /\ req.version + 1 < MaxVersion
    BY DEF AssignExecutors, CompleteIfReady
  <1> HIDE DEF ready
  <1>2. /\ assigned \in RequestType /\ assigned.version = req.version
        /\ assigned.status = "EXECUTING" /\ assigned.node = req.node
        /\ assigned.twoLevel = req.twoLevel
        /\ assigned.lead = req.lead /\ assigned.level = level
    BY <1>0 DEF RequestType, Statuses
  <1> HIDE DEF assigned
  <1>3. /\ row \in RequestType /\ row.status = "EXECUTING" /\ row.node = req.node
        /\ row.twoLevel = req.twoLevel
        /\ row.level = level /\ row.lead = req.lead
        /\ row.version = req.version + 1
    BY <1>0, <1>1, <1>2, WrittenFields, BoundAssumption
  <1> HIDE DEF row
  <1>4. /\ completed \in RequestType /\ completed.version = req.version + 1
        /\ completed.status = "COMPLETED" /\ completed.node = req.node
        /\ completed.twoLevel = req.twoLevel
        /\ completed.lead = req.lead /\ completed.level = level
    BY <1>3 DEF RequestType, Statuses
  <1> HIDE DEF completed
  <1>5. /\ Written(completed) \in RequestType
        /\ Written(completed).version = req.version + 2
        /\ Written(completed).status = "COMPLETED"
        /\ Written(completed).node = req.node
        /\ Written(completed).twoLevel = req.twoLevel
        /\ Written(completed).lead = req.lead
        /\ Written(completed).level = level
    BY <1>0, <1>1, <1>4, WrittenFields, BoundAssumption
  <1>6. /\ log \in LogType
        /\ StatusLogComplete => log.gapless /\ log.end = "EXECUTING"
    BY <1>0 DEF LogType, Logged, StatusLogComplete, Statuses
  <1> HIDE DEF log
  <1>7. /\ Logged(log, row.status, "COMPLETED") \in LogType
        /\ Logged(log, row.status, "COMPLETED").end = "COMPLETED"
        /\ StatusLogComplete => Logged(log, row.status, "COMPLETED").gapless
    BY <1>3, <1>6 DEF LogType, Logged, Statuses
  <1>8. CASE ready
    <2>1. req' = Written(completed)
          /\ statusLog' = Logged(log, row.status, "COMPLETED")
      BY <1>1, <1>8
    <2> QED
      BY <2>1, <1>0, <1>1, <1>5, <1>7 DEF StatusLogComplete
  <1>9. CASE ~ready
    <2>1. req' = row /\ statusLog' = log
      BY <1>1, <1>9
    <2> QED
      BY <2>1, <1>0, <1>1, <1>3, <1>6 DEF StatusLogComplete
  <1> QED
    BY <1>8, <1>9

-----------------------------------------------------------------------------
(* The inductive invariant.                                                *)

(* The request and the rows.                                               *)
RowsTypeOK ==
    /\ executors \in [Persons -> 0..MaxRows]
    /\ leadRows \in [Persons -> 0..MaxRows]
    /\ evidence \in [Persons -> Int]

Aggregate ==
    /\ RequestTypeOK
    /\ RowsTypeOK
    /\ LeadProjection
    /\ StatusLogComplete

(* Why a commit may rely on its precheck: the version a command has seen   *)
(* is never ahead of the request, every write leaves all of them behind,   *)
(* and a command that replaces the executors names somebody.               *)
CallsSound ==
    \A c \in calls : /\ c.version <= req.version
                     /\ c.kind = "REPLACE_EXECUTORS" => c.people # {}

(* This much survives a handover, which moves rows under a request that    *)
(* does not know of it.                                                    *)
CoreInv ==
    /\ ExecutionTypeOK
    /\ Aggregate
    /\ CallsSound
    /\ PrecheckStillHolds

(* The commands alone also account for every row.                          *)
RowsFit == EvidenceMatchesRows /\ StatusFitsAssignments

ExecutionInv == CoreInv /\ RowsFit

(* What a step of execution leaves of the request.                         *)
ExecutionWrite ==
    /\ req'.version \in {req.version + 1, req.version + 2}
    /\ req'.node = req.node
    /\ req'.twoLevel = req.twoLevel

(* The writing steps, one lemma each: each keeps the aggregate consistent  *)
(* and raises the version.                                                 *)
LEMMA SelectDepartmentKeeps ==
  ASSUME CoreInv, SelectDepartmentOnly
  PROVE  Aggregate' /\ ExecutionWrite /\ (RowsFit => RowsFit')
  <1>0. req \in RequestType /\ req.version \in Nat
    BY DEF CoreInv, Aggregate, RequestTypeOK, RequestType
  <1>1. /\ req' \in RequestType /\ req'.version = req.version + 1 /\ req'.node = req.node
        /\ req'.twoLevel = req.twoLevel
        /\ req'.status = req.status /\ req'.lead = req.lead
        /\ req'.level = req.level
    BY <1>0, UpdateFields DEF SelectDepartmentOnly
  <1> QED
    BY <1>0, <1>1
    DEF SelectDepartmentOnly, executionVars, rowVars, CoreInv, Aggregate,
        RequestTypeOK, RowsTypeOK, LeadProjection, RowsFit,
        EvidenceMatchesRows, StatusLogComplete, StatusFitsAssignments,
        Executors, ExecutionWrite, UsesTwoLevelAssignment

(* Both commands that assign executors come down to this.                  *)
LEMMA AssignKeeps ==
  ASSUME CoreInv, NEW people \in SUBSET Persons, NEW level \in Levels,
         people # {}, AssignExecutors(people, level), UNCHANGED round,
         UsesTwoLevelAssignment => req.lead # NoLead /\ level = "EXECUTOR"
  PROVE  Aggregate' /\ ExecutionWrite /\ (RowsFit => RowsFit')
  <1>1. ExecutionTypeOK /\ RequestTypeOK /\ Aggregate
    BY DEF CoreInv, Aggregate
  <1>2. /\ SetExecutors(people)
        /\ req' \in RequestType /\ statusLog' \in LogType
        /\ req'.lead = req.lead /\ req'.level = level
        /\ ExecutionWrite
        /\ req'.status \in {"EXECUTING", "COMPLETED"}
        /\ StatusLogComplete => StatusLogComplete'
    BY <1>1, AssignEffect DEF ExecutionWrite
  <1>3. /\ executors' \in [Persons -> 0..MaxRows]
        /\ evidence' \in [Persons -> Int]
        /\ leadRows' = leadRows
        /\ people \subseteq Executors'
        /\ EvidenceMatchesRows => EvidenceMatchesRows'
    BY <1>1, <1>2, SetExecutorsEffect
  <1>4. RequestTypeOK' /\ RowsTypeOK' /\ LeadProjection'
    BY <1>1, <1>2, <1>3 DEF Aggregate, RequestTypeOK, RowsTypeOK, LeadProjection
  <1>5. Executors' # {}
    BY <1>3
  <1>6. StatusFitsAssignments'
    BY <1>2, <1>5
    DEF StatusFitsAssignments, UsesTwoLevelAssignment, ExecutionWrite
  <1> QED
    BY <1>1, <1>2, <1>3, <1>4, <1>6 DEF Aggregate, RowsFit, ExecutionWrite

LEMMA ReplaceAssignmentsKeeps ==
  ASSUME CoreInv, NEW people \in SUBSET Persons,
         ReplaceAssignments(people)
  PROVE  Aggregate' /\ ExecutionWrite /\ (RowsFit => RowsFit')
  <1>1. req.level \in Levels
    BY DEF CoreInv, ExecutionTypeOK, RequestTypeOK, RequestType
  <1> QED
    BY <1>1, AssignKeeps DEF ReplaceAssignments

LEMMA CommitReplaceKeeps ==
  ASSUME CoreInv, NEW c \in calls, CommitReplaceExecutors(c)
  PROVE  Aggregate' /\ ExecutionWrite /\ (RowsFit => RowsFit')
  <1>1. c.people \in SUBSET Persons /\ c.people # {}
    BY DEF CoreInv, ExecutionTypeOK, Calls, CallsSound,
           CommitReplaceExecutors, CurrentCall
  <1> QED
    BY <1>1, AssignKeeps DEF CommitReplaceExecutors, Finish, Levels

LEMMA CommitSelectKeeps ==
  ASSUME CoreInv, NEW c \in calls, CommitSelectTeamLead(c)
  PROVE  Aggregate' /\ ExecutionWrite /\ (RowsFit => RowsFit')
  <1>0. /\ ExecutionTypeOK /\ Aggregate
        /\ req \in RequestType /\ statusLog \in LogType /\ req.version \in Nat
        /\ c.people \in SUBSET Persons
    BY DEF CoreInv, ExecutionTypeOK, RequestTypeOK, RequestType, Calls
  <1>1. PICK p \in c.people :
          /\ SetLead(p)
          /\ MoveTo([req EXCEPT !.lead = p, !.level = "TEAM_LEAD"],
                    "PENDING_EXECUTION_ASSIGNMENT")
    BY DEF CommitSelectTeamLead
  <1>2. p \in Persons /\ p # NoLead
    BY <1>0, PersonAssumption DEF NoLead
  <1> DEFINE row == [req EXCEPT !.lead = p, !.level = "TEAM_LEAD"]
  <1>3. /\ row \in RequestType /\ row.version = req.version
        /\ row.node = req.node
        /\ row.twoLevel = req.twoLevel
        /\ row.lead = p /\ row.level = "TEAM_LEAD"
    BY <1>0, <1>2 DEF RequestType, Levels
  <1> HIDE DEF row
  <1>4. /\ req' \in RequestType /\ statusLog' \in LogType
        /\ req'.version = req.version + 1 /\ req'.node = req.node
        /\ req'.twoLevel = req.twoLevel
        /\ req'.status = "PENDING_EXECUTION_ASSIGNMENT"
        /\ req'.lead = p /\ req'.level = "TEAM_LEAD"
        /\ StatusLogComplete => StatusLogComplete'
    <2>1. MoveTo(row, "PENDING_EXECUTION_ASSIGNMENT")
      BY <1>1 DEF row
    <2> QED
      BY <1>0, <1>3, <2>1, MoveFields DEF Statuses
  <1>5. RequestTypeOK'
    BY <1>0, <1>4 DEF RequestTypeOK, ExecutionTypeOK, CommitSelectTeamLead, Finish
  <1>6. /\ RowsTypeOK' /\ LeadProjection'
        /\ EvidenceMatchesRows => EvidenceMatchesRows'
    BY <1>0, <1>1, <1>2, <1>4, SetLeadEffect
    DEF RowsTypeOK, LeadProjection, Aggregate
  <1>7. StatusFitsAssignments'
    BY <1>2, <1>4 DEF StatusFitsAssignments, UsesTwoLevelAssignment
  <1> QED
    BY <1>0, <1>4, <1>5, <1>6, <1>7 DEF Aggregate, RowsFit, ExecutionWrite

LEMMA CommitTakeoverKeeps ==
  ASSUME CoreInv, NEW c \in calls, CommitTakeover(c)
  PROVE  Aggregate' /\ ExecutionWrite /\ (RowsFit => RowsFit')
  <1>0. /\ ExecutionTypeOK /\ Aggregate
        /\ req \in RequestType /\ req.version \in Nat
        /\ c.people \in SUBSET Persons
        /\ req.status = "EXECUTING"
        /\ statusLog' = statusLog /\ round' = round
    BY DEF CoreInv, ExecutionTypeOK, RequestTypeOK, RequestType, Calls,
           CommitTakeover, Finish
  <1>1. PICK p \in c.people :
          SetLead(p) /\ UpdateRequestVersioned([req EXCEPT !.lead = p])
    BY DEF CommitTakeover
  <1>2. p \in Persons /\ p # NoLead
    BY <1>0, PersonAssumption DEF NoLead
  <1> DEFINE row == [req EXCEPT !.lead = p]
  <1>3. /\ row \in RequestType /\ row.version = req.version
        /\ row.node = req.node
        /\ row.twoLevel = req.twoLevel
        /\ row.lead = p /\ row.level = req.level /\ row.status = req.status
    BY <1>0, <1>2 DEF RequestType
  <1> HIDE DEF row
  <1>4. /\ req' \in RequestType /\ req'.version = req.version + 1 /\ req'.node = req.node
        /\ req'.twoLevel = req.twoLevel
        /\ req'.status = "EXECUTING"
        /\ req'.lead = p /\ req'.level = req.level
    <2>1. UpdateRequestVersioned(row)
      BY <1>1 DEF row
    <2> QED
      BY <1>0, <1>3, <2>1, UpdateFields
  <1>5. RequestTypeOK' /\ StatusLogComplete'
    BY <1>0, <1>4 DEF RequestTypeOK, ExecutionTypeOK, Aggregate, StatusLogComplete
  <1>6. /\ RowsTypeOK' /\ LeadProjection' /\ Executors' = Executors
        /\ EvidenceMatchesRows => EvidenceMatchesRows'
    BY <1>0, <1>1, <1>2, <1>4, SetLeadEffect
    DEF RowsTypeOK, LeadProjection, Aggregate, ExecutionTypeOK, Executors
  <1>7. StatusFitsAssignments => StatusFitsAssignments'
    BY <1>0, <1>2, <1>4, <1>6 DEF StatusFitsAssignments, UsesTwoLevelAssignment
  <1> QED
    BY <1>0, <1>4, <1>5, <1>6, <1>7 DEF Aggregate, RowsFit, ExecutionWrite

LEMMA SentBackKeeps ==
  ASSUME CoreInv, SentBack
  PROVE  Aggregate' /\ ExecutionWrite /\ (RowsFit => RowsFit')
  <1>0. /\ ExecutionTypeOK /\ Aggregate
        /\ req \in RequestType /\ statusLog \in LogType /\ req.version \in Nat
    BY DEF CoreInv, ExecutionTypeOK, RequestTypeOK, RequestType
  <1> DEFINE row == [req EXCEPT !.lead = NoLead, !.level = "NONE"]
  <1>1. /\ row \in RequestType /\ row.version = req.version
        /\ row.node = req.node
        /\ row.twoLevel = req.twoLevel
        /\ row.lead = NoLead
    BY <1>0 DEF RequestType, Levels, NoLead
  <1>2. SetLead(NoLead) /\ MoveTo(row, "APPROVED_PENDING_ASSIGNMENT")
    BY DEF SentBack, BackToAssignment
  <1> HIDE DEF row
  <1>3. /\ req' \in RequestType /\ statusLog' \in LogType
        /\ req'.version = req.version + 1 /\ req'.node = req.node
        /\ req'.twoLevel = req.twoLevel
        /\ req'.status = "APPROVED_PENDING_ASSIGNMENT"
        /\ req'.lead = NoLead
        /\ StatusLogComplete => StatusLogComplete'
    BY <1>0, <1>1, <1>2, MoveFields DEF Statuses
  <1>4. RequestTypeOK'
    BY <1>0, <1>3 DEF RequestTypeOK, ExecutionTypeOK, SentBack
  <1>5. /\ RowsTypeOK' /\ LeadProjection'
        /\ EvidenceMatchesRows => EvidenceMatchesRows'
    BY <1>0, <1>2, <1>3, SetLeadEffect
    DEF RowsTypeOK, LeadProjection, Aggregate, ExecutionTypeOK
  <1>6. StatusFitsAssignments'
    BY <1>3 DEF StatusFitsAssignments, UsesTwoLevelAssignment
  <1> QED
    BY <1>0, <1>3, <1>4, <1>5, <1>6 DEF Aggregate, RowsFit, ExecutionWrite

(* Completion and the moves of approval touch neither lead, level nor      *)
(* rows, and do not lead to a status that asks for any.                    *)
LEMMA RequestMoveKeeps ==
  ASSUME CoreInv, UNCHANGED rowVars, RequestTypeOK', StatusLogComplete',
         req'.lead = req.lead, req'.status = req.status \/
         req'.status \notin {"PENDING_EXECUTION_ASSIGNMENT", "EXECUTING"},
         req'.level = req.level, req'.twoLevel = req.twoLevel
  PROVE  Aggregate' /\ (RowsFit => RowsFit')
  <1>1. Aggregate'
    BY DEF CoreInv, Aggregate, RowsTypeOK, rowVars, LeadProjection
  <1>2. RowsFit => RowsFit'
    BY DEF RowsFit, rowVars, EvidenceMatchesRows, StatusFitsAssignments,
           Executors, UsesTwoLevelAssignment
  <1> QED
    BY <1>1, <1>2

LEMMA CompleteKeeps ==
  ASSUME CoreInv, NEW p \in Persons, Complete(p)
  PROVE  Aggregate' /\ ExecutionWrite /\ (RowsFit => RowsFit')
  <1>0. /\ req \in RequestType /\ statusLog \in LogType /\ req.version \in Nat
        /\ StatusLogComplete /\ round' = round /\ UNCHANGED rowVars
        /\ round \in 1..MaxRound
    BY DEF CoreInv, Aggregate, RequestTypeOK, RequestType, Complete,
           executionVars
  <1>1. /\ req' \in RequestType /\ statusLog' \in LogType
        /\ req'.version = req.version + 1 /\ req'.node = req.node /\ req'.status = "COMPLETED"
        /\ req'.twoLevel = req.twoLevel
        /\ req'.lead = req.lead /\ req'.level = req.level
        /\ StatusLogComplete'
    BY <1>0, MoveFields DEF Complete, Statuses
  <1>2. RequestTypeOK'
    BY <1>0, <1>1 DEF RequestTypeOK
  <1> QED
    BY <1>0, <1>1, <1>2, RequestMoveKeeps DEF ExecutionWrite

LEMMA ApprovalMovesKeep ==
  ASSUME CoreInv, ApprovalMoves
  PROVE  /\ Aggregate' /\ (RowsFit => RowsFit')
         /\ req'.version > req.version
  <1>0. /\ req \in RequestType /\ statusLog \in LogType /\ req.version \in Nat
        /\ StatusLogComplete /\ UNCHANGED rowVars /\ round \in 1..MaxRound
    BY DEF CoreInv, Aggregate, RequestTypeOK, RequestType, ApprovalMoves,
           executionVars
  <1>1. \A n \in Nat : LET row == [req EXCEPT !.node = n]
                      IN  /\ row \in RequestType /\ row.version = req.version
                          /\ row.status = req.status
                          /\ row.lead = req.lead /\ row.level = req.level
                          /\ row.twoLevel = req.twoLevel
    BY <1>0 DEF RequestType
  <1>2. CASE /\ req.status = "PENDING_APPROVAL"
             /\ \E n \in ApprovalNodes :
                    UpdateRequestVersioned([req EXCEPT !.node = n])
             /\ UNCHANGED <<round, statusLog>>
    <2>1. PICK n \in ApprovalNodes : UpdateRequestVersioned([req EXCEPT !.node = n])
      BY <1>2
    <2>2. n \in Nat
      BY ApprovalNodesAreNat
    <2>3. /\ req' \in RequestType /\ req'.version = req.version + 1
          /\ req'.status = req.status
          /\ req'.lead = req.lead /\ req'.level = req.level
          /\ req'.twoLevel = req.twoLevel
      BY <1>0, <1>1, <2>1, <2>2, UpdateFields
    <2>4. RequestTypeOK' /\ StatusLogComplete'
      BY <1>0, <1>2, <2>3 DEF RequestTypeOK, StatusLogComplete
    <2> QED
      BY <1>0, <2>3, <2>4, RequestMoveKeeps
  <1>3. ASSUME NEW n \in Nat, NEW to \in Statuses,
               to \notin {"PENDING_EXECUTION_ASSIGNMENT", "EXECUTING"},
               MoveTo([req EXCEPT !.node = n], to), round' \in 1..MaxRound
        PROVE  /\ Aggregate' /\ (RowsFit => RowsFit')
               /\ req'.version > req.version
    <2>1. /\ req' \in RequestType /\ statusLog' \in LogType
          /\ req'.version = req.version + 1 /\ req'.status = to
          /\ req'.lead = req.lead /\ req'.level = req.level
          /\ req'.twoLevel = req.twoLevel
          /\ StatusLogComplete'
      BY <1>0, <1>1, <1>3, MoveFields
    <2>2. RequestTypeOK'
      BY <1>3, <2>1 DEF RequestTypeOK
    <2> QED
      BY <1>0, <1>3, <2>1, <2>2, RequestMoveKeeps
  <1>4. CASE /\ \E to \in {"REJECTED", "APPROVED_PENDING_ASSIGNMENT"} :
                    MoveTo([req EXCEPT !.node = 0], to)
             /\ UNCHANGED round
    BY <1>0, <1>3, <1>4 DEF Statuses
  <1>5. CASE MoveTo(req, "CANCELLED") /\ UNCHANGED round
    <2>1. req = [req EXCEPT !.node = req.node] /\ req.node \in Nat
      BY <1>0 DEF RequestType
    <2>2. MoveTo([req EXCEPT !.node = req.node], "CANCELLED")
      BY <1>5, <2>1
    <2> QED
      BY <1>0, <1>3, <1>5, <2>1, <2>2 DEF Statuses
  <1>6. CASE /\ round < MaxRound
             /\ MoveTo([req EXCEPT !.node = 1], "PENDING_APPROVAL")
             /\ round' = round + 1
    <2>1. round' \in 1..MaxRound
      BY <1>0, <1>6, BoundAssumption
    <2> QED
      BY <1>3, <1>6, <2>1 DEF Statuses
  <1> QED
    BY <1>2, <1>4, <1>5, <1>6 DEF ApprovalMoves

(* Together: a step leaves the request, its log and its rows alone, or it  *)
(* keeps them consistent and raises the version.                           *)
LEMMA AggregateStep ==
  ASSUME CoreInv, [ExecutionNext]_executionState
  PROVE  /\ Aggregate' /\ (RowsFit => RowsFit')
         /\ Quiet \/ req'.version > req.version
  <1>1. CASE Quiet
    <2> USE DEF Quiet, requestVars, rowVars
    <2>1. Aggregate'
      BY <1>1
      DEF CoreInv, Aggregate, RequestTypeOK, RowsTypeOK, LeadProjection,
          StatusLogComplete
    <2>2. RowsFit => RowsFit'
      BY <1>1
      DEF RowsFit, EvidenceMatchesRows, StatusFitsAssignments, Executors,
          UsesTwoLevelAssignment
    <2> QED
      BY <1>1, <2>1, <2>2
  <1>2. ExecutionWrite => req'.version > req.version
    BY DEF CoreInv, Aggregate, RequestTypeOK, RequestType, ExecutionWrite
  <1> QED
    BY <1>1, <1>2, NextKinds, SelectDepartmentKeeps, ReplaceAssignmentsKeeps,
       CommitSelectKeeps, CommitReplaceKeeps, CommitTakeoverKeeps,
       SentBackKeeps, CompleteKeeps, ApprovalMovesKeep
    DEF Writes

-----------------------------------------------------------------------------
(* The rest of the state.                                                  *)

(* A new command was issued from the version the request has, and what it  *)
(* was prechecked against is the request as it is.                         *)
LEMMA NewCalls ==
  ASSUME CoreInv, [ExecutionNext]_executionState, NEW c \in calls' \ calls
  PROVE  /\ c \in Calls /\ c.version = req.version /\ UNCHANGED req
         /\ c.kind = "REPLACE_EXECUTORS" =>
               c.people # {} /\ req.lead # NoLead /\ c.lead \in {NoLead, req.lead}
         /\ c.kind = "TAKEOVER" =>
               req.status = "EXECUTING" /\ req.lead \notin c.people
  <1>0. req.version \in 1..MaxVersion /\ req.lead \in Persons \cup {NoLead}
    BY DEF CoreInv, ExecutionTypeOK, RequestTypeOK, RequestType, NoLead
  <1>1. CASE \E people \in SUBSET Persons : BeginReplaceByLead(people)
    BY <1>0, <1>1 DEF BeginReplaceByLead, Begin, requestVars, Calls
  <1>2. CASE \E people \in SUBSET Persons : BeginReplaceByAdmin(people)
    BY <1>0, <1>2 DEF BeginReplaceByAdmin, Begin, requestVars, Calls
  <1>3. CASE \E p \in Persons : BeginSelectTeamLead(p)
    BY <1>0, <1>3 DEF BeginSelectTeamLead, Begin, requestVars, Calls
  <1>4. CASE \E p \in Persons : BeginTakeover(p)
    BY <1>0, <1>4 DEF BeginTakeover, Begin, requestVars, Calls
  <1>5. CASE \E d \in calls : \/ CommitSelectTeamLead(d) \/ CommitReplaceExecutors(d)
                              \/ CommitTakeover(d) \/ Abandon(d)
    BY <1>5 DEF CommitSelectTeamLead, CommitReplaceExecutors, CommitTakeover,
                Abandon, Finish
  <1>6. CASE UNCHANGED calls
    BY <1>6
  <1>7. CASE \/ SelectDepartmentOnly \/ RejectExecutionAssignment
             \/ ApprovalMoves
             \/ \E people \in SUBSET Persons : ReplaceAssignments(people)
             \/ \E invalid \in Snapshots : ApplyEngineers(invalid)
             \/ \E x \in invalidations : InvalidateTeamLead(x)
             \/ \E p \in Persons : AddWorklog(p) \/ Complete(p)
             \/ \E p \in Leavers : PersonLeaves(p) \/ Freeze(p) \/ ReleaseFreeze(p)
    BY <1>6, <1>7
    DEF SelectDepartmentOnly, RejectExecutionAssignment, ApplyEngineers,
        ApprovalMoves, ReplaceAssignments, InvalidateTeamLead, AddWorklog,
        Complete, PersonLeaves, Freeze, ReleaseFreeze, executionVars
  <1> QED
    BY <1>1, <1>2, <1>3, <1>4, <1>5, <1>6, <1>7
    DEF ExecutionNext, ExecutionSteps, executionState, executionVars

(* Old commands are left behind by every write.                            *)
LEMMA CallsStep ==
  ASSUME CoreInv, [ExecutionNext]_executionState
  PROVE  CallsSound' /\ PrecheckStillHolds' /\ calls' \in SUBSET Calls
  <1>0. /\ req.version \in Nat /\ req'.version \in Nat
        /\ calls \in SUBSET Calls /\ CallsSound /\ PrecheckStillHolds
        /\ \A c \in calls : c.version \in Nat
        /\ (req' = req) \/ req'.version > req.version
    BY AggregateStep
    DEF CoreInv, ExecutionTypeOK, RequestTypeOK, RequestType, Calls,
        Aggregate, Quiet, requestVars
  <1> SUFFICES ASSUME NEW c \in calls'
               PROVE  /\ c \in Calls /\ c.version <= req'.version
                      /\ c.kind = "REPLACE_EXECUTORS" => c.people # {}
                      /\ c.version = req'.version =>
                           /\ c.kind = "REPLACE_EXECUTORS" =>
                                 /\ req'.lead # NoLead
                                 /\ c.lead \in {NoLead, req'.lead}
                           /\ c.kind = "TAKEOVER" =>
                                 /\ req'.status = "EXECUTING"
                                 /\ req'.lead \notin c.people
    BY DEF CallsSound, PrecheckStillHolds
  <1>1. CASE c \in calls
    BY <1>0, <1>1 DEF CallsSound, PrecheckStillHolds
  <1>2. CASE c \notin calls
    BY <1>0, <1>2, NewCalls
  <1> QED
    BY <1>1, <1>2

(* Worklogs, people and invalidations keep their types.                    *)
LEMMA BookkeepingTyped ==
  ASSUME ExecutionTypeOK, [ExecutionNext]_executionState
  PROVE  /\ worked' \in SUBSET (Persons \X (1..MaxRound))
         /\ gone' \in SUBSET Persons /\ inactive' \in SUBSET Persons
         /\ frozen' \in SUBSET Persons
         /\ invalidations' \in SUBSET Persons
  <1>0. /\ worked \in SUBSET (Persons \X (1..MaxRound)) /\ round \in 1..MaxRound
        /\ gone \in SUBSET Persons /\ inactive \in SUBSET Persons
        /\ frozen \in SUBSET Persons /\ invalidations \in SUBSET Persons
        /\ Leavers \subseteq Persons /\ Snapshots \subseteq SUBSET Persons
    BY ExecutionAssumption DEF ExecutionTypeOK, RequestTypeOK
  <1> USE DEF peopleVars
  <1>1. CASE \E people \in SUBSET Persons :
                BeginReplaceByLead(people) \/ BeginReplaceByAdmin(people)
    BY <1>0, <1>1 DEF BeginReplaceByLead, BeginReplaceByAdmin, Begin
  <1>2. CASE \E p \in Persons : BeginSelectTeamLead(p) \/ BeginTakeover(p)
    BY <1>0, <1>2 DEF BeginSelectTeamLead, BeginTakeover, Begin
  <1>3. CASE \E d \in calls : \/ CommitSelectTeamLead(d) \/ CommitReplaceExecutors(d)
                              \/ CommitTakeover(d) \/ Abandon(d)
    BY <1>0, <1>3 DEF CommitSelectTeamLead, CommitReplaceExecutors,
                      CommitTakeover, Abandon, Finish
  <1>4. CASE \/ \E invalid \in Snapshots : ApplyEngineers(invalid)
             \/ \E x \in invalidations : InvalidateTeamLead(x)
    BY <1>0, <1>4 DEF ApplyEngineers, LeadFound, InvalidateTeamLead
  <1>5. CASE \E p \in Persons : AddWorklog(p)
    BY <1>0, <1>5 DEF AddWorklog
  <1>6. CASE \E p \in Leavers : PersonLeaves(p) \/ Freeze(p) \/ ReleaseFreeze(p)
    BY <1>0, <1>6 DEF PersonLeaves, Freeze, ReleaseFreeze
  <1>7. CASE UNCHANGED <<worked, peopleVars, invalidations>>
    BY <1>0, <1>7
  <1>8. CASE \/ SelectDepartmentOnly \/ RejectExecutionAssignment \/ ApprovalMoves
             \/ \E people \in SUBSET Persons : ReplaceAssignments(people)
             \/ \E p \in Persons : Complete(p)
    BY <1>7, <1>8
    DEF SelectDepartmentOnly, RejectExecutionAssignment, ApprovalMoves,
        ReplaceAssignments, Complete, executionVars
  <1> QED
    BY <1>1, <1>2, <1>3, <1>4, <1>5, <1>6, <1>7, <1>8
    DEF ExecutionNext, ExecutionSteps, executionState, executionVars

-----------------------------------------------------------------------------
(* Theorems.                                                               *)

(* The invariant holds at first.                                           *)
LEMMA InitInv == ExecutionInit => ExecutionInv
  <1> SUFFICES ASSUME ExecutionInit PROVE ExecutionInv
    OBVIOUS
  <1> USE DEF ExecutionInit, RequestInit
  <1>1. RequestTypeOK
    BY BoundAssumption, SnapshotAssumption
    DEF RequestTypeOK, RequestType, LogType, Statuses, Levels
  <1>2. RowsTypeOK
    BY ExecutionAssumption DEF RowsTypeOK, NoRows
  <1>3. LeadProjection
    BY PersonAssumption DEF LeadProjection, NoRows
  <1>4. EvidenceMatchesRows
    <2>1. \A p \in Persons : evidence[p] = 0 /\ executors[p] = 0 /\ leadRows[p] = 0
      BY DEF NoRows
    <2>2. ASSUME NEW p \in Persons PROVE evidence[p] = executors[p] + leadRows[p]
      <3>1. evidence[p] \in Int /\ executors[p] \in Int /\ leadRows[p] \in Int
        BY <2>1
      <3> HIDE DEF ExecutionInit, RequestInit
      <3> QED
        BY <2>1, <3>1
    <2> HIDE DEF ExecutionInit, RequestInit
    <2> QED
      BY <2>2 DEF EvidenceMatchesRows
  <1>5. StatusLogComplete /\ StatusFitsAssignments
    BY DEF StatusLogComplete, StatusFitsAssignments
  <1>6. CallsSound /\ PrecheckStillHolds
    BY DEF CallsSound, PrecheckStillHolds
  <1> QED
    BY <1>1, <1>2, <1>3, <1>4, <1>5, <1>6
    DEF ExecutionInv, CoreInv, Aggregate, RowsFit, ExecutionTypeOK, RowsTypeOK

(* Every step keeps its core, and with the core the whole of it.           *)
LEMMA CoreStep == CoreInv /\ [ExecutionNext]_executionState => CoreInv'
  <1> SUFFICES ASSUME CoreInv, [ExecutionNext]_executionState
               PROVE  CoreInv'
    OBVIOUS
  <1>1. Aggregate'
    BY AggregateStep
  <1>2. CallsSound' /\ PrecheckStillHolds' /\ calls' \in SUBSET Calls
    BY CallsStep
  <1>3. ExecutionTypeOK'
    BY <1>1, <1>2, BookkeepingTyped
    DEF CoreInv, Aggregate, RowsTypeOK, ExecutionTypeOK
  <1> QED
    BY <1>1, <1>2, <1>3 DEF CoreInv

LEMMA InvStep == ExecutionInv /\ [ExecutionNext]_executionState => ExecutionInv'
  BY CoreStep, AggregateStep DEF ExecutionInv

(* The inductive invariant holds throughout.                               *)
THEOREM ExecutionInvariant == ExecutionSpec => []ExecutionInv
  BY InitInv, InvStep, PTL DEF ExecutionSpec

(* Every variable keeps its type; versions stay within the bound.          *)
THEOREM ExecutionTypeCorrect == ExecutionSpec => []ExecutionTypeOK
  <1>1. ExecutionInv => ExecutionTypeOK
    BY DEF ExecutionInv, CoreInv
  <1> QED
    BY <1>1, ExecutionInvariant, PTL

(* The lead on the request and the TEAM_LEAD rows always agree, whatever   *)
(* selections, takeovers, rejections and invalidations there are.          *)
THEOREM LeadProjected == ExecutionSpec => []LeadProjection
  <1>1. ExecutionInv => LeadProjection
    BY DEF ExecutionInv, CoreInv, Aggregate
  <1> QED
    BY <1>1, ExecutionInvariant, PTL

(* The assignment events always add up to the current rows.                *)
THEOREM EvidenceComplete == ExecutionSpec => []EvidenceMatchesRows
  <1>1. ExecutionInv => EvidenceMatchesRows
    BY DEF ExecutionInv, RowsFit
  <1> QED
    BY <1>1, ExecutionInvariant, PTL

(* The status log has an entry for every change of the status.             *)
THEOREM ExecutionLogged == ExecutionSpec => []StatusLogComplete
  <1>1. ExecutionInv => StatusLogComplete
    BY DEF ExecutionInv, CoreInv, Aggregate
  <1> QED
    BY <1>1, ExecutionInvariant, PTL

(* A request waits for executors under a lead only, and is executed by     *)
(* somebody, in two levels under a lead.                                   *)
THEOREM StatusFits == ExecutionSpec => []StatusFitsAssignments
  <1>1. ExecutionInv => StatusFitsAssignments
    BY DEF ExecutionInv, RowsFit
  <1> QED
    BY <1>1, ExecutionInvariant, PTL

(* A commit that finds the version of its command finds what the precheck  *)
(* has read: no command of a lead who was replaced, no takeover from       *)
(* oneself.                                                                *)
THEOREM PrechecksHold == ExecutionSpec => []PrecheckStillHolds
  <1>1. ExecutionInv => PrecheckStillHolds
    BY DEF ExecutionInv, CoreInv
  <1> QED
    BY <1>1, ExecutionInvariant, PTL

(* No step changes the assignment rows and keeps the version.              *)
THEOREM VersionStandsForRows == ExecutionSpec => RowsChangeWithVersion
  <1>1. ExecutionInv /\ [ExecutionNext]_executionState =>
          [UNCHANGED req => UNCHANGED <<executors, leadRows>>]_executionState
    <2> SUFFICES ASSUME ExecutionInv, [ExecutionNext]_executionState, UNCHANGED req
                 PROVE  UNCHANGED <<executors, leadRows>>
      OBVIOUS
    <2>1. req.version \in Nat
      BY DEF ExecutionInv, CoreInv, Aggregate, RequestTypeOK, RequestType
    <2>2. Quiet
      BY <2>1, AggregateStep DEF ExecutionInv
    <2> QED
      BY <2>2 DEF Quiet, rowVars
  <1> QED
    BY <1>1, ExecutionInvariant, PTL DEF ExecutionSpec, RowsChangeWithVersion

(* Setting the lead and replacing the executors give rows only to people   *)
(* the latch has let through.                                              *)
LEMMA GuardedWrites ==
  ASSUME ExecutionTypeOK, [ExecutionNext]_executionState, NEW p \in frozen
  PROVE  executors'[p] <= executors[p] /\ leadRows'[p] <= leadRows[p]
  <1>0. /\ ExecutionTypeOK /\ RequestTypeOK /\ p \in Persons
        /\ executors[p] \in Nat /\ leadRows[p] \in Nat
        /\ calls \in SUBSET Calls
    BY ExecutionAssumption DEF ExecutionTypeOK
  <1>1. ASSUME UNCHANGED rowVars
        PROVE  executors'[p] <= executors[p] /\ leadRows'[p] <= leadRows[p]
    BY <1>0, <1>1 DEF rowVars
  <1>2. ASSUME NEW q \in Persons \cup {NoLead}, q # p, SetLead(q)
        PROVE  executors'[p] <= executors[p] /\ leadRows'[p] <= leadRows[p]
    BY <1>0, <1>2 DEF SetLead
  <1>3. ASSUME NEW people \in SUBSET Persons, GuardUserWrite(people \ Executors),
               SetExecutors(people)
        PROVE  executors'[p] <= executors[p] /\ leadRows'[p] <= leadRows[p]
    <2>1. p \in people => executors[p] > 0
      BY <1>0, <1>3 DEF GuardUserWrite, Executors
    <2> QED
      BY <1>0, <1>3, <2>1 DEF SetExecutors
  <1>4. CASE \E people \in SUBSET Persons : ReplaceAssignments(people)
    BY <1>3, <1>4 DEF ReplaceAssignments, AssignExecutors
  <1>5. CASE \E c \in calls : CommitSelectTeamLead(c) \/ CommitTakeover(c)
    <2>1. PICK c \in calls : CommitSelectTeamLead(c) \/ CommitTakeover(c)
      BY <1>5
    <2>2. /\ c.people \in SUBSET Persons /\ GuardUserWrite(c.people)
          /\ \E q \in c.people : SetLead(q)
      BY <1>0, <2>1 DEF CommitSelectTeamLead, CommitTakeover, Calls
    <2> QED
      BY <1>2, <2>2 DEF GuardUserWrite
  <1>6. CASE \E c \in calls : CommitReplaceExecutors(c)
    <2>1. PICK c \in calls : CommitReplaceExecutors(c)
      BY <1>6
    <2>2. c.people \in SUBSET Persons
      BY <1>0 DEF Calls
    <2> QED
      BY <1>3, <2>1, <2>2 DEF CommitReplaceExecutors, AssignExecutors
  <1>7. CASE SentBack
    <2>1. SetLead(NoLead) /\ NoLead # p
      BY <1>0, <1>7, PersonAssumption DEF SentBack, BackToAssignment, NoLead
    <2> QED
      BY <1>2, <2>1
  <1>8. CASE \/ Quiet \/ SelectDepartmentOnly \/ ApprovalMoves
             \/ \E q \in Persons : Complete(q)
    BY <1>1, <1>8
    DEF Quiet, SelectDepartmentOnly, ApprovalMoves, Complete, executionVars
  <1> QED
    BY <1>4, <1>5, <1>6, <1>7, <1>8, NextKinds DEF Writes

(* People being handed over get no new assignment, not even from a command *)
(* that was prechecked before the freeze.                                  *)
THEOREM FrozenIsSafe == ExecutionSpec => FrozenGetsNothing
  <1>1. ExecutionInv /\ [ExecutionNext]_executionState =>
          [\A p \in frozen : /\ executors'[p] <= executors[p]
                             /\ leadRows'[p] <= leadRows[p]]_executionState
    BY GuardedWrites DEF ExecutionInv, CoreInv
  <1> QED
    BY <1>1, ExecutionInvariant, PTL DEF ExecutionSpec, FrozenGetsNothing

(* Rows change only while the request is assigned or executed, and a       *)
(* completed request never changes.                                        *)
THEOREM ClosedIsClosed == ExecutionSpec => ClosedIsLeftAlone
  <1>1. [ExecutionNext]_executionState =>
          [/\ req.status \notin Assignable => UNCHANGED rowVars
           /\ req.status = "COMPLETED" => UNCHANGED req]_executionState
    <2> SUFFICES ASSUME [ExecutionNext]_executionState
                 PROVE  /\ req.status \notin Assignable => UNCHANGED rowVars
                        /\ req.status = "COMPLETED" => UNCHANGED req
      OBVIOUS
    <2> USE DEF Assignable
    <2>1. CASE Quiet
      BY <2>1 DEF Quiet, requestVars
    <2>2. CASE \/ SelectDepartmentOnly \/ ApprovalMoves
               \/ \E p \in Persons : Complete(p)
      BY <2>2 DEF SelectDepartmentOnly, ApprovalMoves, Complete, executionVars
    <2>3. CASE \/ SentBack
               \/ \E people \in SUBSET Persons : ReplaceAssignments(people)
               \/ \E c \in calls : \/ CommitSelectTeamLead(c)
                                   \/ CommitReplaceExecutors(c)
                                   \/ CommitTakeover(c)
      BY <2>3 DEF SentBack, ReplaceAssignments, CommitSelectTeamLead,
                  CommitReplaceExecutors, CommitTakeover
    <2> QED
      BY <2>1, <2>2, <2>3, NextKinds DEF Writes
  <1> QED
    BY <1>1, PTL DEF ExecutionSpec, ClosedIsLeftAlone

=============================================================================
