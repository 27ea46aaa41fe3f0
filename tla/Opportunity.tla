----------------------------- MODULE Opportunity -----------------------------
(***************************************************************************)
(* One opportunity (src/internal/modules/opportunity): its stages, its     *)
(* closing with a contract or with local evidence, voiding and restoring,  *)
(* the statuses that the quotation and bid system reports, the acceptance  *)
(* of its transfer to the contract system, and the customer merge and the  *)
(* presale requests that depend on it.                                     *)
(*                                                                         *)
(* Most commands read the row, check it, change their copy and write some  *)
(* columns of the copy in a transaction that asks for the version they     *)
(* read.  A call is such a command between its reads and its transaction.  *)
(* ContractTransfer and Merge lock the row, but some of what they look at  *)
(* comes from the snapshot their transaction opened before it waited for   *)
(* the lock.                                                               *)
(***************************************************************************)
EXTENDS Integers, Sequences, FiniteSets

CONSTANTS
    Contracts,
    NoRef,        \* contract_ref is empty
    Customers,
    Survivor,     \* the customer the others are merged into
    BelongsTo,    \* BelongsTo[k]: the customer of contract k, by the contract system
    Amounts,      \* values of amount and sign date, which are frozen together
    Targets,      \* the stages users choose
    Sources,      \* quotations and bids of the external system
    Reports,      \* what the external system may report, without the time
    NoLink,       \* a call that brings no external link
    MaxVersion, MaxTime, MaxSync,   \* bounds
    MaxCalls      \* bound on the commands that run at the same time

OpenStages == {"INITIAL", "REQUIREMENT", "SOLUTION", "QUOTATION", "BID"}
Stages == OpenStages \cup {"SIGNED", "FAILED"}
Modes == {"CONTRACT", "LOCAL_EVIDENCE"}
Pendings == {"NONE", "CONTRACT", "WIN_EVIDENCE", "LOST_REASON"}
Statuses == {"FOLLOWING", "CLOSED", "VOID"}
Refs == Contracts \cup {NoRef}

ReportType ==
    [source : Sources, status : {"EXPIRED", "QUOTED", "BIDDING", "WON", "LOST"},
     ref : Refs, reason : BOOLEAN]

ASSUME OpportunityAssumption ==
    /\ NoRef \notin Contracts
    /\ Survivor \in Customers
    /\ BelongsTo \in [Contracts -> Customers]
    /\ Amounts # {}
    /\ Targets \subseteq Stages
    /\ Reports \subseteq ReportType
    /\ NoLink \notin [report : ReportType, at : Nat]
    /\ MaxVersion \in Nat \ {0} /\ MaxTime \in Nat /\ MaxSync \in Nat
    /\ MaxCalls \in Nat

VARIABLES
    opp,        \* the row of crm_opportunities
    evidence,   \* crm_win_confirmations has a row for it
    links,      \* crm_opportunity_external_links, in the order of the id
    presale,    \* it has an active presale request
    outbox,     \* OPPORTUNITY_SIGNED events
    mode,       \* the win confirmation mode the server runs with
    clock,
    calls,      \* commands between their reads and their transaction
    transfers,  \* ContractTransfer transactions that wait for the row
    merges      \* Merge transactions that wait for the row

vars == <<opp, evidence, links, presale, outbox, mode, clock,
          calls, transfers, merges>>

(* reason tells whether there is a lost reason; changed and ext stand for  *)
(* stage_changed_at and external_status_changed_at, 0 for none.            *)
Rows == [stage : Stages, status : Statuses,
         before : {"NONE", "FOLLOWING", "CLOSED"}, ref : Refs,
         reason : BOOLEAN, pending : Pendings, version : 1..MaxVersion,
         changed : 0..MaxTime, ext : 0..MaxTime, amount : Amounts,
         customer : Customers, link : {"PENDING", "CONFIRMED", "EXCEPTION"},
         sync : 0..MaxSync]

Links == [report : Reports, at : 1..MaxTime]

(* A command: the row it read, the copy it changed, the external link and  *)
(* the evidence that it will write too.                                    *)
Calls == [op : {"STAGE", "EXTERNAL", "TODO", "UPDATE", "LIFECYCLE"},
          seen : Rows, model : Rows, link : Links \cup {NoLink},
          evidence : BOOLEAN]

Transfers == [version : 1..MaxVersion, accepted : BOOLEAN]
Merges == [contracted : BOOLEAN]
Events == [version : 1..MaxVersion, ref : Contracts, amount : Amounts]

OpportunityTypeOK ==
    /\ opp \in Rows
    /\ evidence \in BOOLEAN
    /\ links \in Seq(Links)
    /\ presale \in BOOLEAN
    /\ outbox \subseteq Events
    /\ mode \in Modes
    /\ clock \in 0..MaxTime
    /\ calls \subseteq Calls
    /\ transfers \subseteq Transfers
    /\ merges \subseteq Merges

OpportunityInit ==
    /\ \E a \in Amounts, c \in Customers :
          opp = [stage |-> "INITIAL", status |-> "FOLLOWING", before |-> "NONE",
                 ref |-> NoRef, reason |-> FALSE, pending |-> "NONE",
                 version |-> 1, changed |-> 0, ext |-> 0, amount |-> a,
                 customer |-> c, link |-> "PENDING", sync |-> 0]
    /\ evidence = FALSE
    /\ links = <<>>
    /\ presale = FALSE
    /\ outbox = {}
    /\ mode \in Modes
    /\ clock = 0
    /\ calls = {} /\ transfers = {} /\ merges = {}

-----------------------------------------------------------------------------
RoomForCall ==
    Cardinality(calls) + Cardinality(transfers) + Cardinality(merges) < MaxCalls

(* The reads and checks of a command end in a changed copy of the row.     *)
BeginCall(op, model, link, ev) ==
    /\ RoomForCall
    /\ opp.version < MaxVersion
    /\ calls' = calls \cup {[op |-> op, seen |-> opp, model |-> model,
                             link |-> link, evidence |-> ev]}
    /\ UNCHANGED <<opp, evidence, links, presale, outbox, mode, clock,
                   transfers, merges>>

(* applyStage; a is the contract reference, lost the lost reason.          *)
ApplyStage(stage, ref, lost, pending, at) ==
    LET closed == stage \in {"SIGNED", "FAILED"} IN
    [opp EXCEPT !.stage = stage, !.changed = at,
                !.status = IF closed THEN "CLOSED" ELSE "FOLLOWING",
                !.ref = IF stage = "SIGNED" THEN ref ELSE NoRef,
                !.reason = stage = "FAILED" /\ lost,
                !.pending = IF closed THEN pending ELSE "NONE"]

(* prepareWinConfirmation: what a win may be confirmed with.  The contract *)
(* system is asked whether the contract is one of the customer.            *)
Grounds ==
    IF mode = "CONTRACT"
    THEN {[ref |-> k, evidence |-> FALSE] :
             k \in {c \in Contracts : BelongsTo[c] = opp.customer}}
    ELSE {[ref |-> NoRef, evidence |-> TRUE]}

(* validateStageChange: what is closed or void has no way out.             *)
MayChangeStage == opp.status = "FOLLOWING" /\ opp.stage \in OpenStages

(* ChangeStage.  A lost opportunity needs a reason, a signed one a ground. *)
ChangeStage(t) ==
    /\ MayChangeStage
    /\ \/ /\ t # "SIGNED"
          /\ BeginCall("STAGE", ApplyStage(t, NoRef, TRUE, "NONE", clock),
                       NoLink, FALSE)
       \/ /\ t = "SIGNED"
          /\ \E g \in Grounds :
                BeginCall("STAGE", ApplyStage(t, g.ref, FALSE, "NONE", clock),
                          NoLink, g.evidence)

(* SignProvision, the import of signed history: a verified contract in     *)
(* every mode, and no evidence.  For the contract the opportunity is       *)
(* signed with already it answers that.                                    *)
SignProvision(k) ==
    /\ MayChangeStage
    /\ BelongsTo[k] = opp.customer
    /\ BeginCall("STAGE", ApplyStage("SIGNED", k, FALSE, "NONE", clock),
                 NoLink, FALSE)

(* mapExternalStatus, and the local mode, in which a reported win waits    *)
(* for evidence.                                                           *)
Mapped(r, at) ==
    CASE r.status = "EXPIRED" -> ApplyStage("SOLUTION", NoRef, FALSE, "NONE", at)
      [] r.status = "QUOTED" -> ApplyStage("QUOTATION", NoRef, FALSE, "NONE", at)
      [] r.status = "BIDDING" -> ApplyStage("BID", NoRef, FALSE, "NONE", at)
      [] r.status = "WON" ->
           IF mode = "LOCAL_EVIDENCE"
           THEN ApplyStage("SIGNED", NoRef, FALSE, "WIN_EVIDENCE", at)
           ELSE ApplyStage("SIGNED", r.ref, FALSE,
                           IF r.ref = NoRef THEN "CONTRACT" ELSE "NONE", at)
      [] r.status = "LOST" ->
           ApplyStage("FAILED", NoRef, r.reason,
                      IF r.reason THEN "NONE" ELSE "LOST_REASON", at)

StaleForExternal(at) == at < opp.ext

(* A report older than the stage or than the last report is refused.       *)
Stale(at) == at < opp.changed \/ at < opp.ext

(* A report that is linked already is a repetition or a conflict.          *)
Known(r) == \E i \in 1..Len(links) : /\ links[i].report.source = r.source
                                     /\ links[i].report.status = r.status

(* ApplyExternalStatus, for a report that carries the time at, which the   *)
(* external system chooses: nothing compares it with the clock, so that it *)
(* may be ahead.                                                           *)
ApplyExternalStatus(r, at) ==
    /\ opp.status = "FOLLOWING"
    /\ ~Known(r)
    /\ ~Stale(at)
    /\ BeginCall("EXTERNAL", [Mapped(r, at) EXCEPT !.ext = at],
                 [report |-> r, at |-> at], FALSE)

(* CompleteTerminalTodo: the ground of a win or the reason of a loss,      *)
(* supplied later.                                                         *)
CompleteTerminalTodo ==
    /\ opp.status # "VOID"
    /\ \/ /\ opp.pending \in {"CONTRACT", "WIN_EVIDENCE"}
          /\ opp.stage = "SIGNED"
          /\ \E g \in Grounds :
                BeginCall("TODO", [opp EXCEPT !.ref = g.ref, !.pending = "NONE"],
                          NoLink, g.evidence)
       \/ /\ opp.pending = "LOST_REASON"
          /\ opp.stage = "FAILED"
          /\ BeginCall("TODO", [opp EXCEPT !.reason = TRUE, !.pending = "NONE"],
                       NoLink, FALSE)

MayUpdateAlways(amount) == TRUE

(* closedMasterDataChanged: amount and sign date freeze on closing.        *)
MayUpdate(amount) == opp.status = "CLOSED" => amount = opp.amount

(* Update of the master data; with the same amount it stands for the other *)
(* edits, which raise the version too.                                     *)
Update(amount) ==
    /\ opp.status # "VOID"
    /\ MayUpdate(amount)
    /\ BeginCall("UPDATE", [opp EXCEPT !.amount = amount], NoLink, FALSE)

(* The newest link of each source decides.                                 *)
ActiveExternal ==
    \E i \in 1..Len(links) :
        /\ links[i].report.status \in {"QUOTED", "BIDDING"}
        /\ ~\E j \in 1..Len(links) :
              /\ links[j].report.source = links[i].report.source
              /\ \/ links[j].at > links[i].at
                 \/ links[j].at = links[i].at /\ j > i

(* VoidBlockers.                                                           *)
VoidBlocked == presale \/ opp.ref # NoRef \/ ActiveExternal

Void ==
    /\ opp.status # "VOID"
    /\ ~VoidBlocked
    /\ BeginCall("LIFECYCLE", [opp EXCEPT !.status = "VOID",
                                          !.before = opp.status],
                 NoLink, FALSE)

RestoreAfterReset ==
    /\ opp.status = "VOID"
    /\ BeginCall("LIFECYCLE", [opp EXCEPT !.status = "NONE", !.before = "NONE"],
                 NoLink, FALSE)

Restore ==
    /\ opp.status = "VOID"
    /\ BeginCall("LIFECYCLE", [opp EXCEPT !.status = opp.before,
                                          !.before = "NONE"],
                 NoLink, FALSE)

-----------------------------------------------------------------------------
(* The transactions.  Each write raises the version.                       *)

SameVersionUnchecked(c) == TRUE

SameVersion(c) == opp.version = c.seen.version

Drop(c) == calls' = calls \ {c}

SaveEvidenceWithStage(c) ==
    /\ c.evidence => ~evidence
    /\ evidence' = (evidence \/ (c.evidence /\ c.op = "STAGE"))

(* saveWinConfirmation; the evidence of an opportunity is unique, a second *)
(* row undoes the transaction.                                             *)
SaveEvidence(c) ==
    /\ c.evidence => ~evidence
    /\ evidence' = (evidence \/ c.evidence)

(* persistStage and persistExternalStage, with UpdateStage.                *)
CommitStage(c) ==
    /\ c.op \in {"STAGE", "EXTERNAL"}
    /\ SameVersion(c) /\ opp.status # "VOID"
    /\ opp' = [opp EXCEPT !.stage = c.model.stage, !.status = c.model.status,
                  !.ref = c.model.ref, !.reason = c.model.reason,
                  !.pending = c.model.pending, !.changed = c.model.changed,
                  !.ext = c.model.ext, !.version = @ + 1]
    /\ SaveEvidence(c)
    /\ links' = IF c.op = "EXTERNAL" THEN Append(links, c.link) ELSE links
    /\ UNCHANGED <<presale, outbox>>

(* CompleteTerminalTodo, with UpdateTerminalTodo.                          *)
CommitTodo(c) ==
    /\ c.op = "TODO"
    /\ SameVersion(c)
    /\ opp' = [opp EXCEPT !.ref = c.model.ref, !.reason = c.model.reason,
                  !.pending = c.model.pending, !.version = @ + 1]
    /\ SaveEvidence(c)
    /\ UNCHANGED <<links, presale, outbox>>

CommitUpdate(c) ==
    /\ c.op = "UPDATE"
    /\ SameVersion(c) /\ opp.status # "VOID"
    /\ opp' = [opp EXCEPT !.amount = c.model.amount, !.version = @ + 1]
    /\ UNCHANGED <<evidence, links, presale, outbox>>

(* persistLifecycle, with UpdateLifecycle.                                 *)
CommitLifecycle(c) ==
    /\ c.op = "LIFECYCLE"
    /\ SameVersion(c) /\ opp.status = c.seen.status
    /\ opp' = [opp EXCEPT !.status = c.model.status,
                  !.before = c.model.before, !.version = @ + 1]
    /\ UNCHANGED <<evidence, links, presale, outbox>>

Commit(c) ==
    /\ CommitStage(c) \/ CommitTodo(c) \/ CommitUpdate(c) \/ CommitLifecycle(c)
    /\ Drop(c)
    /\ UNCHANGED <<mode, clock, transfers, merges>>

(* The command is refused, or its connection is lost.                      *)
Abort(c) ==
    /\ Drop(c)
    /\ UNCHANGED <<opp, evidence, links, presale, outbox, mode, clock,
                   transfers, merges>>

(* ContractTransfer up to the row lock.  The snapshot is that of its first *)
(* read, the version the one the user has seen.                            *)
BeginTransfer ==
    /\ RoomForCall
    /\ transfers' = transfers \cup
           {[version |-> opp.version, accepted |-> outbox # {}]}
    /\ UNCHANGED <<opp, evidence, links, presale, outbox, mode, clock,
                   calls, merges>>

NotAcceptedByVersion(t) == \A e \in outbox : e.version # t.version

(* ContractTransferAccepted, a read of the snapshot, and the unique key of *)
(* the event, whose id is made of the version.                             *)
NotAccepted(t) == ~t.accepted /\ \A e \in outbox : e.version # t.version

(* ContractTransfer under the row lock: a linked, accepted, changed or     *)
(* unsigned opportunity is refused.                                        *)
ContractTransfer(t) ==
    /\ transfers' = transfers \ {t}
    /\ \/ /\ opp.link = "PENDING"
          /\ NotAccepted(t)
          /\ opp.version = t.version
          /\ opp.status = "CLOSED" /\ opp.stage = "SIGNED"
          /\ opp.ref # NoRef /\ opp.pending = "NONE"
          /\ outbox' = outbox \cup {[version |-> opp.version, ref |-> opp.ref,
                                     amount |-> opp.amount]}
       \/ UNCHANGED outbox
    /\ UNCHANGED <<opp, evidence, links, presale, mode, clock,
                   calls, merges>>

(* ContractLinkCallback: the contract system answers an event, late and    *)
(* out of order; sync is its own version.                                  *)
ContractLinkCallback(e, s, sync) ==
    /\ opp.version < MaxVersion
    /\ opp.ref = e.ref
    /\ sync > opp.sync
    /\ opp' = [opp EXCEPT !.link = s, !.sync = sync, !.version = @ + 1]
    /\ UNCHANGED <<evidence, links, presale, outbox, mode, clock,
                   calls, transfers, merges>>

(* Merge of the customer into the surviving one, up to the lock of its     *)
(* opportunities.  The contracts are counted in the snapshot that the read *)
(* of the idempotency record opened.                                       *)
BeginMerge ==
    /\ RoomForCall
    /\ opp.customer # Survivor
    /\ merges' = merges \cup {[contracted |-> opp.ref # NoRef]}
    /\ UNCHANGED <<opp, evidence, links, presale, outbox, mode, clock,
                   calls, transfers>>

(* MergeBlockers and MigrateMergeRelations.                                *)
Merge(m) ==
    /\ merges' = merges \ {m}
    /\ \/ /\ ~m.contracted
          /\ opp.customer # Survivor
          /\ opp.version < MaxVersion
          /\ opp' = [opp EXCEPT !.customer = Survivor, !.version = @ + 1]
       \/ UNCHANGED opp
    /\ UNCHANGED <<evidence, links, presale, outbox, mode, clock,
                   calls, transfers>>

(* A presale request is created or reopened under the row lock             *)
(* (EnsurePresaleEligible), and ends.                                      *)
CreatePresale ==
    /\ ~presale
    /\ opp.status = "FOLLOWING" /\ opp.stage \in OpenStages
    /\ presale' = TRUE
    /\ UNCHANGED <<opp, evidence, links, outbox, mode, clock,
                   calls, transfers, merges>>

EndPresale ==
    /\ presale
    /\ presale' = FALSE
    /\ UNCHANGED <<opp, evidence, links, outbox, mode, clock,
                   calls, transfers, merges>>

(* The server is restarted with the other win confirmation mode.           *)
SwitchMode ==
    /\ mode' \in Modes \ {mode}
    /\ UNCHANGED <<opp, evidence, links, presale, outbox, clock,
                   calls, transfers, merges>>

Tick ==
    /\ clock < MaxTime
    /\ clock' = clock + 1
    /\ UNCHANGED <<opp, evidence, links, presale, outbox, mode,
                   calls, transfers, merges>>

OpportunityNext ==
    \/ \E t \in Targets : ChangeStage(t)
    \/ \E k \in Contracts : SignProvision(k)
    \/ \E r \in Reports, at \in 1..MaxTime : ApplyExternalStatus(r, at)
    \/ CompleteTerminalTodo
    \/ \E a \in Amounts : Update(a)
    \/ Void \/ Restore
    \/ \E c \in calls : Commit(c)
    \/ \E c \in calls : Abort(c)
    \/ BeginTransfer
    \/ \E t \in transfers : ContractTransfer(t)
    \/ \E e \in outbox, s \in {"CONFIRMED", "EXCEPTION"}, n \in 1..MaxSync :
          ContractLinkCallback(e, s, n)
    \/ BeginMerge
    \/ \E m \in merges : Merge(m)
    \/ CreatePresale \/ EndPresale
    \/ SwitchMode \/ Tick

OpportunitySpec == OpportunityInit /\ [][OpportunityNext]_vars

-----------------------------------------------------------------------------
(* Properties.                                                             *)

(* The status a row has, or had before it was voided.                      *)
Standing(r) == IF r.status = "VOID" THEN r.before ELSE r.status

Lost(r) == r.stage = "FAILED"

(* The columns of a row agree, whatever commands of the two modes, reports *)
(* and lifecycle changes interleave: the terminal stages are the closed    *)
(* ones, before and after voiding; a contract reference stands on a signed *)
(* opportunity that is neither void nor waiting for something; a loss has  *)
(* its reason or waits for it (applyStage, CompleteTerminalTodo, Void).    *)
Consistent(r) ==
    /\ r.before # "NONE" <=> r.status = "VOID"
    /\ r.stage \in {"SIGNED", "FAILED"} <=> Standing(r) = "CLOSED"
    /\ r.ref # NoRef => /\ r.stage = "SIGNED" /\ r.status = "CLOSED"
                        /\ r.pending = "NONE"
    /\ Lost(r) <=> r.reason \/ r.pending = "LOST_REASON"
    /\ r.reason => r.pending = "NONE"
    /\ r.pending \in {"CONTRACT", "WIN_EVIDENCE"} => r.stage = "SIGNED"

TerminalConsistent == Consistent(opp)

(* A win that waits for nothing has one ground: a contract or local        *)
(* evidence, never both and never none, even when the mode was switched    *)
(* between the win and its completion (prepareWinConfirmation,             *)
(* saveWinConfirmation).                                                   *)
WinHasOneGround ==
    /\ evidence => opp.stage = "SIGNED" /\ opp.pending = "NONE"
    /\ opp.stage = "SIGNED" /\ opp.pending = "NONE" => (evidence <=> opp.ref = NoRef)

(* An opportunity is accepted for transfer once, whatever versions it goes *)
(* through and however many users ask at once (ContractTransferAccepted    *)
(* and the event id).                                                      *)
TransferredOnce == \A d, e \in outbox : d = e

(* What was accepted stays deliverable: the row still says what the event  *)
(* says, so the check of the worker before a delivery never makes a dead   *)
(* letter of it (authoritativeCommand, contracttransferworker/worker.go).  *)
EventStandsForRow ==
    \A e \in outbox :
        /\ opp.status = "CLOSED" /\ opp.stage = "SIGNED"
        /\ opp.pending = "NONE" /\ opp.ref = e.ref
        /\ opp.amount = e.amount /\ opp.version >= e.version

(* Reports take effect in the order of their times: none, be it late or    *)
(* overtaken while it was under way, puts an older stage in the place of a *)
(* newer one.  The time of the stage goes back only where a user changes   *)
(* the stage that a report, dated ahead, has set (the stale check and      *)
(* UpdateStage).                                                           *)
ReportsStayInOrder ==
    [][/\ opp'.ext >= opp.ext
       /\ opp'.changed < opp.changed => opp.changed = opp.ext /\ UNCHANGED links
      ]_vars

(* A closed opportunity stays closed in its stage and keeps its amount,    *)
(* through edits that began before it closed, and through voiding and      *)
(* restoring (validateStageChange, closedMasterDataChanged).               *)
ClosedIsFrozen ==
    [][Standing(opp) = "CLOSED" =>
          /\ Standing(opp') = "CLOSED"
          /\ opp'.stage = opp.stage /\ opp'.amount = opp.amount]_vars

(* What a comment says, and the code does not do: this has a               *)
(* counterexample.                                                         *)

(* merge_repository.go: a merge that would move an opportunity with a      *)
(* contract is blocked, and signing is serialised with it                  *)
(* (LockMergeRelations and MergeBlockers).                                 *)
ContractsAreNotMerged ==
    [][opp'.customer # opp.customer => opp.ref = NoRef]_vars

=============================================================================
