# TLA+ verification of the customer and opportunity system

This directory holds the TLA+ model of the CRM in this repository (Go, MySQL
through GORM, two HTTP servers and about twenty background workers), the TLC
configurations that check it and the theorems TLAPS proves about it. File and
line references are relative to `src/`.

## 1. Inventory

The system is a modular monolith. A CRM server (`cmd/crm-server`,
`internal/bootstrap`) hosts the modules under `internal/modules`; a customer
portal server (`cmd/portal-server`, `internal/portalbootstrap`) hosts those under
`internal/modules/portal`; every worker under `internal/*worker` is a process of
its own. All of them share MySQL. There is no in-process shared state to speak
of: what the parts share is rows, and what they agree on is row locks, version
columns, unique indexes and outbox tables. Hence the grain of the models: one
database transaction under its locks is one action, and what happens between two
transactions (a read before the transaction, a call to another system, a
delivery) is where the interleavings are.

| Component | State | Operations | Hard behaviour | What makes it correct |
|---|---|---|---|---|
| Presale request (`modules/presale`: model, repository, `service.go`) | request row with version, status log | versioned update, status log | a command carries a version read long before it runs | the version stands for what the user saw; the log tells the whole history |
| Presale approval (`service_approval.go`, `service_create.go`) | approval instance, approval log, binding of the decision in flight | create, decide, callback, cancel, reopen | decisions of several people on the same node; late or repeated callbacks; a new round on the same instance | every node of the snapshot passed in the running round; one decision per node; decided as requested |
| Presale execution (`assignment_*.go`, `service_mutation.go`) | assignment rows, assignment evidence, team lead, worklogs | pick department and team lead, replace executors, reject, take over, invalidate the lead, log work, complete | checks made before the transaction; a lead who leaves meanwhile; two ways to assign (one or two levels) | the lead of the request is the current lead row; somebody executes what is in execution; evidence adds up |
| Handover (`modules/handover`) | freeze rows, receipts | freeze, release, list responsibilities, transfer, complete | rewrites rows that other modules guard by locks and versions of their own | a receipt tells what happened; a frozen user gets no new work |
| Handover gate (`shared/handoverguard`) | lock row per user, freeze rows | lock, guard | a write that was checked before the freeze and commits after it | after the freeze nothing new is assigned to the user |
| Presale delivery (`presaleworker`) | outbox events with lease, retry count | claim, dispatch, sent, failed | workers that stop while they hold a lease; a late answer after the lease is lost | at least one delivery or a dead letter; no mark of a worker that lost the lease |
| Presale workers (`presaleengineersyncworker`, `presalealertworker`, `presale*notificationworker`, `presalereportaggregateworker`) | engineer projection, alert occurrences, notification inbox | sync, scan, project | lead invalidated from an old scan; duplicate notifications | one notification per event; a valid lead stays |
| Customer (`modules/customer`) | customers, contacts, import batches, change log | create, update, void, restore, merge, import | merge moves the rows of other modules; import resumes | no row points to a merged customer |
| Opportunity (`modules/opportunity`) | opportunities, members, stage history, follow-ups, attachments | change stage, sign, void, restore, change owner, provision, callbacks | external status that arrives out of order; stage against contract | the stage is reachable and matches its history |
| Win confirmation, contract transfer (`win_confirmation.go`, `contracttransferworker`) | confirmation row, transfer outbox | confirm, transfer, acknowledge | sign and transfer race; remote accepts twice | one transfer per signed opportunity |
| Credit (`modules/credit`) | level, applications, payment events, counters | apply, decide, withdraw, process payment, reverse | payments out of order and repeated; manual level against automatic | one effect per payment event |
| Portal invitation (`modules/portalinvite`, `portalinvitecompensationworker`, `portalaccessdisableworker`) | invitations, bindings, compensation jobs | create, verify, consume, resume, revoke, disable, reconcile | a saga over two systems with resumption and compensation | no access without a live invitation; every started saga ends |
| Portal account and sessions (`portal/account`, `modules/crmauth`, `shared/sessiongovernance`) | sessions, login states | login, logout, back-channel logout, governance | logout racing login, rotation of governance tokens | a session that was ended stays ended |
| Portal filing, feedback, report, project, evaluation, export (`modules/portal/*`, `portal*worker`, `projectexportworker`) | records with version, files, jobs | draft, submit, unlock, process, ingest, download, export | scan results after submission, single-use grants, leases | nothing unscanned is delivered; a grant is used once |
| Notification (`modules/notification`, `notificationdeliveryworker`) | inbox, delivery outbox | publish, deliver | lease and retry | one inbox row per source and recipient |
| Request audit (`middleware`, `shared/requestaudit`) | bounded buffer, audit outbox | append, spill, dispatch, hold | overflow, stop while draining | nothing accepted is lost |
| Shutdown (`internal/shutdown`) | registered groups | register, cancel, join | budget against slow components | everything registered is joined or reported |
| Support (`bootstrap`, `filegateway*`, `reportsecurity`, `openapicheck`, `migrationplan`, `seeddemo`, `platformcatalog`, `commercial`, `workerlicense`, `temporalworker`) | configuration | start, check | little state of its own | - |

## 2. Modules

| Module | Models | Source |
|---|---|---|
| `PresaleRequest` | the request row, its version, the approval round, the status log; extended by the two halves | `modules/presale/model.go`, `service.go`, `repository.go` |
| `PresaleApproval` | instance, approval log, screens of the users, decisions in both modes, callback, cancel, reopen; one approval engine and the delivery of its events | `service_approval.go`, `service_create.go`, `service_mutation.go`, `presaleworker` |
| `PresaleExecution` | assignment rows, evidence, team lead, worklogs, completion; leaving people, freezes, snapshots of the PMS and the scan that follows them | `assignment_*.go`, `service_mutation.go`, `service.go`, `handover_freeze.go`, `presaleengineersyncworker/store.go`, `team_lead_invalidation.go` |
| `Presale` | both halves on one request | all of the above |
| `PresaleHandover` | transfers of execution tasks with receipts, composed with `PresaleExecution` | `modules/handover/service.go`, `repository.go`, `repository_transfers.go` |
| `Opportunity` | one opportunity: stages, closing with a contract or with evidence, reports of the project system, voiding, merging of the customer, the row of the transfer outbox and the link callback | `modules/opportunity/service.go`, `repository.go`, `provision.go`, `win_confirmation.go`, `modules/customer/merge_repository.go` |
| `ContractTransfer` | the transfer outbox of signed opportunities: several workers, leases, tokens, retries, a contract system that accepts late | `contracttransferworker/worker.go`, `http_client.go`, `modules/opportunity/repository.go` |
| `TransferDelivery` | what `ContractTransfer` promises, without leases, tokens and messages | |
| `Credit` | credit of one customer: payments, reversals, rule settings, applications, against voiding and merging of the customer | `modules/credit/service.go`, `model.go`, `modules/customer` |
| `PortalAccess` | access of one contact to the portal: opening it, logging in with an invitation, closing it, the compensation tasks and the recovery | `modules/portalinvite`, `portalinvitecompensationworker`, `portalaccessdisableworker`, `modules/portal/account` |
| `PresaleRequest_proofs` | lemmas about the request row that both halves use | |
| `PresaleApproval_proofs`, `PresaleExecution_proofs`, `Presale_proofs`, `Opportunity_proofs`, `Credit_proofs`, `ContractTransfer_proofs`, `PortalAccess_proofs` | theorems about the module they are named after, `Presale_proofs` also about `PresaleHandover` | |
| `MC*` | the instances TLC checks | |

Three specifications serve as abstractions. `ApprovalSpec` and `ExecutionSpec`
each specify one half of the aggregate with a *move* that stands for the other
half (`ExecutionMoves`, `ApprovalMoves`). `Presale` puts the real steps in the
place of the moves. The run `presale` checks, and `Presale_proofs` proves, that
every behaviour of the composition is a behaviour of either half. So a property of a half, checked or
proved there, is a property of the whole request. `TransferDelivery` is the
third: `ContractTransfer` implements it under the mapping `DeliveryKept` (an
instance of the abstract module), which the run `contract_transfer` checks and
`ContractTransfer_proofs` proves.

### How state and actions correspond to the code

**One transaction, one action.** Every presale command runs in
`WithTransaction` and takes the row lock of `FindRequestForUpdate` first;
`UpdateRequestVersioned` then finds the version that was read. What a command
reads before its transaction is a separate action, with a record of what it
read: `screen[u]` for a user in front of a page, `calls` for a two-level
assignment command between its prechecks (directory, freezes, status) and its
transaction, `transfers` for a handover between its check, its snapshot and its
writes.

**Versions.** `req.version` is the optimistic lock. `screen[u].version` is the
version a decision, a cancellation or a reopening carries; `c.version` is the
one an assignment command carries. A command in one transaction that fails its
version check changes nothing, so only commands with the current version are
actions; for two-phase commands the version is the one at their start.
A browser may hold an older version than that: such a command is refused in
its transaction like any other stale one.

**Approval rounds.** The code has no round column; `round` counts reopenings
and lets properties speak of the running round. `approvalLog` is the table
`crm_presale_approval_logs` with the round added.

**Engine mode, two levels.** `Init` chooses `engine.on` from the constant
`EngineModes`, and no step changes it (`ModeStays`); the same goes for
`req.twoLevel` (a team lead is assigned first) and `TwoLevels`.
`engine.on = FALSE` is the program without `ApprovalTaskResolver`. With one,
`RequestDecision` binds task, approver and
action on the instance and writes the event; `Deliver` is the worker and the
engine together (an accepted event may or may not be marked sent: the worker can
stop in between); `HandleApprovalCallback` may run any number of times for every
callback ever sent, in any order. The engine itself is external: it opens tasks
for any approval node and is not told of cancellation or reopening.

**Status log.** The log is kept as the status its newest entry leads to and
whether every entry starts where the one before ended. That is all
`StatusLogComplete` needs.

**Assignment rows.** `executors[p]` and `leadRows[p]` count the current rows of
`p`: more than one EXECUTOR row of a person is possible after a transfer.
`evidence[p]` is the number of ADDED minus REMOVED events of `p`.

**People.** `gone` is what the directory says (who is no longer listed in the
department cannot be assigned), `inactive` what the engineer cache says
(`valid_flag = 0`). Nothing ties the two: `ApplyEngineers` applies any snapshot
of the PMS from the set `Snapshots`, which may report a person late, never, or as
valid again, and the scan at its end, in the same transaction, joins the engineer
rows and finds the leads that are invalid by them. So a lead who moved to another
department (his row is valid) and one the PMS does not know (he has no row) are
in `gone` and are never found, as in the code.

**Handover.** `OpenTransfer` is the first plain read of the transaction of
`transferPresaleAssignment`: under REPEATABLE READ all its plain reads are as
old as that one. `CommitTransfer` does the locking reads and the update, which
see current rows. Current assignment rows all have version 1, so the expected
version in a transfer tells nothing apart and is left out. With transfers, the
request's rows change without its version, so `HandoverSpec` does not implement
`ExecutionSpec`; the properties that survive are checked in the run `handover`
and proved in `Presale_proofs`. `RowsChangeWithVersion` does not survive, and a
comment about the receipts does not hold: that is a violated run.

**Opportunity.** One opportunity and the contracts that may be linked to it.
Time is `clock`, which the commands of users write; a report carries any time of
`1..MaxTime`, before or after the clock, since the code only asks that there is
one (`dto.go:134`).
`amount` stands for what a signed opportunity hands to the contract system
(amount and sign date); an edit of anything else is an update with the same
amount. A command that looks at the opportunity before its transaction keeps
what it saw in `calls`. Change of owner, follow-ups, attachments and creation
are left out.

**Contract transfer.** Time appears as two facts of a row: its lease is over, its
retry is due. A claim token is a value not in use for the event. Rows locked by
another claim are skipped (`SKIP LOCKED`), which is `Skipped`. Whether the
authoritative command can be read from the opportunity (`sound`) is fixed for
an event: `EventStandsForRow`, a property of `Opportunity`, is the reason. The
switch that turns the subscription off is left out: no worker claims then.

**Credit.** One identifier stands for `event_id` and `payment_id`. A payment that
lacks its dates has day 0. A reversal names a customer of its own, which the code
locks, compares with the result of the payment and writes, and never compares
with the customer of the payment. A form with an old version of the settings is refused and therefore no action. Payments
of a tenant that has settings exclude each other by the lock of that row and are
one action; those of a tenant without settings overlap, and `tx[w]` keeps how
much of the records a payment has seen while it waits for its customer.

**Portal access.** One customer that stays active, one contact and one platform
user; the portal is the authority on its own mapping. Operations, invitations,
the CRM's link, the portal's mapping, the disable
operation and the compensation tasks are the state; `work[s]` is what the
request or worker in slot `s` is doing, with the version of the row as it read
it (`fresh`). A call to another system and the transaction that records its
outcome are one action where nobody can do anything about it between the two,
and two actions otherwise. Only what a step depends on tells statuses apart:
REVOKED and EXPIRED of an invitation are one, SUCCEEDED and DEAD_LETTER of a task
are one, the tries of a task are not counted (it may be given up at any
failure). The tries of the disable operation are: its dead letter blocks the
customer. A lease that runs out while its owner is still at work is a fault, one
whose owner has stopped is not. The portal role of the platform
user is not state of the model: an administrator of the platform may take it away
at any time (which is why `service.go:735` and 777 call for it again), and no
step of the code reads it back; the calls that give and take it are steps,
with their failures and lost answers. Failures of the closing calls are free up to
`DisableTries`; every other failure, lost answer or stop counts as a fault. Left
out: the bindings and the role reconciliation of the platform mode, a second
contact, a customer that is voided, sessions and tokens.

### Left out of the presale modules

Data nobody guards on (texts, opportunity fields, phone numbers), permissions
beyond the sets `CanDecide`, `Admins`, `Cancellers`, organisation scopes,
notifications, audit records, the idempotency replay of commands, `AddProgress`.
`MarkApprovalStarted` and the status `APPROVAL_STARTING` are dead: no code
writes that status or the event `PRESALE_APPROVAL_START_REQUESTED`.
`HandleApprovalCallback` looks for the task in the log before it takes the row
lock; the model keeps that read as a guard of the same step. It makes no
difference: the binding alone excludes the same callbacks, and TLC finds the
same states without it.

## 3. Runs

| Run | Configuration | Shows | States |
|---|---|---|---|
| `approval_engine` | both modes, 3 users, nodes 1 and 3 of 3 are approvals, 2 tasks, 2 tries, 5 versions, 2 rounds | all nodes passed, one decision per node, decided as requested, and a decision in flight resolves | 586 k |
| `execution` | both ways to assign, 2 people, 2 commands in flight, 6 versions, 2 rounds | lead, rows, evidence and status log agree; a closed request is left alone; a lead the PMS reports invalid is released | 1.2 M |
| `presale` | 2 users, 1 person, an assignment node between two approvals, 9 versions, 2 rounds | the composition implements both halves; executed as approved; decisions hit what was seen | 1.2 M |
| `handover` | 2 people, 2 keys, 2 rows a person, 5 versions | receipts, freezes and prechecks under transfers | 2.1 M |
| `credit` | 1 customer, 3 payments, 2 days, 2 settings, 2 applications, 2 overlapping requests | payments count once, the log explains the level, applications agree with it; with settings, the dates stay right | 2.1 M |
| `opportunity` | 2 commands in flight, 1 contract, 2 customers, 2 amounts, 4 versions | a terminal opportunity has one ground, is transferred once with what it was signed with, and stays closed; reports take effect in their order | 8.3 M |
| `contract_transfer` | 2 workers, 2 events, 1 retry, 1 fault, 3 tokens | the outcome is recorded with the row, `TransferDelivery` is implemented, every event settles | 832 k |
| `portal_access` | 2 keys, 1 request and 1 worker, 2 tries, 2 faults | closed access stays closed, invitations match the link, closing that was begun completes or ends as a dead letter | 339 k |

Bounds. `MaxVersion` bounds the number of commands that take effect, and it is
the bound that ends every behaviour (hence `CHECK_DEADLOCK FALSE`: a request may
really end, and a bounded one must). Four commands after
the creation suffice to decide, be cancelled, be reopened and be decided again;
five in the execution half to assign, reject or take over, be cancelled, be
reopened and be assigned again; eight in the composition to pass both nodes, be
assigned, be cancelled, be reopened and pass both again. Two rounds are enough to tell this round from an
earlier one. Two people suffice for every race of the execution half, in which a
lead is replaced by another; two commands in flight for every race of two
managers. `MaxRows = 2` lets a transfer meet a person with two rows. `Leavers` and `Snapshots` say who may leave or be
frozen and what the PMS may report: one of the two people, in any order and back
again, so that the other one is there to take over. `MaxTries`
stands for the seven attempts of the worker. In the portal access a request, whose
slot serves one opening, login or closing after the other, meets a worker that
recovers a closing or a task; two keys let one invitation replace another, and
two faults give a stop and an overrun lease in one behaviour. Two requests at a
time are left to the theorems, which hold for any number of requests, workers and
faults: with two, the run takes several times as long, and its liveness half most
of that. Two workers and two
events let a transfer be taken over while its first worker still waits, and one
event starve the other. Three payments and two days give every order of a late
and an early payment and a reversal between them; two requests are enough for
each race, since a request waits for one lock only. People are interchangeable, and
symmetry is used only where no liveness is checked.

Fairness. `ExecutionFairness` asks that the snapshot of the PMS is applied
again and again, even when it has not changed, and that a
found lead is invalidated: `presaleengineersyncworker` runs every six hours,
scans at the end of each synchronisation and invalidates what it found in the
same transaction (other commands commit between the two, since the scan takes no
lock). A synchronisation that stops halfway is repeated; the assumption is that
not all of them stop. That the PMS ever reports a person invalid, or valid again,
is not assumed. Weak fairness is enough, since a job that finds the PMS unchanged
is possible at any time. `ApprovalFairness`
asks that the delivery worker marks a pending event sooner or later and that a
callback the request waits for is handled: the worker polls, and the engine
repeats a callback until it gets a 2xx. `TransferFairness` asks that the workers run, are restarted when they
stop, and that time passes (leases run out, retries become due). Stops, overrun
leases and lost answers are bounded by `MaxFaults`; that a healthy worker answers
within its lease is the configuration's doing (a lease of at least 15 s against
time limits of 5 s and 7 s for the two calls), and that a worker is restarted is
the container's. `PortalFairness` asks that a closing or a task that was begun
goes on, and, strongly, that each worker claims a disable operation that is open
to it again and again: it polls, and other tasks may come between. Nothing is
asked of users, of people who leave, of the engine's own flow, or of the network: a delivery may fail every
time, and then the event dies after its last try.

### Statements of comments and documents that the code does not keep

Each is a run that TLC answers with a counterexample.

| Run | Statement | What happens |
|---|---|---|
| `handover_rejected` | a rejected transfer changes no data (`modules/handover/repository.go:343`) | two rows of the person are ended, nobody succeeds |
| `opportunity_merge` | locking the relations makes signing serial with the merge, and contract ownership is rebound before it (`modules/customer/merge_repository.go:65`, 113) | the merge counts contracts in the snapshot it opened before it waited for the lock |
| `credit_reversed` | only the latest credit payment can be reversed (`modules/credit/service.go:545`) | in a tenant without settings the later payments are counted in the snapshot opened before the customer's lock (`service.go:541`); a payment of the same day that commits meanwhile and leaves the state as it was is missed, and the one before it is reversed |
| `contract_retried` | limited retries end in a dead letter, and one that is retried by hand is claimed again (`contracttransferworker/worker.go:318`, `modules/opportunity/repository.go:709`) | the attempts are numbered from 1 again, their number is taken, and no mark is ever written |

Seen while modelling and not given a run:

- Presale. A transfer leaves the version of the request as it is, by which
  concurrent reassignments are told apart (`TS-003-人员指派.md:56`), and writes no
  assignment event (line 36; `repository_transfers.go:150`). It counts rows in a
  snapshot older than the update, so somebody who became team lead meanwhile is
  handed over (`repository_transfers.go:117`, 120), and it moves rows of closed
  requests that are not listed as responsibilities (`repository.go:267`). The
  freeze of the source is read before the transaction only
  (`handover/service.go:204`). An invalidation removes whoever is lead by then
  (`README.md:307`). The same line promises that a request goes back when its
  lead 离职、调岗或停用; the scan looks at `valid_flag` of the engineer row
  (`team_lead_invalidation.go:20`), so a request whose lead moved to another
  department, or whom the PMS does not know, waits until somebody acts on it: the
  lead who tries to assign (`revalidateTeamLead` then sends it back), he or a super
  admin who rejects or assigns, or a cancellation. `InactiveLeadReleased` speaks of the leads the scan
  looks for. A reopened request is completed by worklogs of the round
  before (`service_create.go:163`). The comment of `AddWorklog`
  (`service_mutation.go:188`) promises a completion that nothing performs.
- Opportunity. An external WON with a contract reference is not verified with
  `BelongsToCustomer` while `errors.go:36` speaks of a verified contract. A presale
  request created between the count and the update of a void stays active on a
  void opportunity (`opportunity/service.go:725`, 831; `errors.go:21`). The time
  of a report is not bounded by the clock (`dto.go:134`, `service.go:1031`,
  1108): after one dated ahead, reports with true times are refused as late until
  that time has come, and a user's change, which writes the present time
  (`service.go:992`), moves `stage_changed_at` back. `ReportsStayInOrder` says
  that this is the only way back.
- Contract transfer. A poison event put back by hand can hold up younger ones for
  as long as restarts are slower than the lease.
- Credit. Two manual changes that cancel out before a reversal
  are not seen by it (`credit/service.go:549`): log, dates and applications are
  consistent afterwards, so no property of `Credit` objects. A reversal that names another customer
  than its payment is not refused; it takes effect if that customer happens to be
  in the state the payment left. The key of a notification is made of its text: an equal
  later change is not announced (`credit/service.go:974`, 982). The status
  `IGNORED_CUSTOMER_UNAVAILABLE` (`credit/service.go:419`) is longer than its
  column.
- Portal access. `completeMapping` sets an ACTIVE link back to PENDING and raises
  its version without the customer's lock; a disable operation that froze the
  version before is then refused in every attempt, outside the count of failures,
  and stays PROCESSING, while `DEVELOPMENT.md:244` and `migrations/README.md:167`
  promise a dead letter after 8 failures. `DisableSettles` names this exception.
  A task that lost its lease is retried without being counted. A run that
  resumes a provision calls for the role again after a completed disable. A login
  whose answer from Consume was lost takes back the activation although the
  invitation is used, and one that fails takes back the activation another login
  relies on (`portal/account/service.go:518`).

## 4. Proofs

All theorems hold for every rule snapshot, every set of users and people and
every bound. The assumptions are named, in the module that declares the
constants. Those of `PresaleRequest`, `PresaleApproval` and `PresaleExecution`
say: the snapshot is a sequence of node
types and its first node is an approval (rule validation), `NoPerson` is nobody,
the bounds are natural numbers and positive where a state needs room, users
named by other constants are users. That of `Opportunity` says that every
contract is of one customer, that reports and chosen stages are of their types,
and that `NoRef` and `NoLink` are no values; those of `Credit`, `ContractTransfer`
and `PortalAccess` say that values such as `Nobody` belong to no other set and
that bounds are natural numbers.

`PresaleApproval_proofs`, about `ApprovalSpec`:

| Theorem | Property | Inductive invariant |
|---|---|---|
| `TypeCorrect` | `ApprovalTypeOK` | `TypeInv`: types, and a pending event has a try left (`TriesLeft`) |
| `FullyApproved` | `RoundFullyApproved` | `RoundInv`: the property, the node a pending request waits at is an approval node (`WaitsAtNode`), and the log has no entry of this round at or after that node (`LogIsBehind`) |
| `DecidedOnce` | `OneDecisionPerNode` | `RoundInv` as well: that the log is behind makes the next entry the first of its node |
| `VersionNames` | `VersionNamesTheView` | `ViewInv`: no screen shows a higher version than the row's |
| `SeenBeforeActed` | `ActsOnWhatWasSeen` | `ViewInv`, and without a task resolver there is nothing to call back (`InternalIsQuiet`) |
| `DecidedByRequest` | `DecidedAsRequested` | `RequestedInv`: the binding of the instance is an event of this round (`BindingRequested`), which is why `Reopen` has to clear it |
| `DecisionIsNotLost` | `DecisionCarried`, the safety part of `DecisionResolves` | `CarrierInv`: `RequestedInv`; the engine's counters run ahead of all it has announced (`EngineCounts`); what is logged or marked sent was performed (`LoggedIsPerformed`, `SentIsPerformed`); while a decision is in flight its task is not yet in the log, and its callbacks are of the node the request waits at and newer than the last one applied (`BindingLive`) |

The step of each invariant is split by the actions of `ApprovalNext`,
`ExecutionMoves` included, so the theorems hold of the approval half whatever
the execution half does within its moves.

`PresaleExecution_proofs`, about `ExecutionSpec`:

| Theorem | Property |
|---|---|
| `ExecutionTypeCorrect` | `ExecutionTypeOK` |
| `LeadProjected` | `LeadProjection` |
| `EvidenceComplete` | `EvidenceMatchesRows` |
| `ExecutionLogged` | `StatusLogComplete` |
| `StatusFits` | `StatusFitsAssignments` |
| `PrechecksHold` | `PrecheckStillHolds` |
| `VersionStandsForRows` | `RowsChangeWithVersion` |
| `FrozenIsSafe` | `FrozenGetsNothing` |
| `ClosedIsClosed` | `ClosedIsLeftAlone` |

One inductive invariant, `ExecutionInv`, carries them. Its core, `CoreInv`, is
inductive by itself: the types, the consistency of the request with its lead row
and its log (`Aggregate`), `PrecheckStillHolds`, and `CallsSound`, which says that
no command in flight has seen a later version than the row's and that a command
that replaces executors names somebody. `RowsFit` adds that the evidence accounts
for every row and that the status fits the assignments. The two are kept apart
because a handover keeps the first and breaks the second. The argument goes through `NextKinds`: a step is quiet (it writes neither request
nor rows), or it is one of seven writing steps, or a move of the approval half.
Each writing step has a lemma (`...Keeps`) that it keeps `Aggregate` and
`RowsFit` and raises the version. The second half of that is why prechecks hold: a write leaves every
command in flight behind, so a command whose version is still current was
prechecked against the request as it is (`CallsStep`). `StatusFits` rests on the
row a lead selection or an assignment has just written, and on the commands'
having named somebody before their transaction.

`Presale_proofs`, about the compositions. First `Spec`, the whole request:

| Theorem | Statement |
|---|---|
| `ImplementsExecution` | `Spec => ExecutionSpec`: approval steps are `ApprovalMoves` or stutter, no invariant needed |
| `ImplementsApproval` | `Spec => ApprovalSpec`: execution steps are `ExecutionMoves` or stutter, under `ExecutionInv` (a transaction that assigns and completes writes two log entries, which are one move only if the log has no gap) |
| `ExecutedOnlyAsApproved` | `ExecutedAsApproved`, from the two refinements, `FullyApproved` and `StatusFits` |
| `SeenBeforeActedInWhole` | `ActsOnWhatWasSeen`, by `ImplementsApproval` |
| `FrozenIsSafeInWhole` | `FrozenGetsNothing`, by `ImplementsExecution` |

The order matters: `ImplementsExecution` gives the whole the invariant of the
execution half, and that invariant gives `ImplementsApproval`.

Then `HandoverSpec`, execution with transfers between its commands:

| Theorem | Property |
|---|---|
| `HandoverTypeCorrect` | `HandoverTypeOK` |
| `PrechecksHoldInHandover` | `PrecheckStillHolds` |
| `LeadProjectedInHandover` | `LeadProjection` |
| `FrozenIsSafeInHandover` | `FrozenGetsNothing` |
| `ReceiptsStand` | `ReceiptStands` |

No refinement helps here, since a transfer is no step of the execution half.
`HandoverInv` is `CoreInv` with types for transfers and receipts, and that a
transfer is from one person to another (`TransfersSound`: without it a transfer
would end the rows it has just given). A step of execution keeps `CoreInv` by
`CoreStep`; the commit of a transfer keeps it because it writes executors and a
receipt only (`CommitTransferEffect`), and no part of the core but a type speaks
of executors. `RowsFit` is not kept: a transfer writes no assignment event, and it
may end the last executor of a running request. `ReceiptsStand` needs of execution
that a command which moves rows also writes the request (`AggregateStep`), so rows
that move under an unchanged request were moved by a transfer.

`Opportunity_proofs`, about `OpportunitySpec`:

| Theorem | Property |
|---|---|
| `OpportunityTyped` | `OpportunityTypeOK` |
| `RowStaysConsistent` | `TerminalConsistent` |
| `WinIsGrounded` | `WinHasOneGround` |
| `AcceptedOnce` | `TransferredOnce` |
| `AcceptedStaysDeliverable` | `EventStandsForRow` |
| `ReportsTakeEffectInOrder` | `ReportsStayInOrder` |
| `ClosedStaysFrozen` | `ClosedIsFrozen` |

None of these is inductive: a transaction writes a copy of the row that a command
made earlier, so `OppInv` has to say of every command under way what its copy may
be (`CallSound`: consistent, `InOrder` in its times, frozen if the row read was
closed, and with one ground if it brings a win) and that the row it read is the
row of today as long as the version is (`CallCurrent`). Commands begin sound
(`ChosenStageKeeps` for stages, `OtherCallKeeps` for the rest), `CommitWrites`
shows that a transaction therefore writes all of the copy, and `RewriteKeeps`
that every write outdates the other commands. `AcceptedOnce` rests on two
guards together (`TransfersFit`): an event from before the snapshot is seen in
the snapshot, one from after it has the version of the transfer or a later one,
and the row has no later version, so the unique key meets it.
`ReportsTakeEffectInOrder` says that the time of the last report never goes back,
and that the time of the stage does only where no report is involved (`links` is
unchanged) and the stage was set by a report: there, a user's change follows a
report dated ahead.

`Credit_proofs`, about `CreditSpec`:

| Theorem | Property |
|---|---|
| `CreditTypeCorrect` | `CreditTypeOK` |
| `PaymentsCountOnce` | `OncePerPayment` |
| `LogExplainsLevel` | `LevelFollowsLog` |
| `ApplicationsCarriedOut` | `ApplicationsAgree` |
| `DateIsLatest` | `DatesKept` |

The types are inductive as they are. `OncePerPayment` needs that a reversal names
a payment that has a record (`PaymentInv`); that what an overlapping payment saw
is old does not matter, because the unique key does not look at its snapshot.
`LevelFollowsLog` is proved by extending the chain of the log entry by entry
(`LeadsOn`): each step that moves the level writes one entry that starts at the
level before, and no other step writes either.

`ApplicationsCarriedOut` needs `ManualIsApproved`: a manual change of the log names
an application that is approved. So one that is open has no change of its own yet,
and its approval writes the first (`ClosedApproved`); that a customer has one open
application at a time is the guard of `Apply`; voiding and merging leave
applications as they are.

`DatesKept` is an action property: in a tenant that has saved its settings a step
that finds the dates right (`DatesAgree`) leaves them right. "Right" is said of
*every* payment that counts: the date it found, which its reversal puts back, is
the one the payments before it leave (`LastAfter`); for the latest payment alone it
would not be enough, since once that is reversed the next one is the latest. A
step that has to keep this may be a payment, its reversal, a decision or a change
of the rules. `DatesCount` adds a payment, `DatesReverse` takes the latest away,
and `NoneWaiting` says that with a settings row no payment waits with an old
snapshot, so that what a reversal counts is what there is. Without a settings
row the dates do go wrong: the run `credit_reversed`. A tenant that saves its
settings later keeps the records of before, which is why the property starts from
dates that are right instead of from the initial state. `PayersAgree` is what is
asked of the settlement system: a reversal names the customer who paid. The code
does not compare them.

`ContractTransfer_proofs`, about `TransferSpec`:

| Theorem | Statement |
|---|---|
| `TransferTyped` | `TransferTypeOK` |
| `OutcomesRecorded` | `OutcomeRecorded` |
| `DeliveryIsKept` | `DeliveryKept`: the outbox implements `TransferDelivery` |
| `UntouchedMarks` | `UntouchedSpec => [](TriesLogged /\ MarksAreFree)` |

`TransferInv` is the inductive invariant: types, a row has a token exactly while
it is PROCESSING and has a try left unless it ended (`RowsAgree`), and no two
claims of an event share a token, so that the copy of the worker that may mark
the row is the row (`ClaimsAgree`). The refinement maps each row to its state
and each event to the worker whose token it has (`HolderFacts` says there is one
at most). Claim is Take, Mark is Settle, giving up or stopping is Leave, the
retry by hand is Revive; all else stutters.

`UntouchedMarks` is the safety part of `EventsSettle`, and the other half of the
violated run `contract_retried`: in `UntouchedSpec`, which is `TransferSpec`
without the retry by hand, the log of an event has exactly one attempt for each
try it has used, so the transaction of a worker that holds the event always finds
the number of its attempt free. Only the retry by hand, which sets the tries
back and keeps the log, takes that away.

`PortalAccess_proofs`, about `Spec` of `PortalAccess`:

| Theorem | Property |
|---|---|
| `PortalTyped` | `PortalAccessTypeOK` |
| `ClosedForGood` | `AccessStaysClosed` |
| `InviteAndLinkAgree` | `InviteMatchesLink` |

`PortalInv` is inductive: besides the properties it says that status, stage and
tries of the disable operation agree (`OperationAgrees`), that the portal is
closed before the link and the invitations with it (`ClosedInOrder`), and that a
closer in the middle of its work has seen what it builds on (`CloserKnows`). Steps are sorted by what they
leave alone: `QuietKeeps` covers those that touch neither link nor invitation nor
disable operation, `OperationKeeps` those on the disable operation, and
`OpenLinkKeeps` those on a link that is open.

Model-checked only: the liveness properties `DecisionResolves`,
`InactiveLeadReleased`, `EventsSettle` and `DisableSettles` (liveness under fairness
is outside the prover's reach). Of two of them the part that is not about
fairness is a theorem: `DecisionIsNotLost` for `DecisionResolves`,
`UntouchedMarks` for `EventsSettle`. Every invariant, action property and refinement
of the passing runs is a theorem. The violated runs are
counterexamples and need no proof. `VersionStandsForRows`, `VersionNames`,
`DecisionIsNotLost` and `UntouchedMarks` are proved and have no run of their own:
the first two are used by other theorems, the last two say of safety what the
liveness runs say with fairness. `LeadProjectedInHandover` states of the handover
what the runs of execution check. No module has a
RECURSIVE operator or computes by recursion over data, so no induction over data
is missing.

## 5. Not modelled

The components of the inventory without a module, and why:

- approval-rule matching (`approval_rule*.go`): a pure choice by scope and
  priority; the snapshot it produces is the constant `Nodes`;
- the idempotency replay of presale commands, the gate rows of
  `handoverguard` (taken as one atomic read), the leases of the presale workers
  and their projections: infrastructure below the actions of the presale modules;
- customers beyond voiding, restoring and merging as `Credit` and `Opportunity`
  meet them; imports, contacts and the change log are versioned rows of one
  writer;
- sessions and login (`crmauth`, `sessiongovernance`) beyond the activation of
  the portal account, which is part of `PortalAccess`;
- the portal's records (filing, feedback, reports, projects, evaluation, export),
  notifications, the request audit and the shutdown: further systems of their own
  that share no state with the modules here;
- queries, reports, alerts, configuration, wiring and I/O adapters, which keep no
  state a command depends on.

Of the modelled components, section 2 names what is left out. The modules stand for
about 5,900 of some 75,000 lines of implementation: the parts where rows, versions
and other systems have to agree. A large part of the rest is handlers,
validation, queries and mapping between structures.

Hazards of the parts not modelled are listed with the others in
`PROJECT.json`, each with a note.

## 6. Plan

Done: the presale request with both halves and its composition, handover,
opportunity, contract transfer, credit and portal access, with all their safety
properties proved. What would come next, in
this order:

1. `OutboxLease`, the presale workers' lease by owner name, against the claim
   tokens of `ContractTransfer`; it would refine `TransferDelivery` too, and
   `PresaleApproval` could use it;
2. `HandoverGate`: gate row, freeze rows, snapshots against locking reads, as an
   implementation of the atomic guard of `PresaleExecution`;
3. `MutationReplay`: commands repeated under an idempotency key, an
   implementation of *applied once, answered alike*;
4. a second contact, a voided customer and the platform mode in `PortalAccess`;
5. transfers of customers, opportunities, team memberships and approvals beside
   `PresaleHandover`;
6. sessions, then delivery of notifications, the request audit and the shutdown.

## 7. Running

    tlc -workers 2 -config PresaleApprovalEngine.cfg MCPresaleApproval
    tlapm PresaleApproval_proofs.tla
    tlapm PresaleExecution_proofs.tla
    tlapm Presale_proofs.tla
    tlapm Opportunity_proofs.tla
    tlapm Credit_proofs.tla
    tlapm ContractTransfer_proofs.tla
    tlapm PortalAccess_proofs.tla

`PROJECT.json` lists every run with its module and configuration, the
definitions with the lines they model, and for each property a mutation of the
code that it detects.
