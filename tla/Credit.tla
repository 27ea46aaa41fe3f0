------------------------------- MODULE Credit -------------------------------
(***************************************************************************)
(* Customer credit (src/internal/modules/credit): payments step a          *)
(* customer's level up and down by rules, the latest payment can be        *)
(* reversed, and sales apply for a level that a director approves.         *)
(*                                                                         *)
(* Every command is one transaction, and each of them locks the customer's *)
(* row before it writes.  A payment locks the rule settings of the tenant  *)
(* first, which makes payments exclude each other; a tenant that never     *)
(* saved its settings has no row to lock, and there two payments overlap:  *)
(* each reads its duplicates from a snapshot and then waits for the        *)
(* customer (tx below).                                                    *)
(***************************************************************************)
EXTENDS Integers, Sequences

CONSTANTS
    Customers,
    Payments,      \* ids of payment and reversal events
    NoPayment,     \* an empty reversal_of_payment_id
    MaxDay,        \* paid dates are days 1..MaxDay; 0 is "not paid in full"
    MaxDelay,      \* days between the due date and the paid date
    DefaultRules,  \* the rules of a tenant without settings
    RuleChoices,   \* the settings an administrator may save
    NoSettings,    \* the tenant has no settings row
    Keys,          \* idempotency keys of applications
    Workers,       \* requests that process a payment at the same time
    Idle,
    MaxRows        \* bound on the payment records plus the applications

Levels == 1..4     \* A, B, C, D
Initial == 2       \* a new customer has level B

(* validRuleSettings.                                                      *)
RuleSettings == [grace : 0..90, onTime : 1..100, late : 1..100, step : 1..3,
                 enabled : BOOLEAN]

ASSUME CreditAssumption ==
    /\ MaxDay \in Nat /\ MaxDelay \in Nat /\ MaxRows \in Nat
    /\ RuleChoices \subseteq RuleSettings /\ DefaultRules \in RuleSettings
    /\ NoSettings \notin RuleChoices
    /\ NoPayment \notin Payments

VARIABLES
    status,    \* status[c]: ACTIVE, VOID or MERGED
    credit,    \* credit[c]: level, counters and last evaluated payment
    settings,  \* the rule settings row
    records,   \* crm_customer_credit_payment_records, in the order of the id
    changes,   \* crm_customer_credit_logs
    apps,      \* applications with their approval instance and task
    notified,  \* source_event_ids of CREDIT_RULE_CHANGED notifications
    tx         \* tx[w]: the payment transaction of w, while it waits

vars == <<status, credit, settings, records, changes, apps, notified, tx>>

States == [level : Levels, onTime : Nat, late : Nat, last : 0..MaxDay]
Verdicts == {"ONTIME", "LATE", "REVERSED", "IGNORED"}

(* A reversal pays nothing; what has not been paid has no delay.           *)
Events ==
    {e \in [id : Payments, customer : Customers,
            of : Payments \cup {NoPayment}, day : 0..MaxDay,
            delay : 0..MaxDelay] :
        /\ e.of # NoPayment => e.day = 0
        /\ e.day = 0 => e.delay = 0}

Records == [payment : Payments, customer : Customers, verdict : Verdicts,
            of : Payments \cup {NoPayment}, prev : States, result : States,
            reversed : BOOLEAN]

(* at stands for occurred_at: the number of payments recorded before it.   *)
Changes == [customer : Customers, from : Levels, to : Levels, at : Nat,
            source : {"RULE", "RULE_CAP", "REVERSAL", "MANUAL"}, app : Nat]

AppStatuses == {"PENDING", "APPROVED", "REJECTED", "INVALIDATED", "WITHDRAWN"}
Applications == [customer : Customers, key : Keys, from : Levels,
                 target : Levels, status : AppStatuses, task : AppStatuses,
                 instance : AppStatuses, pending : BOOLEAN]

Announcements == [customer : Customers, from : Levels, to : Levels]

CreditTypeOK ==
    /\ status \in [Customers -> {"ACTIVE", "VOID", "MERGED"}]
    /\ credit \in [Customers -> States]
    /\ settings \in RuleChoices \cup {NoSettings}
    /\ records \in Seq(Records)
    /\ changes \in Seq(Changes)
    /\ apps \in Seq(Applications)
    /\ notified \in SUBSET Announcements
    /\ tx \in [Workers -> [event : Events, seen : Nat] \cup {Idle}]

CreditInit ==
    /\ status = [c \in Customers |-> "ACTIVE"]
    /\ credit = [c \in Customers |->
                    [level |-> Initial, onTime |-> 0, late |-> 0, last |-> 0]]
    /\ settings = NoSettings
    /\ records = <<>> /\ changes = <<>> /\ apps = <<>>
    /\ notified = {}
    /\ tx = [w \in Workers |-> Idle]

-----------------------------------------------------------------------------
Rules == IF settings = NoSettings THEN DefaultRules ELSE settings

(* What every locking read of a customer asks for.                         *)
Available(c) == status[c] = "ACTIVE"

StepLevelUnclamped(level, delta) == level + delta

(* stepLevel, which stops at A and at D.                                   *)
StepLevel(level, delta) ==
    IF level + delta < 1 THEN 1
    ELSE IF level + delta > 4 THEN 4 ELSE level + delta

(* What a payment of customer state s counts as.  A payment before the     *)
(* last evaluated one, one under disabled rules and one that is incomplete *)
(* are all recorded and ignored.                                           *)
Verdict(e, s) ==
    IF e.day = 0 \/ e.day < s.last \/ ~Rules.enabled THEN "IGNORED"
    ELSE IF e.delay <= Rules.grace THEN "ONTIME" ELSE "LATE"

RewardDue(v, s) == v = "ONTIME" /\ s.onTime + 1 >= Rules.onTime
PenaltyDue(v, s) == v = "LATE" /\ s.late + 1 >= Rules.late

(* The state after a payment: its counter goes up and the other one is     *)
(* reset; at the threshold the level steps and the counter is reset too.   *)
Scored(v, s, day) ==
    CASE v = "ONTIME" ->
           [level |-> IF RewardDue(v, s) THEN StepLevel(s.level, -Rules.step)
                      ELSE s.level,
            onTime |-> IF RewardDue(v, s) THEN 0 ELSE s.onTime + 1,
            late |-> 0, last |-> day]
      [] v = "LATE" ->
           [level |-> IF PenaltyDue(v, s) THEN StepLevel(s.level, Rules.step)
                      ELSE s.level,
            onTime |-> 0,
            late |-> IF PenaltyDue(v, s) THEN 0 ELSE s.late + 1, last |-> day]
      [] OTHER -> s

Logged(c, from, to, source, app) ==
    changes' = Append(changes, [customer |-> c, from |-> from, to |-> to,
                                at |-> Len(records'), source |-> source,
                                app |-> app])

(* notifyRuleChange.  The key of a notification is made of the customer,   *)
(* the recipient and the text, and the text names the two levels; a key    *)
(* that is there already is left alone.                                    *)
Announce(c, from, to) ==
    notified' = notified \cup {[customer |-> c, from |-> from, to |-> to]}

UnrecordedAsSeen(id, seen) ==
    \A i \in 1..Len(records) : i <= seen => records[i].payment # id

(* The unique keys of the records: a second insert fails and its           *)
(* transaction is undone, however old the snapshot it looked at.           *)
Unrecorded(id, seen) == \A i \in 1..Len(records) : records[i].payment # id

(* The evaluation of a payment.  The record of an unavailable customer     *)
(* would say IGNORED_CUSTOMER_UNAVAILABLE, which is longer than its column *)
(* (VARCHAR(24), migration 000105): the insert fails, nothing is recorded. *)
Evaluate(e, seen) ==
    /\ e.of = NoPayment
    /\ Unrecorded(e.id, seen)
    /\ Available(e.customer)
    /\ LET s == credit[e.customer]
           v == Verdict(e, s)
           n == Scored(v, s, e.day)
       IN /\ records' = Append(records,
                [payment |-> e.id, customer |-> e.customer, verdict |-> v,
                 of |-> NoPayment, prev |-> s, result |-> n,
                 reversed |-> FALSE])
          /\ credit' = [credit EXCEPT ![e.customer] = n]
          /\ IF RewardDue(v, s) \/ PenaltyDue(v, s)
             THEN Logged(e.customer, s.level, n.level,
                         IF n.level = s.level THEN "RULE_CAP" ELSE "RULE", 0)
             ELSE UNCHANGED changes
          /\ IF n.level = s.level THEN UNCHANGED notified
             ELSE Announce(e.customer, s.level, n.level)

ReversibleAnytime(o, c, seen) ==
    records[o].verdict \in {"ONTIME", "LATE"} /\ ~records[o].reversed

(* processReversal, for the record o of the payment e.of and the customer  *)
(* c = e.customer: the code never compares c with the customer of the      *)
(* record.  The locks make it see the record and the customer as they are, *)
(* but the records counted as later are those of its snapshot.             *)
ReversibleNow(o, c, seen) ==
    /\ records[o].verdict \in {"ONTIME", "LATE"}
    /\ ~records[o].reversed
    /\ \A i \in o+1..Len(records) : i <= seen => records[i].customer # c

Reversible(o, c, seen) ==
    /\ ReversibleNow(o, c, seen)
    /\ credit[c] = records[o].result

Reverse(e, seen) ==
    /\ Unrecorded(e.id, seen)
    /\ Available(e.customer)
    /\ \E o \in 1..Len(records) :
          LET c == e.customer  s == credit[c]  r == records[o] IN
          /\ r.payment = e.of
          /\ Reversible(o, c, seen)
          /\ records' = Append([records EXCEPT ![o].reversed = TRUE],
                [payment |-> e.id, customer |-> c, verdict |-> "REVERSED",
                 of |-> r.payment, prev |-> s, result |-> r.prev,
                 reversed |-> FALSE])
          /\ credit' = [credit EXCEPT ![c] = r.prev]
          /\ Logged(c, s.level, r.prev.level, "REVERSAL", 0)
          /\ IF r.prev.level = s.level THEN UNCHANGED notified
             ELSE Announce(c, s.level, r.prev.level)

Process(e, seen) ==
    /\ Len(records) + Len(apps) < MaxRows
    /\ Evaluate(e, seen) \/ Reverse(e, seen)
    /\ UNCHANGED <<status, settings, apps>>

(* ProcessPayment of a tenant with settings: one payment at a time.  An    *)
(* event that is recorded already, and one that is refused, changes        *)
(* nothing.                                                                *)
ProcessPayment(e) ==
    /\ settings # NoSettings
    /\ Process(e, Len(records))
    /\ UNCHANGED tx

(* ProcessPayment of a tenant without settings, up to the customer's lock. *)
BeginPayment(w, e) ==
    /\ settings = NoSettings
    /\ tx[w] = Idle
    /\ UnrecordedAsSeen(e.id, Len(records))
    /\ tx' = [tx EXCEPT ![w] = [event |-> e, seen |-> Len(records)]]
    /\ UNCHANGED <<status, credit, settings, records, changes, apps, notified>>

CommitPayment(w) ==
    /\ tx[w] # Idle
    /\ Process(tx[w].event, tx[w].seen)
    /\ tx' = [tx EXCEPT ![w] = Idle]

(* The transaction is undone: a refusal, a duplicate or a lost connection. *)
RollbackPayment(w) ==
    /\ tx[w] # Idle
    /\ tx' = [tx EXCEPT ![w] = Idle]
    /\ UNCHANGED <<status, credit, settings, records, changes, apps, notified>>

(* UpdateRuleSettings; a form that is older than the row is refused.  The  *)
(* first row is inserted into a gap that waiting payments hold locked.     *)
UpdateRuleSettings(r) ==
    /\ settings = NoSettings => \A w \in Workers : tx[w] = Idle
    /\ settings' = r
    /\ UNCHANGED <<status, credit, records, changes, apps, notified, tx>>

-----------------------------------------------------------------------------
(* Applications.                                                           *)

(* The unique key of pending_customer_id, empty once decided or withdrawn. *)
NonePending(c) ==
    \A i \in 1..Len(apps) : apps[i].pending => apps[i].customer # c

(* Apply.  The key of an earlier application answers that application, or  *)
(* a conflict, and changes nothing.                                        *)
Apply(k, c, t) ==
    /\ Len(records) + Len(apps) < MaxRows
    /\ \A i \in 1..Len(apps) : apps[i].key # k
    /\ Available(c)
    /\ credit[c].level # t
    /\ NonePending(c)
    /\ apps' = Append(apps, [customer |-> c, key |-> k,
                  from |-> credit[c].level, target |-> t, status |-> "PENDING",
                  task |-> "PENDING", instance |-> "PENDING",
                  pending |-> TRUE])
    /\ UNCHANGED <<status, credit, settings, records, changes, notified, tx>>

CloseWithoutTask(i, s) ==
    apps' = [apps EXCEPT ![i].status = s, ![i].instance = s,
                         ![i].pending = FALSE]

(* A decision or a withdrawal closes application, task and instance.       *)
Close(i, s) ==
    apps' = [apps EXCEPT ![i].status = s, ![i].task = s, ![i].instance = s,
                         ![i].pending = FALSE]

StillAtAnyLevel(i) == TRUE

(* An approval is for the level the application was written against.       *)
StillAtFrom(i) == credit[apps[i].customer].level = apps[i].from

(* Decide: an approval whose customer has another level by now is          *)
(* invalidated.  The version of an application is 1 while it is pending.   *)
Decide(i, approve) ==
    LET a == apps[i] IN
    /\ a.status = "PENDING"
    /\ Available(a.customer)
    /\ \/ /\ approve /\ StillAtFrom(i)
          /\ Close(i, "APPROVED")
          /\ credit' = [credit EXCEPT ![a.customer] =
                [@ EXCEPT !.level = a.target, !.onTime = 0, !.late = 0]]
          /\ UNCHANGED records
          /\ Logged(a.customer, a.from, a.target, "MANUAL", i)
       \/ /\ approve /\ ~StillAtFrom(i)
          /\ Close(i, "INVALIDATED")
          /\ UNCHANGED <<credit, records, changes>>
       \/ /\ ~approve
          /\ Close(i, "REJECTED")
          /\ UNCHANGED <<credit, records, changes>>
    /\ UNCHANGED <<status, settings, notified, tx>>

(* Withdraw, by the applicant; it needs no available customer.             *)
Withdraw(i) ==
    /\ apps[i].status = "PENDING"
    /\ Close(i, "WITHDRAWN")
    /\ UNCHANGED <<status, credit, settings, records, changes, notified, tx>>

-----------------------------------------------------------------------------
(* The customer module voids, restores and merges customers; credit rows   *)
(* stay as they are.                                                       *)
ChangeStatus(c, s) ==
    /\ \/ status[c] = "ACTIVE" /\ s \in {"VOID", "MERGED"}
       \/ status[c] = "VOID" /\ s = "ACTIVE"
    /\ status' = [status EXCEPT ![c] = s]
    /\ UNCHANGED <<credit, settings, records, changes, apps, notified, tx>>

CreditNext ==
    \/ \E e \in Events : ProcessPayment(e)
    \/ \E w \in Workers, e \in Events : BeginPayment(w, e)
    \/ \E w \in Workers : CommitPayment(w)
    \/ \E w \in Workers : RollbackPayment(w)
    \/ \E r \in RuleChoices : UpdateRuleSettings(r)
    \/ \E k \in Keys, c \in Customers, t \in Levels : Apply(k, c, t)
    \/ \E i \in 1..Len(apps), b \in BOOLEAN : Decide(i, b)
    \/ \E i \in 1..Len(apps) : Withdraw(i)
    \/ \E c \in Customers, s \in {"ACTIVE", "VOID", "MERGED"} :
          ChangeStatus(c, s)

CreditSpec == CreditInit /\ [][CreditNext]_vars

-----------------------------------------------------------------------------
(* Properties.                                                             *)

(* No payment counts twice, however often and however concurrently its     *)
(* event is delivered: one record per payment, and one reversal for a      *)
(* payment that is marked as reversed (ProcessPayment, processReversal).   *)
OncePerPayment ==
    /\ \A i, j \in 1..Len(records) :
          records[i].payment = records[j].payment => i = j
    /\ \A i \in 1..Len(records) :
          records[i].reversed <=>
             \E j \in 1..Len(records) :
                /\ records[j].verdict = "REVERSED"
                /\ records[j].of = records[i].payment
    /\ \A i, j \in 1..Len(records) :
          /\ records[i].verdict = "REVERSED" /\ records[j].verdict = "REVERSED"
          /\ records[i].of = records[j].of
          => i = j

(* The first n entries of a log take customer c to a level.                *)
LeadsTo(log, c, n, level) ==
    \/ /\ \A i \in 1..n : log[i].customer # c
       /\ level = Initial
    \/ \E j \in 1..n :
         /\ log[j].customer = c /\ log[j].to = level
         /\ \A i \in j+1..n : log[i].customer # c

(* The credit log explains the level: it starts at the initial level, each *)
(* entry begins where the one before ended and the last one ends at the    *)
(* level of the customer (the CreditLog rows of every writer).             *)
LevelFollowsLog ==
    \A c \in Customers :
        /\ LeadsTo(changes, c, Len(changes), credit[c].level)
        /\ \A k \in 1..Len(changes) : changes[k].customer = c =>
              LeadsTo(changes, c, k - 1, changes[k].from)

(* Record i is a payment of c that counts.                                 *)
CountsIn(log, c, i) ==
    /\ log[i].customer = c
    /\ log[i].verdict \in {"ONTIME", "LATE"} /\ ~log[i].reversed

(* The payments of c that count among the first n records leave date d.    *)
LastAfter(log, c, n, d) ==
    \/ /\ \A i \in 1..n : ~CountsIn(log, c, i)
       /\ d = 0
    \/ \E j \in 1..n :
         /\ CountsIn(log, c, j) /\ log[j].result.last = d /\ d > 0
         /\ \A i \in j+1..n : ~CountsIn(log, c, i)

(* Date d of customer c is that of the latest payment that still counts,   *)
(* each payment that counts holds the date it found and will put back, and *)
(* none is older than the one before it.                                   *)
DatesOf(log, c, d) ==
    /\ LastAfter(log, c, Len(log), d)
    /\ \A k \in 1..Len(log) : CountsIn(log, c, k) =>
          LastAfter(log, c, k - 1, log[k].prev.last)
    /\ \A i, j \in 1..Len(log) :
          CountsIn(log, c, i) /\ CountsIn(log, c, j) /\ i < j
             => log[i].result.last <= log[j].result.last

DatesAgree == \A c \in Customers : DatesOf(records, c, credit[c].last)

(* The settlement system reverses a payment for the customer who paid it.  *)
PayersAgree ==
    \A i, j \in 1..Len(records) :
        records[j].verdict = "REVERSED" /\ records[j].of = records[i].payment
            => records[j].customer = records[i].customer

(* In a tenant that has saved its settings nothing disturbs the dates:     *)
(* late arrivals, reversals, decisions and changed settings leave no gap   *)
(* and no ghost behind in the date that decides which payments are ignored *)
(* (ProcessPayment, processReversal and their lock of the settings row).   *)
DatesKept ==
    [][settings # NoSettings /\ DatesAgree /\ PayersAgree'
          => DatesAgree']_vars


(* Application, approval instance and approval task tell one story, at     *)
(* most one application of a customer is open, and an application is       *)
(* approved exactly when one manual change of the log carries it out       *)
(* (Apply, Decide, Withdraw).                                              *)
ApplicationsAgree ==
    /\ \A i \in 1..Len(apps) :
          /\ apps[i].task = apps[i].status /\ apps[i].instance = apps[i].status
          /\ apps[i].pending <=> apps[i].status = "PENDING"
          /\ apps[i].status = "APPROVED" <=>
                \E k \in 1..Len(changes) :
                    /\ changes[k].source = "MANUAL" /\ changes[k].app = i
                    /\ changes[k].customer = apps[i].customer
                    /\ changes[k].from = apps[i].from
                    /\ changes[k].to = apps[i].target
    /\ \A k, l \in 1..Len(changes) :
          /\ changes[k].source = "MANUAL" /\ changes[l].source = "MANUAL"
          /\ changes[k].app = changes[l].app
          => k = l
    /\ \A i, j \in 1..Len(apps) :
          /\ apps[i].status = "PENDING" /\ apps[j].status = "PENDING"
          /\ apps[i].customer = apps[j].customer
          => i = j

=============================================================================
