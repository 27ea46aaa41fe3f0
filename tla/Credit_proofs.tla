--------------------------- MODULE Credit_proofs ---------------------------
(***************************************************************************)
(* Proofs about Credit, for every set of customers and events, every rule  *)
(* setting and every number of concurrent transactions.                    *)
(***************************************************************************)
EXTENDS Credit, TLAPS

USE CreditAssumption DEF Levels

-----------------------------------------------------------------------------
(* The tables are sequences that grow at the end and whose rows are        *)
(* rewritten in place.                                                     *)
LEMMA Row == ASSUME NEW S, NEW q \in Seq(S), NEW i \in 1..Len(q)
             PROVE  q[i] \in S
  OBVIOUS

LEMMA Grown ==
  ASSUME NEW S, NEW q \in Seq(S), NEW x \in S
  PROVE  /\ Append(q, x) \in Seq(S)
         /\ Len(Append(q, x)) = Len(q) + 1
         /\ \A i \in 1..Len(q) : Append(q, x)[i] = q[i]
         /\ Append(q, x)[Len(q) + 1] = x
  OBVIOUS

LEMMA Rewritten ==
  ASSUME NEW S, NEW q \in Seq(S), NEW i \in 1..Len(q), NEW x \in S
  PROVE  /\ [q EXCEPT ![i] = x] \in Seq(S)
         /\ Len([q EXCEPT ![i] = x]) = Len(q)
         /\ [q EXCEPT ![i] = x][i] = x
         /\ \A j \in 1..Len(q) : j # i => [q EXCEPT ![i] = x][j] = q[j]
  OBVIOUS

(* A step that records a payment or a reversal.                            *)
LEMMA EvaluateMoves ==
  ASSUME CreditTypeOK, NEW e \in Events, NEW n \in Nat, Evaluate(e, n)
  PROVE  /\ credit' \in [Customers -> States]
         /\ records' \in Seq(Records)
         /\ changes' \in Seq(Changes)
         /\ notified' \in SUBSET Announcements
  <1> DEFINE c == e.customer
             s == credit[c]
             v == Verdict(e, s)
             new == Scored(v, s, e.day)
             r == [payment |-> e.id, customer |-> c, verdict |-> v,
                   of |-> NoPayment, prev |-> s, result |-> new,
                   reversed |-> FALSE]
  <1>1. /\ e.id \in Payments /\ c \in Customers /\ e.day \in 0..MaxDay
        /\ e.delay \in 0..MaxDelay
    BY DEF Events
  <1>2. s \in States /\ v \in {"ONTIME", "LATE", "IGNORED"}
    BY <1>1 DEF CreditTypeOK, Verdict
  <1>3. Rules \in RuleSettings
    BY DEF Rules, CreditTypeOK
  <1>4. \A d \in {Rules.step, -Rules.step} : StepLevel(s.level, d) \in Levels
    BY <1>2, <1>3 DEF StepLevel, States, RuleSettings
  <1>5. new \in States
    BY <1>1, <1>2, <1>3, <1>4 DEF Scored, States
  <1>6. r \in Records
    BY <1>1, <1>2, <1>5 DEF Records, Verdicts
  <1>7. records' = Append(records, r) /\ records' \in Seq(Records)
    BY <1>6 DEF Evaluate, CreditTypeOK
  <1>8. credit' \in [Customers -> States]
    BY <1>1, <1>5 DEF Evaluate, CreditTypeOK
  <1>9. changes' \in Seq(Changes)
    <2> DEFINE src == IF new.level = s.level THEN "RULE_CAP" ELSE "RULE"
               x == [customer |-> c, from |-> s.level, to |-> new.level,
                     at |-> Len(records'), source |-> src, app |-> 0]
    <2>1. x \in Changes
      BY <1>1, <1>2, <1>5, <1>7 DEF Changes, States
    <2>2. changes' = changes \/ changes' = Append(changes, x)
      BY DEF Evaluate, Logged
    <2>3. changes \in Seq(Changes)
      BY DEF CreditTypeOK
    <2> HIDE DEF x
    <2> QED
      BY <2>1, <2>2, <2>3, Grown
  <1>10. notified' \in SUBSET Announcements
    <2>1. [customer |-> c, from |-> s.level, to |-> new.level] \in Announcements
      BY <1>1, <1>2, <1>5 DEF Announcements, States
    <2>2. \/ notified' = notified
          \/ notified' = notified \cup
                {[customer |-> c, from |-> s.level, to |-> new.level]}
      BY DEF Evaluate, Announce
    <2> QED
      BY <2>1, <2>2, Zenon DEF CreditTypeOK
  <1> QED
    BY <1>7, <1>8, <1>9, <1>10

LEMMA ReverseMoves ==
  ASSUME CreditTypeOK, NEW e \in Events, NEW n \in Nat, Reverse(e, n)
  PROVE  /\ credit' \in [Customers -> States]
         /\ records' \in Seq(Records)
         /\ changes' \in Seq(Changes)
         /\ notified' \in SUBSET Announcements
  <1>1. PICK o \in 1..Len(records) :
          LET r == records[o]  s == credit[e.customer] IN
          /\ records' = Append([records EXCEPT ![o].reversed = TRUE],
                [payment |-> e.id, customer |-> e.customer,
                 verdict |-> "REVERSED", of |-> r.payment, prev |-> s,
                 result |-> r.prev, reversed |-> FALSE])
          /\ credit' = [credit EXCEPT ![e.customer] = r.prev]
          /\ Logged(e.customer, s.level, r.prev.level, "REVERSAL", 0)
          /\ IF r.prev.level = s.level THEN UNCHANGED notified
             ELSE Announce(e.customer, s.level, r.prev.level)
    BY DEF Reverse
  <1> DEFINE r == records[o]
             s == credit[e.customer]
             new == [payment |-> e.id, customer |-> e.customer,
                     verdict |-> "REVERSED", of |-> r.payment, prev |-> s,
                     result |-> r.prev, reversed |-> FALSE]
             x == [customer |-> e.customer, from |-> s.level,
                   to |-> r.prev.level, at |-> Len(records'),
                   source |-> "REVERSAL", app |-> 0]
             marked == [records EXCEPT ![o].reversed = TRUE]
  <1>2. r \in Records /\ e.customer \in Customers /\ s \in States
        /\ r.prev \in States /\ r.payment \in Payments
    <2>1. r \in Records
      BY Row DEF CreditTypeOK
    <2>2. e.customer \in Customers /\ r.prev \in States /\ r.payment \in Payments
      BY <2>1 DEF Records, Events
    <2> QED
      BY <2>1, <2>2 DEF CreditTypeOK
  <1>3. new \in Records
    BY <1>2 DEF Records, Verdicts, Events
  <1>4. marked \in Seq(Records)
    <2>1. [r EXCEPT !.reversed = TRUE] \in Records
      BY <1>2 DEF Records
    <2> QED
      BY <2>1 DEF CreditTypeOK
  <1>5. records' \in Seq(Records)
    BY <1>1, <1>3, <1>4
  <1>6. x \in Changes
    BY <1>2, <1>5 DEF Changes, States
  <1>7. changes' \in Seq(Changes)
    BY <1>1, <1>6 DEF Logged, CreditTypeOK
  <1>8. notified' \in SUBSET Announcements
    <2>1. [customer |-> e.customer, from |-> s.level, to |-> r.prev.level]
             \in Announcements
      BY <1>2 DEF Announcements, States
    <2>2. \/ notified' = notified
          \/ notified' = notified \cup
                {[customer |-> e.customer, from |-> s.level,
                  to |-> r.prev.level]}
      BY <1>1 DEF Announce
    <2> QED
      BY <2>1, <2>2, Zenon DEF CreditTypeOK
  <1>9. credit' \in [Customers -> States]
    BY <1>1, <1>2 DEF CreditTypeOK
  <1> QED
    BY <1>5, <1>7, <1>8, <1>9

LEMMA CloseType ==
  ASSUME CreditTypeOK, NEW i \in 1..Len(apps), NEW s \in AppStatuses,
         Close(i, s)
  PROVE  apps' \in Seq(Applications)
  <1> DEFINE y == [apps[i] EXCEPT !.status = s, !.task = s, !.instance = s,
                                  !.pending = FALSE]
  <1>1. apps \in Seq(Applications) /\ apps[i] \in Applications
    BY Row DEF CreditTypeOK
  <1>2. y \in Applications
    BY <1>1 DEF Applications
  <1>3. apps' = [apps EXCEPT ![i] = y]
    BY <1>1 DEF Close
  <1> HIDE DEF y
  <1> QED
    BY <1>1, <1>2, <1>3, Rewritten

LEMMA DecideType ==
  ASSUME CreditTypeOK, NEW i \in 1..Len(apps), NEW b \in BOOLEAN, Decide(i, b)
  PROVE  /\ credit' \in [Customers -> States]
         /\ changes' \in Seq(Changes)
         /\ apps' \in Seq(Applications)
  <1> DEFINE a == apps[i]
  <1>1. a \in Applications /\ a.customer \in Customers /\ a.target \in Levels
    <2>1. a \in Applications
      BY Row DEF CreditTypeOK
    <2> QED
      BY <2>1 DEF Applications
  <1>2. \A s \in AppStatuses : Close(i, s) => apps' \in Seq(Applications)
    BY CloseType
  <1>3. CASE /\ Close(i, "APPROVED")
             /\ credit' = [credit EXCEPT ![a.customer] =
                   [@ EXCEPT !.level = a.target, !.onTime = 0, !.late = 0]]
             /\ UNCHANGED records
             /\ Logged(a.customer, a.from, a.target, "MANUAL", i)
    <2>1. credit' \in [Customers -> States]
      <3> DEFINE s == credit[a.customer]
                 t == [s EXCEPT !.level = a.target, !.onTime = 0, !.late = 0]
      <3>1. s \in States
        BY <1>1 DEF CreditTypeOK
      <3>2. t \in States
        BY <1>1, <3>1 DEF States
      <3>3. credit' = [credit EXCEPT ![a.customer] = t]
        BY <1>1, <1>3
      <3> HIDE DEF t, s
      <3> QED
        BY <1>1, <3>2, <3>3 DEF CreditTypeOK
    <2>2. changes' \in Seq(Changes)
      <3>1. [customer |-> a.customer, from |-> a.from, to |-> a.target,
             at |-> Len(records'), source |-> "MANUAL", app |-> i] \in Changes
        BY <1>1, <1>3 DEF Changes, Applications, CreditTypeOK
      <3> QED
        BY <1>3, <3>1 DEF Logged, CreditTypeOK
    <2> QED
      BY <1>2, <1>3, <2>1, <2>2 DEF AppStatuses
  <1>4. CASE /\ Close(i, "INVALIDATED") \/ Close(i, "REJECTED")
             /\ UNCHANGED <<credit, records, changes>>
    BY <1>2, <1>4 DEF AppStatuses, CreditTypeOK
  <1> QED
    BY <1>3, <1>4 DEF Decide

(* The types hold of every reachable state.                                *)
LEMMA TypeInit == CreditInit => CreditTypeOK
  BY DEF CreditInit, CreditTypeOK, States, Initial

LEMMA TypeStep == CreditTypeOK /\ [CreditNext]_vars => CreditTypeOK'
  <1> SUFFICES ASSUME CreditTypeOK, [CreditNext]_vars PROVE CreditTypeOK'
    OBVIOUS
  <1>0. \A e \in Events, n \in Nat : Process(e, n) =>
           /\ status' \in [Customers -> {"ACTIVE", "VOID", "MERGED"}]
           /\ credit' \in [Customers -> States]
           /\ settings' \in RuleChoices \cup {NoSettings}
           /\ records' \in Seq(Records)
           /\ changes' \in Seq(Changes)
           /\ apps' \in Seq(Applications)
           /\ notified' \in SUBSET Announcements
    <2> TAKE e \in Events, n \in Nat
    <2> HAVE Process(e, n)
    <2> QED
      BY EvaluateMoves, ReverseMoves DEF Process, CreditTypeOK
  <1>1. ASSUME NEW e \in Events, ProcessPayment(e) PROVE CreditTypeOK'
    BY <1>0, <1>1 DEF ProcessPayment, CreditTypeOK
  <1>2. ASSUME NEW w \in Workers, NEW e \in Events, BeginPayment(w, e)
        PROVE  CreditTypeOK'
    BY <1>2 DEF BeginPayment, CreditTypeOK
  <1>3. ASSUME NEW w \in Workers, CommitPayment(w) PROVE CreditTypeOK'
    <2>1. tx[w].event \in Events /\ tx[w].seen \in Nat
      BY <1>3 DEF CommitPayment, CreditTypeOK
    <2>2. tx' \in [Workers -> [event : Events, seen : Nat] \cup {Idle}]
      BY <1>3 DEF CommitPayment, CreditTypeOK
    <2> QED
      BY <1>0, <1>3, <2>1, <2>2 DEF CommitPayment, CreditTypeOK
  <1>4. ASSUME NEW w \in Workers, RollbackPayment(w) PROVE CreditTypeOK'
    BY <1>4 DEF RollbackPayment, CreditTypeOK
  <1>5. ASSUME NEW r \in RuleChoices, UpdateRuleSettings(r)
        PROVE  CreditTypeOK'
    BY <1>5 DEF UpdateRuleSettings, CreditTypeOK
  <1>6. ASSUME NEW k \in Keys, NEW c \in Customers, NEW t \in Levels,
               Apply(k, c, t)
        PROVE  CreditTypeOK'
    <2>1. [customer |-> c, key |-> k, from |-> credit[c].level, target |-> t,
           status |-> "PENDING", task |-> "PENDING", instance |-> "PENDING",
           pending |-> TRUE] \in Applications
      BY DEF Applications, AppStatuses, CreditTypeOK, States
    <2>2. apps' \in Seq(Applications)
      BY <1>6, <2>1 DEF Apply, CreditTypeOK
    <2> QED
      BY <1>6, <2>2 DEF Apply, CreditTypeOK
  <1>7. ASSUME NEW i \in 1..Len(apps), NEW b \in BOOLEAN, Decide(i, b)
        PROVE  CreditTypeOK'
    <2>1. UNCHANGED <<status, settings, records, notified, tx>>
      BY <1>7 DEF Decide
    <2> QED
      BY <1>7, <2>1, DecideType DEF CreditTypeOK
  <1>8. ASSUME NEW i \in 1..Len(apps), Withdraw(i) PROVE CreditTypeOK'
    <2>2. apps' \in Seq(Applications)
      BY <1>8, CloseType DEF Withdraw, AppStatuses
    <2> QED
      BY <1>8, <2>2 DEF Withdraw, CreditTypeOK
  <1>9. ASSUME NEW c \in Customers, NEW s \in {"ACTIVE", "VOID", "MERGED"},
               ChangeStatus(c, s)
        PROVE  CreditTypeOK'
    BY <1>9 DEF ChangeStatus, CreditTypeOK
  <1>10. CASE UNCHANGED vars
    BY <1>10 DEF vars, CreditTypeOK
  <1> QED
    BY <1>1, <1>2, <1>3, <1>4, <1>5, <1>6, <1>7, <1>8, <1>9, <1>10
    DEF CreditNext

(* Every row keeps its shape: levels stay between A and D however far the  *)
(* rules step, and a snapshot is a possible state of a customer.           *)
THEOREM CreditTypeCorrect == CreditSpec => []CreditTypeOK
  BY TypeInit, TypeStep, PTL DEF CreditSpec

-----------------------------------------------------------------------------
(* One record per payment.                                                 *)

ReversalsNameRecords ==
    \A j \in 1..Len(records) : records[j].verdict = "REVERSED" =>
        \E i \in 1..Len(records) : records[i].payment = records[j].of

PaymentInv == OncePerPayment /\ ReversalsNameRecords

(* A payment is recorded under an id that is new.                          *)
LEMMA EvaluateOnce ==
  ASSUME CreditTypeOK, PaymentInv, NEW e \in Events, NEW n \in Nat,
         Evaluate(e, n)
  PROVE  PaymentInv'
  <1> DEFINE s == credit[e.customer]
             v == Verdict(e, s)
             r == [payment |-> e.id, customer |-> e.customer, verdict |-> v,
                   of |-> NoPayment, prev |-> s, result |-> Scored(v, s, e.day),
                   reversed |-> FALSE]
  <1>1. records' = Append(records, r) /\ Unrecorded(e.id, n)
    BY DEF Evaluate
  <1>2. r.payment = e.id /\ r.verdict # "REVERSED" /\ ~r.reversed
    BY DEF Verdict
  <1> HIDE DEF r
  <1>3. /\ Len(records') = Len(records) + 1 /\ Len(records) \in Nat
        /\ records'[Len(records) + 1] = r
        /\ \A i \in 1..Len(records) : records'[i] = records[i]
    BY <1>1 DEF CreditTypeOK
  <1>4. \A i \in 1..Len(records) : records[i].payment # e.id
    BY <1>1 DEF Unrecorded
  <1>5. \A i \in 1..Len(records) :
           records[i].verdict = "REVERSED" => records[i].of # e.id
    BY <1>4 DEF PaymentInv, ReversalsNameRecords
  <1>6. ReversalsNameRecords'
    BY <1>2, <1>3 DEF PaymentInv, ReversalsNameRecords
  <1>7. OncePerPayment'
    <2>1. \A i, j \in 1..Len(records') :
             records'[i].payment = records'[j].payment => i = j
      BY <1>2, <1>3, <1>4 DEF PaymentInv, OncePerPayment
    <2>2. \A i \in 1..Len(records') :
             records'[i].reversed <=>
                \E j \in 1..Len(records') :
                   /\ records'[j].verdict = "REVERSED"
                   /\ records'[j].of = records'[i].payment
      <3> TAKE i \in 1..Len(records')
      <3>1. CASE i \in 1..Len(records)
        <4>1. records[i].reversed <=>
                \E j \in 1..Len(records) :
                   /\ records[j].verdict = "REVERSED"
                   /\ records[j].of = records[i].payment
          BY <3>1 DEF PaymentInv, OncePerPayment
        <4>2. \A j \in 1..Len(records') :
                 j \in 1..Len(records) \/ j = Len(records) + 1
          BY <1>3
        <4> QED
          BY <1>2, <1>3, <3>1, <4>1, <4>2
      <3>2. CASE i = Len(records) + 1
        BY <1>2, <1>3, <1>5, <3>2
      <3> QED
        BY <1>3, <3>1, <3>2
    <2>3. \A i, j \in 1..Len(records') :
             /\ records'[i].verdict = "REVERSED"
             /\ records'[j].verdict = "REVERSED"
             /\ records'[i].of = records'[j].of
             => i = j
      BY <1>2, <1>3 DEF PaymentInv, OncePerPayment
    <2> QED
      BY <2>1, <2>2, <2>3 DEF OncePerPayment
  <1> QED
    BY <1>6, <1>7 DEF PaymentInv

(* A reversal marks its payment, which had none before.                    *)
LEMMA ReverseOnce ==
  ASSUME CreditTypeOK, PaymentInv, NEW e \in Events, NEW n \in Nat,
         Reverse(e, n)
  PROVE  PaymentInv'
  <1>1. PICK o \in 1..Len(records) :
          LET r == records[o]  s == credit[e.customer] IN
          /\ Reversible(o, e.customer, n)
          /\ records' = Append([records EXCEPT ![o].reversed = TRUE],
                [payment |-> e.id, customer |-> e.customer,
                 verdict |-> "REVERSED", of |-> r.payment, prev |-> s,
                 result |-> r.prev, reversed |-> FALSE])
    BY DEF Reverse
  <1> DEFINE r == [payment |-> e.id, customer |-> e.customer,
                   verdict |-> "REVERSED", of |-> records[o].payment,
                   prev |-> credit[e.customer],
                   result |-> records[o].prev, reversed |-> FALSE]
             marked == [records[o] EXCEPT !.reversed = TRUE]
             q == [records EXCEPT ![o] = marked]
  <1>2. records \in Seq(Records) /\ records[o] \in Records
    BY Row DEF CreditTypeOK
  <1>3. /\ marked \in Records /\ marked.reversed
        /\ marked.payment = records[o].payment /\ marked.of = records[o].of
        /\ marked.verdict = records[o].verdict
    BY <1>2 DEF Records
  <1>4. /\ r.payment = e.id /\ r.verdict = "REVERSED" /\ ~r.reversed
        /\ r.of = records[o].payment
    OBVIOUS
  <1>5. records' = Append(q, r)
    BY <1>1
  <1> HIDE DEF r, marked
  <1>6. /\ Len(q) = Len(records) /\ Len(records) \in Nat /\ q[o] = marked
        /\ \A j \in 1..Len(records) : j # o => q[j] = records[j]
        /\ q \in Seq(Records)
    BY <1>2, <1>3, Rewritten
  <1> HIDE DEF q
  <1>7. /\ Len(records') = Len(records) + 1
        /\ records'[Len(records) + 1] = r
        /\ \A i \in 1..Len(records) : records'[i] = q[i]
    BY <1>5, <1>6
  <1>8. \A i \in 1..Len(records) :
           /\ records'[i].payment = records[i].payment
           /\ records'[i].of = records[i].of
           /\ records'[i].verdict = records[i].verdict
           /\ i # o => records'[i] = records[i]
    BY <1>3, <1>6, <1>7
  <1>9. records'[o].reversed
    BY <1>3, <1>6, <1>7
  <1>10. \A i \in 1..Len(records) : records[i].payment # e.id
    BY DEF Reverse, Unrecorded
  <1>11. ~records[o].reversed
    BY <1>1 DEF Reversible, ReversibleNow
  <1>12. \A j \in 1..Len(records) : records[j].verdict = "REVERSED" =>
            records[j].of # records[o].payment /\ records[j].of # e.id
    BY <1>10, <1>11 DEF PaymentInv, OncePerPayment, ReversalsNameRecords
  <1>13. \A j \in 1..Len(records') :
            j \in 1..Len(records) \/ j = Len(records) + 1
    BY <1>6, <1>7
  <1>14. 1..Len(records) \subseteq 1..Len(records')
    BY <1>6, <1>7
  <1>15. ReversalsNameRecords'
    <2> SUFFICES ASSUME NEW j \in 1..Len(records'),
                        records'[j].verdict = "REVERSED"
                 PROVE  \E i \in 1..Len(records') :
                           records'[i].payment = records'[j].of
      BY DEF ReversalsNameRecords
    <2>1. CASE j = Len(records) + 1
      BY <1>4, <1>6, <1>7, <1>8, <2>1
    <2>2. CASE j \in 1..Len(records)
      <3>1. PICK i \in 1..Len(records) : records[i].payment = records[j].of
        BY <1>8, <2>2 DEF PaymentInv, ReversalsNameRecords
      <3> QED
        BY <1>6, <1>7, <1>8, <2>2, <3>1
    <2> QED
      BY <1>6, <1>7, <2>1, <2>2
  <1>16. OncePerPayment'
    <2>1. \A i, j \in 1..Len(records') :
             records'[i].payment = records'[j].payment => i = j
      <3>1. \A i, j \in 1..Len(records) :
               records[i].payment = records[j].payment => i = j
        BY DEF PaymentInv, OncePerPayment
      <3>2. \A i \in 1..Len(records) :
               records'[i].payment # records'[Len(records) + 1].payment
        BY <1>4, <1>7, <1>8, <1>10
      <3> QED
        BY <1>8, <1>13, <3>1, <3>2
    <2>2. \A i \in 1..Len(records') :
             records'[i].reversed <=>
                \E j \in 1..Len(records') :
                   /\ records'[j].verdict = "REVERSED"
                   /\ records'[j].of = records'[i].payment
      <3> TAKE i \in 1..Len(records')
      <3>1. CASE i = o
        <4>1. /\ records'[Len(records) + 1].verdict = "REVERSED"
              /\ records'[Len(records) + 1].of = records'[i].payment
          BY <1>4, <1>7, <1>8, <3>1
        <4> QED
          BY <1>6, <1>7, <1>9, <3>1, <4>1
      <3>2. CASE i = Len(records) + 1
        <4>1. \A j \in 1..Len(records) :
                 records'[j].verdict = "REVERSED" => records'[j].of # e.id
          BY <1>8, <1>12
        <4>2. records'[Len(records) + 1].of # e.id
          BY <1>4, <1>7, <1>10
        <4> QED
          BY <1>4, <1>6, <1>7, <3>2, <4>1, <4>2
      <3>3. CASE i \in 1..Len(records) /\ i # o
        <4>1. records[i].payment # records[o].payment
          BY <3>3 DEF PaymentInv, OncePerPayment
        <4>2. records'[i].reversed <=>
                \E j \in 1..Len(records) :
                   /\ records[j].verdict = "REVERSED"
                   /\ records[j].of = records[i].payment
          BY <1>8, <3>3 DEF PaymentInv, OncePerPayment
        <4>3. records'[Len(records) + 1].of # records'[i].payment
          BY <1>4, <1>7, <1>8, <3>3, <4>1
        <4>4. (\E j \in 1..Len(records') :
                 /\ records'[j].verdict = "REVERSED"
                 /\ records'[j].of = records'[i].payment)
              <=> \E j \in 1..Len(records) :
                     /\ records[j].verdict = "REVERSED"
                     /\ records[j].of = records[i].payment
          BY <1>8, <1>13, <1>14, <3>3, <4>3
        <4> QED
          BY <4>2, <4>4
      <3> QED
        BY <1>6, <1>7, <3>1, <3>2, <3>3
    <2>3. \A i, j \in 1..Len(records') :
             /\ records'[i].verdict = "REVERSED"
             /\ records'[j].verdict = "REVERSED"
             /\ records'[i].of = records'[j].of
             => i = j
      <3>1. \A i, j \in 1..Len(records) :
               /\ records[i].verdict = "REVERSED"
               /\ records[j].verdict = "REVERSED"
               /\ records[i].of = records[j].of
               => i = j
        BY DEF PaymentInv, OncePerPayment
      <3>2. \A i \in 1..Len(records) : records'[i].verdict = "REVERSED" =>
               records'[i].of # records'[Len(records) + 1].of
        BY <1>4, <1>7, <1>8, <1>12
      <3> QED
        BY <1>8, <1>13, <3>1, <3>2
    <2> QED
      BY <2>1, <2>2, <2>3 DEF OncePerPayment
  <1> QED
    BY <1>15, <1>16 DEF PaymentInv

(* The steps that write no payment record leave the dates of the customers *)
(* alone as well, and the others see everything unless a transaction of a  *)
(* tenant without settings has waited.                                     *)
LEMMA RecordsStep ==
  CreditTypeOK /\ [CreditNext]_vars =>
      \/ /\ UNCHANGED records
         /\ \A c \in Customers : credit'[c].last = credit[c].last
      \/ \E e \in Events, n \in Nat :
            /\ Evaluate(e, n) \/ Reverse(e, n)
            /\ n = Len(records) \/ \E w \in Workers : tx[w] # Idle
  <1> SUFFICES ASSUME CreditTypeOK, [CreditNext]_vars
               PROVE  \/ /\ UNCHANGED records
                         /\ \A c \in Customers : credit'[c].last = credit[c].last
                      \/ \E e \in Events, n \in Nat :
                            /\ Evaluate(e, n) \/ Reverse(e, n)
                            /\ \/ n = Len(records)
                               \/ \E w \in Workers : tx[w] # Idle
    OBVIOUS
  <1>1. ASSUME NEW e \in Events, ProcessPayment(e)
        PROVE  Evaluate(e, Len(records)) \/ Reverse(e, Len(records))
    BY <1>1 DEF ProcessPayment, Process
  <1>2. Len(records) \in Nat
    BY DEF CreditTypeOK
  <1>3. ASSUME NEW w \in Workers, CommitPayment(w)
        PROVE  /\ tx[w].event \in Events /\ tx[w].seen \in Nat
               /\ tx[w] # Idle
               /\ \/ Evaluate(tx[w].event, tx[w].seen)
                  \/ Reverse(tx[w].event, tx[w].seen)
    <2>1. tx[w] \in [event : Events, seen : Nat]
      BY <1>3 DEF CommitPayment, CreditTypeOK
    <2> QED
      BY <1>3, <2>1 DEF CommitPayment, Process
  <1>4. ASSUME \/ \E w \in Workers, e \in Events : BeginPayment(w, e)
               \/ \E w \in Workers : RollbackPayment(w)
               \/ \E r \in RuleChoices : UpdateRuleSettings(r)
               \/ \E k \in Keys, c \in Customers, t \in Levels : Apply(k, c, t)
               \/ \E i \in 1..Len(apps) : Withdraw(i)
               \/ \E c \in Customers, s \in {"ACTIVE", "VOID", "MERGED"} :
                     ChangeStatus(c, s)
               \/ UNCHANGED vars
        PROVE  UNCHANGED <<records, credit>>
    BY <1>4 DEF BeginPayment, RollbackPayment, UpdateRuleSettings, Apply,
                Withdraw, ChangeStatus, vars
  <1>5. ASSUME NEW i \in 1..Len(apps), NEW b \in BOOLEAN, Decide(i, b)
        PROVE  /\ UNCHANGED records
               /\ \A c \in Customers : credit'[c].last = credit[c].last
    <2>1. /\ UNCHANGED records
          /\ \/ UNCHANGED credit
             \/ credit' = [credit EXCEPT ![apps[i].customer] =
                   [@ EXCEPT !.level = apps[i].target, !.onTime = 0, !.late = 0]]
      BY <1>5 DEF Decide
    <2> DEFINE d == apps[i].customer
               t == [credit[d] EXCEPT !.level = apps[i].target, !.onTime = 0,
                                      !.late = 0]
    <2>2. d \in Customers /\ credit \in [Customers -> States]
      <3>1. apps[i] \in Applications
        BY Row DEF CreditTypeOK
      <3> QED
        BY <3>1 DEF Applications, CreditTypeOK
    <2>3. t.last = credit[d].last
      BY <2>2 DEF States
    <2>4. UNCHANGED credit \/ credit' = [credit EXCEPT ![d] = t]
      BY <2>1, <2>2
    <2> HIDE DEF t, d
    <2> QED
      BY <2>1, <2>2, <2>3, <2>4
  <1> QED
    BY <1>1, <1>2, <1>3, <1>4, <1>5 DEF CreditNext

LEMMA PaymentStep == CreditTypeOK /\ PaymentInv /\ [CreditNext]_vars => PaymentInv'
  <1> SUFFICES ASSUME CreditTypeOK, PaymentInv, [CreditNext]_vars
               PROVE  PaymentInv'
    OBVIOUS
  <1>1. CASE UNCHANGED records
    BY <1>1 DEF PaymentInv, OncePerPayment, ReversalsNameRecords
  <1> QED
    BY <1>1, RecordsStep, EvaluateOnce, ReverseOnce

(* However often and however concurrently an event is delivered, whatever  *)
(* snapshot its transaction works from, its payment counts once, and it is *)
(* reversed once.                                                          *)
THEOREM PaymentsCountOnce == CreditSpec => []OncePerPayment
  <1>1. CreditInit => PaymentInv
    BY DEF CreditInit, PaymentInv, OncePerPayment, ReversalsNameRecords
  <1>2. PaymentInv => OncePerPayment
    BY DEF PaymentInv
  <1> QED
    BY <1>1, <1>2, CreditTypeCorrect, PaymentStep, PTL DEF CreditSpec

-----------------------------------------------------------------------------
(* The level and its log.                                                  *)

(* Every step leaves levels and log alone, or moves one customer's level   *)
(* from where it was and appends the entry that says so.                   *)
LevelMoves ==
    \/ /\ UNCHANGED changes
       /\ \A c \in Customers : credit'[c].level = credit[c].level
    \/ \E x \in Changes :
         /\ changes' = Append(changes, x)
         /\ x.from = credit[x.customer].level
         /\ x.to = credit'[x.customer].level
         /\ \A c \in Customers \ {x.customer} :
               credit'[c].level = credit[c].level

(* Payments and reversals write entries of their own kinds only.           *)
RuleEntry ==
    \/ UNCHANGED changes
    \/ \E x \in Changes :
          x.source # "MANUAL" /\ changes' = Append(changes, x)

LEMMA EvaluateLevel ==
  ASSUME CreditTypeOK, CreditTypeOK', NEW e \in Events, NEW n \in Nat,
         Evaluate(e, n)
  PROVE  LevelMoves /\ RuleEntry
  <1> DEFINE c == e.customer
             s == credit[c]
             v == Verdict(e, s)
             new == Scored(v, s, e.day)
             src == IF new.level = s.level THEN "RULE_CAP" ELSE "RULE"
             x == [customer |-> c, from |-> s.level, to |-> new.level,
                   at |-> Len(records'), source |-> src, app |-> 0]
  <1>1. c \in Customers /\ s \in States
    BY DEF Events, CreditTypeOK
  <1>2. credit' = [credit EXCEPT ![c] = new]
    BY DEF Evaluate
  <1>3. credit'[c] = new /\ new \in States
        /\ \A d \in Customers \ {c} : credit'[d] = credit[d]
    BY <1>1, <1>2 DEF CreditTypeOK
  <1>4. CASE RewardDue(v, s) \/ PenaltyDue(v, s)
    <2>1. changes' = Append(changes, x)
      BY <1>4 DEF Evaluate, Logged
    <2>2. Len(records') \in Nat
      BY DEF CreditTypeOK
    <2>3. x \in Changes
      BY <1>1, <1>3, <2>2 DEF Changes, States
    <2>4. x.from = credit[x.customer].level /\ x.to = credit'[x.customer].level
          /\ x.customer = c /\ x.source # "MANUAL"
      BY <1>3
    <2> HIDE DEF x
    <2> QED
      BY <1>3, <2>1, <2>3, <2>4 DEF LevelMoves, RuleEntry
  <1>5. CASE ~(RewardDue(v, s) \/ PenaltyDue(v, s))
    <2>1. UNCHANGED changes
      BY <1>5 DEF Evaluate
    <2>2. new.level = s.level
      BY <1>1, <1>5 DEF Scored
    <2> QED
      BY <1>3, <2>1, <2>2 DEF LevelMoves, RuleEntry
  <1> QED
    BY <1>4, <1>5

LEMMA ReverseLevel ==
  ASSUME CreditTypeOK, CreditTypeOK', NEW e \in Events, NEW n \in Nat,
         Reverse(e, n)
  PROVE  LevelMoves /\ RuleEntry
  <1>1. PICK o \in 1..Len(records) :
          LET r == records[o]  s == credit[e.customer] IN
          /\ credit' = [credit EXCEPT ![e.customer] = r.prev]
          /\ Logged(e.customer, s.level, r.prev.level, "REVERSAL", 0)
    BY DEF Reverse
  <1> DEFINE c == e.customer
             prev == records[o].prev
             x == [customer |-> c, from |-> credit[c].level,
                   to |-> prev.level, at |-> Len(records'),
                   source |-> "REVERSAL", app |-> 0]
  <1>2. c \in Customers /\ prev \in States /\ credit[c] \in States
    <2>1. records[o] \in Records
      BY Row DEF CreditTypeOK
    <2> QED
      BY <2>1 DEF Records, Events, CreditTypeOK
  <1>3. credit'[c] = prev /\ \A d \in Customers \ {c} : credit'[d] = credit[d]
    BY <1>1, <1>2 DEF CreditTypeOK
  <1>4. changes' = Append(changes, x)
    BY <1>1 DEF Logged
  <1>5. x \in Changes
    <2>1. Len(records') \in Nat
      BY DEF CreditTypeOK
    <2> QED
      BY <1>2, <2>1 DEF Changes, States
  <1>6. /\ x.customer = c /\ x.from = credit[x.customer].level
        /\ x.to = credit'[x.customer].level /\ x.source # "MANUAL"
    BY <1>3
  <1> HIDE DEF x
  <1> QED
    BY <1>3, <1>4, <1>5, <1>6 DEF LevelMoves, RuleEntry

LEMMA DecideLevel ==
  ASSUME CreditTypeOK, CreditTypeOK', NEW i \in 1..Len(apps),
         NEW b \in BOOLEAN, Decide(i, b)
  PROVE  LevelMoves
  <1> DEFINE a == apps[i]
             x == [customer |-> a.customer, from |-> a.from, to |-> a.target,
                   at |-> Len(records'), source |-> "MANUAL", app |-> i]
  <1>1. a.customer \in Customers /\ a.from \in Levels /\ a.target \in Levels
    <2>1. a \in Applications
      BY Row DEF CreditTypeOK
    <2> QED
      BY <2>1 DEF Applications
  <1>2. CASE UNCHANGED <<credit, changes>>
    BY <1>2 DEF LevelMoves
  <1>3. CASE /\ StillAtFrom(i)
             /\ credit' = [credit EXCEPT ![a.customer] =
                   [@ EXCEPT !.level = a.target, !.onTime = 0, !.late = 0]]
             /\ Logged(a.customer, a.from, a.target, "MANUAL", i)
    <2>1. /\ credit[a.customer].level = a.from
          /\ credit'[a.customer].level = a.target
          /\ \A d \in Customers \ {a.customer} : credit'[d] = credit[d]
      BY <1>1, <1>3 DEF StillAtFrom, CreditTypeOK, States
    <2>2. changes' = Append(changes, x)
      BY <1>3 DEF Logged
    <2>3. x \in Changes
      <3>1. Len(records') \in Nat /\ i \in Nat
        BY DEF CreditTypeOK
      <3> QED
        BY <1>1, <3>1 DEF Changes
    <2>4. x.customer = a.customer /\ x.from = a.from /\ x.to = a.target
      OBVIOUS
    <2> HIDE DEF x
    <2> QED
      BY <2>1, <2>2, <2>3, <2>4 DEF LevelMoves
  <1> QED
    BY <1>2, <1>3 DEF Decide

LEMMA LevelStep ==
  CreditTypeOK /\ CreditTypeOK' /\ [CreditNext]_vars => LevelMoves
  <1> SUFFICES ASSUME CreditTypeOK, CreditTypeOK', [CreditNext]_vars
               PROVE  LevelMoves
    OBVIOUS
  <1>1. ASSUME NEW e \in Events, ProcessPayment(e) PROVE LevelMoves
    <2>1. Len(records) \in Nat
      BY DEF CreditTypeOK
    <2> QED
      BY <1>1, <2>1, EvaluateLevel, ReverseLevel DEF ProcessPayment, Process
  <1>2. ASSUME NEW w \in Workers, CommitPayment(w) PROVE LevelMoves
    <2>1. tx[w] \in [event : Events, seen : Nat]
      BY <1>2 DEF CommitPayment, CreditTypeOK
    <2> QED
      BY <1>2, <2>1, EvaluateLevel, ReverseLevel DEF CommitPayment, Process
  <1>3. ASSUME NEW i \in 1..Len(apps), NEW b \in BOOLEAN, Decide(i, b)
        PROVE  LevelMoves
    BY <1>3, DecideLevel
  <1>4. ASSUME \/ \E w \in Workers, e \in Events : BeginPayment(w, e)
               \/ \E w \in Workers : RollbackPayment(w)
               \/ \E r \in RuleChoices : UpdateRuleSettings(r)
               \/ \E k \in Keys, c \in Customers, t \in Levels : Apply(k, c, t)
               \/ \E i \in 1..Len(apps) : Withdraw(i)
               \/ \E c \in Customers, s \in {"ACTIVE", "VOID", "MERGED"} :
                     ChangeStatus(c, s)
               \/ UNCHANGED vars
        PROVE  LevelMoves
    <2>1. UNCHANGED <<credit, changes>>
      BY <1>4 DEF BeginPayment, RollbackPayment, UpdateRuleSettings, Apply,
                  Withdraw, ChangeStatus, vars
    <2> QED
      BY <2>1 DEF LevelMoves
  <1> QED
    BY <1>1, <1>2, <1>3, <1>4 DEF CreditNext

(* A longer log leads where its beginning led, and the new entry leads to  *)
(* where it ends.                                                          *)
LEMMA LeadsOn ==
  ASSUME NEW x \in Changes, NEW log \in Seq(Changes), NEW c \in Customers
  PROVE  /\ \A n \in 0..Len(log), l \in Levels :
               LeadsTo(log, c, n, l) => LeadsTo(Append(log, x), c, n, l)
         /\ x.customer = c => LeadsTo(Append(log, x), c, Len(log) + 1, x.to)
         /\ \A l \in Levels :
               x.customer # c /\ LeadsTo(log, c, Len(log), l)
                  => LeadsTo(Append(log, x), c, Len(log) + 1, l)
  <1> DEFINE m == Len(log)
             long == Append(log, x)
  <1>1. /\ m \in Nat /\ long[m + 1] = x
        /\ \A i \in 1..m : long[i] = log[i]
    BY Grown
  <1> HIDE DEF m, long
  <1>2. ASSUME NEW n \in 0..m, NEW l \in Levels, LeadsTo(log, c, n, l)
        PROVE  LeadsTo(long, c, n, l)
    <2>1. \A i \in 1..n : long[i] = log[i]
      BY <1>1
    <2>2. \A j \in 1..n : \A i \in j+1..n : i \in 1..n
      BY <1>1
    <2>3. CASE (\A i \in 1..n : log[i].customer # c) /\ l = Initial
      BY <2>1, <2>3 DEF LeadsTo
    <2>4. CASE \E j \in 1..n : /\ log[j].customer = c /\ log[j].to = l
                               /\ \A i \in j+1..n : log[i].customer # c
      <3>1. PICK j \in 1..n : /\ log[j].customer = c /\ log[j].to = l
                              /\ \A i \in j+1..n : log[i].customer # c
        BY <2>4
      <3>2. /\ long[j].customer = c /\ long[j].to = l
            /\ \A i \in j+1..n : long[i].customer # c
        BY <2>1, <2>2, <3>1
      <3> QED
        BY <3>2 DEF LeadsTo
    <2> QED
      BY <1>2, <2>3, <2>4 DEF LeadsTo
  <1>3. ASSUME x.customer = c PROVE LeadsTo(long, c, m + 1, x.to)
    BY <1>1, <1>3 DEF LeadsTo
  <1>4. ASSUME NEW l \in Levels, x.customer # c, LeadsTo(log, c, m, l)
        PROVE  LeadsTo(long, c, m + 1, l)
    <2>1. CASE (\A i \in 1..m : log[i].customer # c) /\ l = Initial
      <3>1. \A i \in 1..m+1 : long[i].customer # c
        BY <1>1, <1>4, <2>1
      <3> QED
        BY <2>1, <3>1 DEF LeadsTo
    <2>2. CASE \E j \in 1..m : /\ log[j].customer = c /\ log[j].to = l
                               /\ \A i \in j+1..m : log[i].customer # c
      <3>1. PICK j \in 1..m : /\ log[j].customer = c /\ log[j].to = l
                              /\ \A i \in j+1..m : log[i].customer # c
        BY <2>2
      <3>2. \A i \in j+1..m+1 : long[i].customer # c
        BY <1>1, <1>4, <3>1
      <3>3. j \in 1..m+1 /\ long[j].customer = c /\ long[j].to = l
        BY <1>1, <3>1
      <3> QED
        BY <3>2, <3>3 DEF LeadsTo
    <2> QED
      BY <1>4, <2>1, <2>2 DEF LeadsTo
  <1> QED
    BY <1>2, <1>3, <1>4 DEF m, long

LEMMA LogStep ==
  ASSUME CreditTypeOK, CreditTypeOK', LevelFollowsLog, [CreditNext]_vars
  PROVE  LevelFollowsLog'
  <1>1. LevelMoves
    BY LevelStep
  <1>2. CASE /\ UNCHANGED changes
             /\ \A c \in Customers : credit'[c].level = credit[c].level
    BY <1>2 DEF LevelFollowsLog
  <1>3. ASSUME NEW x \in Changes,
               changes' = Append(changes, x),
               x.from = credit[x.customer].level,
               x.to = credit'[x.customer].level,
               \A c \in Customers \ {x.customer} :
                  credit'[c].level = credit[c].level
        PROVE  LevelFollowsLog'
    <2>1. /\ changes \in Seq(Changes) /\ Len(changes) \in Nat
          /\ Len(changes') = Len(changes) + 1
          /\ changes'[Len(changes) + 1] = x
          /\ \A i \in 1..Len(changes) : changes'[i] = changes[i]
      BY <1>3, Grown DEF CreditTypeOK
    <2>2. \A c \in Customers : credit[c].level \in Levels
      BY DEF CreditTypeOK, States
    <2>3. \A k \in 1..Len(changes) : changes[k].from \in Levels
      <3> TAKE k \in 1..Len(changes)
      <3>1. changes[k] \in Changes
        BY <2>1, Row
      <3> QED
        BY <3>1 DEF Changes
    <2>4. ASSUME NEW c \in Customers
          PROVE  LeadsTo(changes', c, Len(changes'), credit'[c].level)
      <3>1. LeadsTo(changes, c, Len(changes), credit[c].level)
        BY DEF LevelFollowsLog
      <3>2. CASE x.customer = c
        BY <1>3, <2>1, <3>2, LeadsOn
      <3>3. CASE x.customer # c
        <4>1. credit'[c].level = credit[c].level
          BY <1>3, <3>3
        <4> QED
          BY <1>3, <2>1, <2>2, <3>1, <3>3, <4>1, LeadsOn
      <3> QED
        BY <3>2, <3>3
    <2>5. ASSUME NEW c \in Customers, NEW k \in 1..Len(changes'),
                 changes'[k].customer = c
          PROVE  LeadsTo(changes', c, k - 1, changes'[k].from)
      <3>1. CASE k \in 1..Len(changes)
        <4>1. LeadsTo(changes, c, k - 1, changes[k].from)
          BY <2>1, <2>5, <3>1 DEF LevelFollowsLog
        <4>2. k - 1 \in 0..Len(changes) /\ changes'[k].from = changes[k].from
          BY <2>1, <3>1
        <4> QED
          BY <1>3, <2>1, <2>3, <3>1, <4>1, <4>2, LeadsOn
      <3>2. CASE k = Len(changes) + 1
        <4>1. LeadsTo(changes, c, Len(changes), credit[c].level)
          BY DEF LevelFollowsLog
        <4>2. k - 1 = Len(changes) /\ changes'[k].from = credit[c].level
          BY <1>3, <2>1, <2>5, <3>2
        <4>3. Len(changes) \in 0..Len(changes)
          BY <2>1
        <4> QED
          BY <1>3, <2>1, <2>2, <4>1, <4>2, <4>3, LeadsOn
      <3> QED
        BY <2>1, <3>1, <3>2
    <2> QED
      BY <2>4, <2>5 DEF LevelFollowsLog
  <1> QED
    BY <1>1, <1>2, <1>3 DEF LevelMoves

(* The log of a customer is gapless and ends at the customer's level, who- *)
(* ever moved it: payments, reversals or approved applications.            *)
THEOREM LogExplainsLevel == CreditSpec => []LevelFollowsLog
  <1>1. CreditInit => LevelFollowsLog
    <2> SUFFICES ASSUME CreditInit PROVE LevelFollowsLog
      OBVIOUS
    <2>1. changes = <<>>
      BY DEF CreditInit
    <2>2. Len(changes) = 0
      BY <2>1
    <2>3. \A c \in Customers : credit[c].level = Initial
      BY DEF CreditInit
    <2>4. 1..Len(changes) = {}
      BY <2>2
    <2>5. ASSUME NEW c \in Customers
          PROVE  LeadsTo(changes, c, Len(changes), credit[c].level)
      BY <2>3, <2>4 DEF LeadsTo
    <2> QED
      BY <2>4, <2>5 DEF LevelFollowsLog
  <1>2. CreditTypeOK /\ CreditTypeOK' /\ LevelFollowsLog /\ [CreditNext]_vars
           => LevelFollowsLog'
    BY LogStep
  <1> QED
    BY <1>1, <1>2, CreditTypeCorrect, PTL DEF CreditSpec

-----------------------------------------------------------------------------
(* Applications.                                                           *)

(* Why an approval is carried out once: an entry of a manual change names  *)
(* an application that has been approved, and nothing is approved twice.   *)
ManualIsApproved ==
    \A k \in 1..Len(changes) : changes[k].source = "MANUAL" =>
        /\ changes[k].app \in 1..Len(apps)
        /\ apps[changes[k].app].status = "APPROVED"

ApplicationInv == ApplicationsAgree /\ ManualIsApproved

(* What closing an application leaves of it, and of the others.            *)
LEMMA ClosedRow ==
  ASSUME CreditTypeOK, NEW i \in 1..Len(apps), NEW s \in AppStatuses,
         Close(i, s)
  PROVE  /\ Len(apps') = Len(apps)
         /\ apps'[i].status = s /\ apps'[i].task = s /\ apps'[i].instance = s
         /\ ~apps'[i].pending
         /\ apps'[i].customer = apps[i].customer
         /\ apps'[i].from = apps[i].from /\ apps'[i].target = apps[i].target
         /\ \A j \in 1..Len(apps) : j # i => apps'[j] = apps[j]
  <1> DEFINE y == [apps[i] EXCEPT !.status = s, !.task = s, !.instance = s,
                                  !.pending = FALSE]
  <1>1. apps \in Seq(Applications) /\ apps[i] \in Applications
    BY Row DEF CreditTypeOK
  <1>2. /\ y \in Applications
        /\ y.status = s /\ y.task = s /\ y.instance = s /\ ~y.pending
        /\ y.customer = apps[i].customer
        /\ y.from = apps[i].from /\ y.target = apps[i].target
    BY <1>1 DEF Applications
  <1>3. apps' = [apps EXCEPT ![i] = y]
    BY <1>1 DEF Close
  <1> HIDE DEF y
  <1> QED
    BY <1>1, <1>2, <1>3, Rewritten

(* An application that closes without an approval had no manual change.    *)
LEMMA ClosedUnapproved ==
  ASSUME CreditTypeOK, ApplicationInv, NEW i \in 1..Len(apps),
         NEW s \in {"REJECTED", "INVALIDATED", "WITHDRAWN"},
         apps[i].status = "PENDING", Close(i, s), UNCHANGED changes
  PROVE  ApplicationInv'
  <1>1. /\ Len(apps') = Len(apps)
        /\ apps'[i].status = s /\ apps'[i].task = s /\ apps'[i].instance = s
        /\ ~apps'[i].pending
        /\ \A j \in 1..Len(apps) : j # i => apps'[j] = apps[j]
    BY ClosedRow DEF AppStatuses
  <1>2. \A k \in 1..Len(changes) :
           changes[k].source = "MANUAL" => changes[k].app # i
    BY DEF ApplicationInv, ManualIsApproved
  <1>3. ManualIsApproved'
    BY <1>1, <1>2 DEF ApplicationInv, ManualIsApproved
  <1>4. ASSUME NEW j \in 1..Len(apps')
        PROVE  /\ apps'[j].task = apps'[j].status
               /\ apps'[j].instance = apps'[j].status
               /\ apps'[j].pending <=> apps'[j].status = "PENDING"
               /\ apps'[j].status = "APPROVED" <=>
                    \E k \in 1..Len(changes') :
                       /\ changes'[k].source = "MANUAL" /\ changes'[k].app = j
                       /\ changes'[k].customer = apps'[j].customer
                       /\ changes'[k].from = apps'[j].from
                       /\ changes'[k].to = apps'[j].target
    <2>1. CASE j = i
      BY <1>1, <1>2, <2>1
    <2>2. CASE j # i
      <3>1. apps'[j] = apps[j] /\ j \in 1..Len(apps)
        BY <1>1, <2>2
      <3> QED
        BY <3>1 DEF ApplicationInv, ApplicationsAgree
    <2> QED
      BY <2>1, <2>2
  <1>5. \A j, l \in 1..Len(apps') :
          /\ apps'[j].status = "PENDING" /\ apps'[l].status = "PENDING"
          /\ apps'[j].customer = apps'[l].customer
          => j = l
    BY <1>1 DEF ApplicationInv, ApplicationsAgree
  <1>6. \A k, l \in 1..Len(changes') :
          /\ changes'[k].source = "MANUAL" /\ changes'[l].source = "MANUAL"
          /\ changes'[k].app = changes'[l].app
          => k = l
    BY DEF ApplicationInv, ApplicationsAgree
  <1> QED
    BY <1>3, <1>4, <1>5, <1>6 DEF ApplicationInv, ApplicationsAgree

(* An approval writes the one manual change of its application.            *)
LEMMA ClosedApproved ==
  ASSUME CreditTypeOK, ApplicationInv, NEW i \in 1..Len(apps),
         apps[i].status = "PENDING", Close(i, "APPROVED"),
         NEW x \in Changes, changes' = Append(changes, x),
         x.source = "MANUAL", x.app = i, x.customer = apps[i].customer,
         x.from = apps[i].from, x.to = apps[i].target
  PROVE  ApplicationInv'
  <1> DEFINE m == Len(changes)
  <1>1. /\ Len(apps') = Len(apps)
        /\ apps'[i].status = "APPROVED" /\ apps'[i].task = "APPROVED"
        /\ apps'[i].instance = "APPROVED" /\ ~apps'[i].pending
        /\ apps'[i].customer = apps[i].customer
        /\ apps'[i].from = apps[i].from /\ apps'[i].target = apps[i].target
        /\ \A j \in 1..Len(apps) : j # i => apps'[j] = apps[j]
    BY ClosedRow DEF AppStatuses
  <1>2. /\ m \in Nat /\ Len(changes') = m + 1 /\ changes'[m + 1] = x
        /\ \A k \in 1..m : changes'[k] = changes[k]
    BY Grown DEF CreditTypeOK
  <1>3. \A k \in 1..m : changes[k].source = "MANUAL" => changes[k].app # i
    BY DEF ApplicationInv, ManualIsApproved
  <1> HIDE DEF m
  <1>4. \A k \in 1..Len(changes') : k \in 1..m \/ k = m + 1
    BY <1>2
  <1>5. ManualIsApproved'
    BY <1>1, <1>2, <1>4 DEF ApplicationInv, ManualIsApproved, m
  <1>6. ASSUME NEW j \in 1..Len(apps')
        PROVE  apps'[j].status = "APPROVED" <=>
                 \E k \in 1..Len(changes') :
                    /\ changes'[k].source = "MANUAL" /\ changes'[k].app = j
                    /\ changes'[k].customer = apps'[j].customer
                    /\ changes'[k].from = apps'[j].from
                    /\ changes'[k].to = apps'[j].target
    <2>1. CASE j = i
      BY <1>1, <1>2, <2>1
    <2>2. CASE j # i
      <3>1. apps[j].status = "APPROVED" <=>
              \E k \in 1..m :
                 /\ changes[k].source = "MANUAL" /\ changes[k].app = j
                 /\ changes[k].customer = apps[j].customer
                 /\ changes[k].from = apps[j].from
                 /\ changes[k].to = apps[j].target
        BY <1>1 DEF ApplicationInv, ApplicationsAgree, m
      <3>2. apps'[j] = apps[j]
        BY <1>1, <2>2
      <3>3. \A k \in 1..m : k \in 1..Len(changes')
        BY <1>2
      <3> QED
        BY <1>2, <1>4, <2>2, <3>1, <3>2, <3>3
    <2> QED
      BY <2>1, <2>2
  <1>7. \A k, l \in 1..Len(changes') :
          /\ changes'[k].source = "MANUAL" /\ changes'[l].source = "MANUAL"
          /\ changes'[k].app = changes'[l].app
          => k = l
    BY <1>2, <1>3, <1>4 DEF ApplicationInv, ApplicationsAgree, m
  <1>8. \A j \in 1..Len(apps') :
          /\ apps'[j].task = apps'[j].status
          /\ apps'[j].instance = apps'[j].status
          /\ apps'[j].pending <=> apps'[j].status = "PENDING"
    BY <1>1 DEF ApplicationInv, ApplicationsAgree
  <1>9. \A j, l \in 1..Len(apps') :
          /\ apps'[j].status = "PENDING" /\ apps'[l].status = "PENDING"
          /\ apps'[j].customer = apps'[l].customer
          => j = l
    BY <1>1 DEF ApplicationInv, ApplicationsAgree
  <1> QED
    BY <1>5, <1>6, <1>7, <1>8, <1>9 DEF ApplicationInv, ApplicationsAgree

(* A new application is the only open one of its customer.                 *)
LEMMA AppliedAgrees ==
  ASSUME CreditTypeOK, ApplicationInv, NEW k \in Keys, NEW c \in Customers,
         NEW t \in Levels, Apply(k, c, t)
  PROVE  ApplicationInv'
  <1> DEFINE a == [customer |-> c, key |-> k, from |-> credit[c].level,
                   target |-> t, status |-> "PENDING", task |-> "PENDING",
                   instance |-> "PENDING", pending |-> TRUE]
             n == Len(apps)
  <1>1. a \in Applications
    BY DEF Applications, AppStatuses, CreditTypeOK, States
  <1>2. /\ a.customer = c /\ a.status = "PENDING" /\ a.task = "PENDING"
        /\ a.instance = "PENDING" /\ a.pending
    OBVIOUS
  <1>3. apps' = Append(apps, a) /\ UNCHANGED changes
    BY DEF Apply
  <1> HIDE DEF a, n
  <1>4. /\ n \in Nat /\ Len(apps') = n + 1 /\ apps'[n + 1] = a
        /\ \A i \in 1..n : apps'[i] = apps[i]
    BY <1>1, <1>3, Grown DEF CreditTypeOK, n
  <1>5. \A i \in 1..n : apps[i].status = "PENDING" => apps[i].customer # c
    BY DEF Apply, NonePending, ApplicationInv, ApplicationsAgree, n
  <1>6. \A l \in 1..Len(changes) :
           changes[l].source = "MANUAL" => changes[l].app \in 1..n
    BY DEF ApplicationInv, ManualIsApproved, n
  <1>7. \A i \in 1..Len(apps') : i \in 1..n \/ i = n + 1
    BY <1>4
  <1>8. n + 1 \notin 1..n
    BY <1>4
  <1>9. ManualIsApproved'
    BY <1>3, <1>4, <1>6 DEF ApplicationInv, ManualIsApproved
  <1>10. ASSUME NEW i \in 1..Len(apps')
         PROVE  /\ apps'[i].task = apps'[i].status
                /\ apps'[i].instance = apps'[i].status
                /\ apps'[i].pending <=> apps'[i].status = "PENDING"
                /\ apps'[i].status = "APPROVED" <=>
                     \E l \in 1..Len(changes') :
                        /\ changes'[l].source = "MANUAL" /\ changes'[l].app = i
                        /\ changes'[l].customer = apps'[i].customer
                        /\ changes'[l].from = apps'[i].from
                        /\ changes'[l].to = apps'[i].target
    <2>1. CASE i = n + 1
      <3>1. apps'[i] = a
        BY <1>4, <2>1
      <3>2. \A l \in 1..Len(changes) :
               changes[l].source = "MANUAL" => changes[l].app # i
        BY <1>6, <1>8, <2>1
      <3> QED
        BY <1>2, <1>3, <3>1, <3>2
    <2>2. CASE i \in 1..n
      <3>1. apps'[i] = apps[i] /\ changes' = changes
        BY <1>3, <1>4, <2>2
      <3>2. /\ apps[i].task = apps[i].status
            /\ apps[i].instance = apps[i].status
            /\ apps[i].pending <=> apps[i].status = "PENDING"
            /\ apps[i].status = "APPROVED" <=>
                 \E l \in 1..Len(changes) :
                    /\ changes[l].source = "MANUAL" /\ changes[l].app = i
                    /\ changes[l].customer = apps[i].customer
                    /\ changes[l].from = apps[i].from
                    /\ changes[l].to = apps[i].target
        BY <2>2 DEF ApplicationInv, ApplicationsAgree, n
      <3> QED
        BY <3>1, <3>2
    <2> QED
      BY <1>7, <2>1, <2>2
  <1>11. \A i, j \in 1..Len(apps') :
            /\ apps'[i].status = "PENDING" /\ apps'[j].status = "PENDING"
            /\ apps'[i].customer = apps'[j].customer
            => i = j
    BY <1>2, <1>4, <1>5, <1>7 DEF ApplicationInv, ApplicationsAgree, n
  <1>12. \A i, j \in 1..Len(changes') :
           /\ changes'[i].source = "MANUAL" /\ changes'[j].source = "MANUAL"
           /\ changes'[i].app = changes'[j].app
           => i = j
    BY <1>3 DEF ApplicationInv, ApplicationsAgree
  <1> QED
    BY <1>9, <1>10, <1>11, <1>12 DEF ApplicationInv, ApplicationsAgree

(* Payments and reversals do not meddle with applications.                 *)
LEMMA RuleEntryAgrees ==
  ASSUME CreditTypeOK, ApplicationInv, UNCHANGED apps, RuleEntry
  PROVE  ApplicationInv'
  <1>1. CASE UNCHANGED changes
    <2>1. ManualIsApproved'
      BY <1>1 DEF ApplicationInv, ManualIsApproved
    <2>2. ApplicationsAgree'
      BY <1>1 DEF ApplicationInv, ApplicationsAgree
    <2> QED
      BY <2>1, <2>2 DEF ApplicationInv
  <1>2. ASSUME NEW x \in Changes, x.source # "MANUAL",
               changes' = Append(changes, x)
        PROVE  ApplicationInv'
    <2> DEFINE m == Len(changes)
    <2>1. /\ m \in Nat /\ Len(changes') = m + 1 /\ changes'[m + 1] = x
          /\ \A k \in 1..m : changes'[k] = changes[k]
      BY <1>2, Grown DEF CreditTypeOK
    <2>2. \A k : k \in 1..Len(changes') /\ changes'[k].source = "MANUAL"
                 <=> k \in 1..m /\ changes[k].source = "MANUAL"
      BY <1>2, <2>1
    <2>3. ManualIsApproved'
      BY <2>1, <2>2 DEF ApplicationInv, ManualIsApproved
    <2>4. ASSUME NEW i \in 1..Len(apps)
          PROVE  apps[i].status = "APPROVED" <=>
                   \E k \in 1..Len(changes') :
                      /\ changes'[k].source = "MANUAL" /\ changes'[k].app = i
                      /\ changes'[k].customer = apps[i].customer
                      /\ changes'[k].from = apps[i].from
                      /\ changes'[k].to = apps[i].target
      <3>1. apps[i].status = "APPROVED" <=>
              \E k \in 1..m :
                 /\ changes[k].source = "MANUAL" /\ changes[k].app = i
                 /\ changes[k].customer = apps[i].customer
                 /\ changes[k].from = apps[i].from
                 /\ changes[k].to = apps[i].target
        BY DEF ApplicationInv, ApplicationsAgree
      <3> HIDE DEF m
      <3> QED
        BY <2>1, <2>2, <3>1
    <2>5. \A k, l \in 1..Len(changes') :
            /\ changes'[k].source = "MANUAL" /\ changes'[l].source = "MANUAL"
            /\ changes'[k].app = changes'[l].app
            => k = l
      BY <2>1, <2>2 DEF ApplicationInv, ApplicationsAgree
    <2> QED
      BY <2>3, <2>4, <2>5 DEF ApplicationInv, ApplicationsAgree
  <1> QED
    BY <1>1, <1>2 DEF RuleEntry

LEMMA ApplicationStep ==
  CreditTypeOK /\ CreditTypeOK' /\ ApplicationInv /\ [CreditNext]_vars
      => ApplicationInv'
  <1> SUFFICES ASSUME CreditTypeOK, CreditTypeOK', ApplicationInv,
                      [CreditNext]_vars
               PROVE  ApplicationInv'
    OBVIOUS
  <1>1. ASSUME NEW e \in Events, ProcessPayment(e) PROVE ApplicationInv'
    <2>1. Len(records) \in Nat
      BY DEF CreditTypeOK
    <2>2. RuleEntry /\ UNCHANGED apps
      BY <1>1, <2>1, EvaluateLevel, ReverseLevel DEF ProcessPayment, Process
    <2> QED
      BY <2>2, RuleEntryAgrees
  <1>2. ASSUME NEW w \in Workers, CommitPayment(w) PROVE ApplicationInv'
    <2>1. tx[w] \in [event : Events, seen : Nat]
      BY <1>2 DEF CommitPayment, CreditTypeOK
    <2>2. RuleEntry /\ UNCHANGED apps
      BY <1>2, <2>1, EvaluateLevel, ReverseLevel DEF CommitPayment, Process
    <2> QED
      BY <2>2, RuleEntryAgrees
  <1>3. ASSUME NEW k \in Keys, NEW c \in Customers, NEW t \in Levels,
               Apply(k, c, t)
        PROVE  ApplicationInv'
    BY <1>3, AppliedAgrees
  <1>4. ASSUME NEW i \in 1..Len(apps), NEW b \in BOOLEAN, Decide(i, b)
        PROVE  ApplicationInv'
    <2>1. apps[i].status = "PENDING"
      BY <1>4 DEF Decide
    <2>2. CASE /\ Close(i, "INVALIDATED") \/ Close(i, "REJECTED")
               /\ UNCHANGED changes
      BY <2>1, <2>2, ClosedUnapproved
    <2>3. CASE /\ Close(i, "APPROVED") /\ UNCHANGED records
               /\ Logged(apps[i].customer, apps[i].from, apps[i].target,
                         "MANUAL", i)
      <3> DEFINE x == [customer |-> apps[i].customer, from |-> apps[i].from,
                       to |-> apps[i].target, at |-> Len(records'),
                       source |-> "MANUAL", app |-> i]
      <3>1. apps[i] \in Applications
        BY Row DEF CreditTypeOK
      <3>2. Len(records') \in Nat /\ i \in Nat
        BY DEF CreditTypeOK
      <3>3. x \in Changes
        BY <3>1, <3>2 DEF Changes, Applications
      <3>4. /\ x.source = "MANUAL" /\ x.app = i
            /\ x.customer = apps[i].customer
            /\ x.from = apps[i].from /\ x.to = apps[i].target
        OBVIOUS
      <3>5. changes' = Append(changes, x)
        BY <2>3 DEF Logged
      <3> HIDE DEF x
      <3> QED
        BY <2>1, <2>3, <3>3, <3>4, <3>5, ClosedApproved
    <2> QED
      BY <1>4, <2>2, <2>3 DEF Decide
  <1>5. ASSUME NEW i \in 1..Len(apps), Withdraw(i) PROVE ApplicationInv'
    BY <1>5, ClosedUnapproved DEF Withdraw
  <1>6. ASSUME \/ \E w \in Workers, e \in Events : BeginPayment(w, e)
               \/ \E w \in Workers : RollbackPayment(w)
               \/ \E r \in RuleChoices : UpdateRuleSettings(r)
               \/ \E c \in Customers, s \in {"ACTIVE", "VOID", "MERGED"} :
                     ChangeStatus(c, s)
               \/ UNCHANGED vars
        PROVE  ApplicationInv'
    <2>1. UNCHANGED <<apps, changes>>
      BY <1>6 DEF BeginPayment, RollbackPayment, UpdateRuleSettings,
                  ChangeStatus, vars
    <2> QED
      BY <2>1, RuleEntryAgrees DEF RuleEntry
  <1> QED
    BY <1>1, <1>2, <1>3, <1>4, <1>5, <1>6 DEF CreditNext

(* Application, instance and task always agree, a customer has one open    *)
(* application at most, and what is approved is carried out exactly once,  *)
(* whatever payments and reversals move the level meanwhile.               *)
THEOREM ApplicationsCarriedOut == CreditSpec => []ApplicationsAgree
  <1>1. CreditInit => ApplicationInv
    BY DEF CreditInit, ApplicationInv, ApplicationsAgree, ManualIsApproved
  <1>2. ApplicationInv => ApplicationsAgree
    BY DEF ApplicationInv
  <1> QED
    BY <1>1, <1>2, CreditTypeCorrect, ApplicationStep, PTL DEF CreditSpec

-----------------------------------------------------------------------------
(* The date of the last evaluated payment.                                 *)

(* Once the settings are saved no transaction waits for a customer any     *)
(* more, so a reversal sees every payment recorded before it.              *)
NoneWaiting == settings # NoSettings => \A w \in Workers : tx[w] = Idle

LEMMA NoneWaitingStep == NoneWaiting /\ [CreditNext]_vars => NoneWaiting'
  <1> SUFFICES ASSUME NoneWaiting, [CreditNext]_vars PROVE NoneWaiting'
    OBVIOUS
  <1>1. ASSUME NEW e \in Events, ProcessPayment(e) PROVE NoneWaiting'
    BY <1>1 DEF ProcessPayment, Process, NoneWaiting
  <1>2. ASSUME NEW w \in Workers, NEW e \in Events, BeginPayment(w, e)
        PROVE  NoneWaiting'
    BY <1>2 DEF BeginPayment, NoneWaiting
  <1>3. ASSUME NEW w \in Workers, CommitPayment(w) PROVE NoneWaiting'
    BY <1>3 DEF CommitPayment, Process, NoneWaiting
  <1>4. ASSUME NEW w \in Workers, RollbackPayment(w) PROVE NoneWaiting'
    BY <1>4 DEF RollbackPayment, NoneWaiting
  <1>5. ASSUME NEW r \in RuleChoices, UpdateRuleSettings(r)
        PROVE  NoneWaiting'
    BY <1>5 DEF UpdateRuleSettings, NoneWaiting
  <1>6. ASSUME \/ \E k \in Keys, c \in Customers, t \in Levels : Apply(k, c, t)
               \/ \E i \in 1..Len(apps), b \in BOOLEAN : Decide(i, b)
               \/ \E i \in 1..Len(apps) : Withdraw(i)
               \/ \E c \in Customers, s \in {"ACTIVE", "VOID", "MERGED"} :
                     ChangeStatus(c, s)
               \/ UNCHANGED vars
        PROVE  NoneWaiting'
    BY <1>6 DEF Apply, Decide, Withdraw, ChangeStatus, vars, NoneWaiting
  <1> QED
    BY <1>1, <1>2, <1>3, <1>4, <1>5, <1>6 DEF CreditNext

(* A date depends on the payments that count only.                         *)
LEMMA LastAfterSame ==
  ASSUME NEW log, NEW long, NEW c, NEW n \in Nat, NEW d,
         \A i \in 1..n : /\ CountsIn(long, c, i) <=> CountsIn(log, c, i)
                         /\ CountsIn(log, c, i) => long[i].result = log[i].result,
         LastAfter(log, c, n, d)
  PROVE  LastAfter(long, c, n, d)
  <1>1. CASE (\A i \in 1..n : ~CountsIn(log, c, i)) /\ d = 0
    BY <1>1 DEF LastAfter
  <1>2. ASSUME NEW j \in 1..n,
               CountsIn(log, c, j), log[j].result.last = d, d > 0,
               \A i \in j+1..n : ~CountsIn(log, c, i)
        PROVE  LastAfter(long, c, n, d)
    <2>1. \A i \in j+1..n : i \in 1..n
      OBVIOUS
    <2>2. /\ CountsIn(long, c, j) /\ long[j].result.last = d
          /\ \A i \in j+1..n : ~CountsIn(long, c, i)
      BY <1>2, <2>1
    <2> QED
      BY <1>2, <2>2 DEF LastAfter
  <1> QED
    BY <1>1, <1>2 DEF LastAfter

(* Records that do not count leave the date as it was.                     *)
LEMMA LastAfterQuiet ==
  ASSUME NEW log, NEW c, NEW n \in Nat, NEW m \in Nat, n <= m, NEW d,
         \A i \in n+1..m : ~CountsIn(log, c, i),
         LastAfter(log, c, n, d)
  PROVE  LastAfter(log, c, m, d)
  <1>1. CASE (\A i \in 1..n : ~CountsIn(log, c, i)) /\ d = 0
    <2>1. \A i \in 1..m : i \in 1..n \/ i \in n+1..m
      OBVIOUS
    <2> QED
      BY <1>1, <2>1 DEF LastAfter
  <1>2. ASSUME NEW j \in 1..n,
               CountsIn(log, c, j), log[j].result.last = d, d > 0,
               \A i \in j+1..n : ~CountsIn(log, c, i)
        PROVE  LastAfter(log, c, m, d)
    <2>1. \A i \in j+1..m : i \in j+1..n \/ i \in n+1..m
      OBVIOUS
    <2>2. j \in 1..m /\ \A i \in j+1..m : ~CountsIn(log, c, i)
      BY <1>2, <2>1
    <2> QED
      BY <1>2, <2>2 DEF LastAfter
  <1> QED
    BY <1>1, <1>2 DEF LastAfter

(* A record that does not count for c may be added, and the records of     *)
(* others may be marked as reversed.                                       *)
LEMMA DatesCarry ==
  ASSUME NEW log, NEW long, NEW c, NEW d, Len(log) \in Nat,
         Len(long) = Len(log) + 1, ~CountsIn(long, c, Len(log) + 1),
         \A i \in 1..Len(log) :
            /\ CountsIn(long, c, i) <=> CountsIn(log, c, i)
            /\ CountsIn(log, c, i) => /\ long[i].result = log[i].result
                                      /\ long[i].prev = log[i].prev,
         DatesOf(log, c, d)
  PROVE  DatesOf(long, c, d)
  <1> DEFINE n == Len(log)
  <1>0. n \in Nat /\ Len(long) = n + 1 /\ ~CountsIn(long, c, n + 1)
        /\ LastAfter(log, c, n, d)
    BY DEF DatesOf
  <1> HIDE DEF n
  <1>1. \A i \in n+1..n+1 : ~CountsIn(long, c, i)
    BY <1>0
  <1>2. LastAfter(long, c, n, d)
    BY <1>0, LastAfterSame DEF n
  <1>3. LastAfter(long, c, n + 1, d)
    BY <1>0, <1>1, <1>2, LastAfterQuiet
  <1>4. ASSUME NEW k \in 1..n+1, CountsIn(long, c, k)
        PROVE  k \in 1..n /\ LastAfter(long, c, k - 1, long[k].prev.last)
    <2>1. k \in 1..n /\ k - 1 \in Nat /\ \A i \in 1..k-1 : i \in 1..n
      BY <1>0, <1>4
    <2>2. CountsIn(log, c, k) /\ long[k].prev = log[k].prev
      BY <1>4, <2>1 DEF n
    <2>3. LastAfter(log, c, k - 1, log[k].prev.last)
      BY <2>1, <2>2 DEF DatesOf, n
    <2>4. LastAfter(long, c, k - 1, log[k].prev.last)
      BY <2>1, <2>3, LastAfterSame DEF n
    <2> QED
      BY <2>1, <2>2, <2>4
  <1>5. ASSUME NEW i \in 1..n+1, NEW j \in 1..n+1,
               CountsIn(long, c, i), CountsIn(long, c, j), i < j
        PROVE  long[i].result.last <= long[j].result.last
    <2>1. i \in 1..n /\ j \in 1..n
      BY <1>4, <1>5
    <2> QED
      BY <1>5, <2>1 DEF DatesOf, n
  <1> QED
    BY <1>0, <1>3, <1>4, <1>5 DEF DatesOf

(* A payment that counts is not older than the date it finds, keeps that   *)
(* date and leaves its own.                                                *)
LEMMA DatesCount ==
  ASSUME NEW log \in Seq(Records), NEW r \in Records, NEW c,
         r.customer = c, r.verdict \in {"ONTIME", "LATE"}, ~r.reversed,
         r.result.last >= r.prev.last, r.result.last > 0,
         DatesOf(log, c, r.prev.last)
  PROVE  DatesOf(Append(log, r), c, r.result.last)
  <1> DEFINE n == Len(log)
             long == Append(log, r)
  <1>1. /\ n \in Nat /\ Len(long) = n + 1 /\ long[n + 1] = r
        /\ \A i \in 1..n : long[i] = log[i]
    BY Grown
  <1>2. \A i \in 1..n : log[i].result.last \in Nat
    <2> TAKE i \in 1..n
    <2>1. log[i] \in Records
      BY Row
    <2>2. log[i].result \in States
      BY <2>1 DEF Records
    <2> HIDE DEF n, long
    <2> QED
      BY <2>2 DEF States
  <1>3. r.result.last \in Nat /\ r.prev.last \in Nat
    BY DEF Records, States
  <1> HIDE DEF long, n
  <1>4. \A i \in 1..n : CountsIn(long, c, i) <=> CountsIn(log, c, i)
    BY <1>1 DEF CountsIn
  <1>5. CountsIn(long, c, n + 1)
    BY <1>1 DEF CountsIn
  <1>6. LastAfter(long, c, n + 1, r.result.last)
    <2>1. \A i \in (n+1)+1..n+1 : ~CountsIn(long, c, i)
      BY <1>1
    <2> QED
      BY <1>1, <1>5, <2>1 DEF LastAfter
  <1>7. ASSUME NEW k \in 0..n, NEW d, LastAfter(log, c, k, d)
        PROVE  LastAfter(long, c, k, d)
    <2>1. k \in Nat /\ \A i \in 1..k : i \in 1..n
      BY <1>1
    <2> QED
      BY <1>1, <1>4, <1>7, <2>1, LastAfterSame
  <1>8. ASSUME NEW k \in 1..n+1, CountsIn(long, c, k)
        PROVE  LastAfter(long, c, k - 1, long[k].prev.last)
    <2>1. CASE k = n + 1
      <3>1. LastAfter(log, c, n, r.prev.last) /\ k - 1 = n /\ n \in 0..n
        BY <1>1, <2>1 DEF DatesOf, n
      <3> QED
        BY <1>1, <1>7, <2>1, <3>1
    <2>2. CASE k \in 1..n
      <3>1. LastAfter(log, c, k - 1, log[k].prev.last) /\ k - 1 \in 0..n
        BY <1>1, <1>4, <1>8, <2>2 DEF DatesOf, n
      <3> QED
        BY <1>1, <1>7, <2>2, <3>1
    <2> QED
      BY <1>1, <2>1, <2>2
  <1>9. ASSUME NEW i \in 1..n, CountsIn(log, c, i)
        PROVE  log[i].result.last <= r.prev.last
    <2>1. PICK j \in 1..n : /\ CountsIn(log, c, j)
                            /\ log[j].result.last = r.prev.last
                            /\ \A l \in j+1..n : ~CountsIn(log, c, l)
      BY <1>9 DEF DatesOf, LastAfter, n
    <2>2. i <= j
      BY <1>1, <1>9, <2>1
    <2> QED
      BY <1>1, <1>2, <1>9, <2>1, <2>2 DEF DatesOf, n
  <1>10. ASSUME NEW i \in 1..n+1, NEW j \in 1..n+1,
                CountsIn(long, c, i), CountsIn(long, c, j), i < j
         PROVE  long[i].result.last <= long[j].result.last
    <2>1. i \in 1..n /\ CountsIn(log, c, i)
      BY <1>1, <1>4, <1>10
    <2>2. CASE j = n + 1
      BY <1>1, <1>2, <1>3, <1>9, <2>1, <2>2
    <2>3. CASE j \in 1..n
      BY <1>1, <1>4, <1>10, <2>1, <2>3 DEF DatesOf, n
    <2> QED
      BY <1>1, <2>2, <2>3
  <1> QED
    BY <1>1, <1>6, <1>8, <1>10 DEF DatesOf, long

(* Reversing the latest payment of c brings back the date it had kept.     *)
LEMMA DatesReverse ==
  ASSUME NEW log, NEW long, NEW c, NEW d, Len(log) \in Nat,
         NEW o \in 1..Len(log), Len(long) = Len(log) + 1,
         CountsIn(log, c, o), ~CountsIn(long, c, o),
         ~CountsIn(long, c, Len(log) + 1),
         \A i \in 1..Len(log) : i # o => long[i] = log[i],
         \A i \in o+1..Len(log) : log[i].customer # c,
         DatesOf(log, c, d)
  PROVE  DatesOf(long, c, log[o].prev.last)
  <1> DEFINE n == Len(log)
             p == log[o].prev.last
  <1>0. n \in Nat /\ o \in 1..n /\ Len(long) = n + 1
    OBVIOUS
  <1>1. \A i \in 1..o-1 : i \in 1..n /\ i # o /\ long[i] = log[i]
    OBVIOUS
  <1>2. \A i \in 1..o-1 : /\ CountsIn(long, c, i) <=> CountsIn(log, c, i)
                          /\ long[i].result = log[i].result
    BY <1>1 DEF CountsIn
  <1>3. LastAfter(log, c, o - 1, p)
    BY DEF DatesOf
  <1>4. ASSUME NEW i \in o..n+1 PROVE ~CountsIn(long, c, i)
    <2>1. CASE i = o \/ i = n + 1
      BY <2>1
    <2>2. CASE i \in o+1..n
      BY <2>2 DEF CountsIn
    <2> QED
      BY <1>0, <2>1, <2>2
  <1> HIDE DEF n, p
  <1>5. ASSUME NEW k \in 0..o-1, NEW e, LastAfter(log, c, k, e)
        PROVE  LastAfter(long, c, k, e)
    <2>1. k \in Nat /\ \A i \in 1..k : i \in 1..o-1
      BY <1>0
    <2> QED
      BY <1>2, <1>5, <2>1, LastAfterSame
  <1>6. LastAfter(long, c, n + 1, p)
    <2>1. o - 1 \in Nat /\ n + 1 \in Nat /\ o - 1 <= n + 1 /\ o - 1 \in 0..o-1
      BY <1>0
    <2>2. \A i \in (o-1)+1..n+1 : ~CountsIn(long, c, i)
      BY <1>0, <1>4
    <2>3. LastAfter(long, c, o - 1, p)
      BY <1>3, <1>5, <2>1
    <2> QED
      BY <2>1, <2>2, <2>3, LastAfterQuiet
  <1>7. \A i \in 1..n+1 : CountsIn(long, c, i) => i \in 1..o-1
    BY <1>0, <1>4
  <1>8. ASSUME NEW k \in 1..n+1, CountsIn(long, c, k)
        PROVE  LastAfter(long, c, k - 1, long[k].prev.last)
    <2>1. k \in 1..o-1 /\ k \in 1..n /\ k - 1 \in 0..o-1
      BY <1>0, <1>7, <1>8
    <2>2. long[k] = log[k] /\ CountsIn(log, c, k)
      BY <1>1, <1>2, <1>8, <2>1
    <2>3. LastAfter(log, c, k - 1, log[k].prev.last)
      BY <2>1, <2>2 DEF DatesOf, n
    <2> QED
      BY <1>5, <2>1, <2>2, <2>3
  <1>9. ASSUME NEW i \in 1..n+1, NEW j \in 1..n+1,
               CountsIn(long, c, i), CountsIn(long, c, j), i < j
        PROVE  long[i].result.last <= long[j].result.last
    <2>1. i \in 1..o-1 /\ j \in 1..o-1
      BY <1>7, <1>9
    <2>2. /\ i \in 1..n /\ j \in 1..n
          /\ CountsIn(log, c, i) /\ CountsIn(log, c, j)
          /\ long[i] = log[i] /\ long[j] = log[j]
      BY <1>1, <1>2, <1>9, <2>1 DEF n
    <2> QED
      BY <1>9, <2>2 DEF DatesOf, n
  <1> QED
    BY <1>0, <1>6, <1>8, <1>9 DEF DatesOf, p

(* A payment writes one record; it moves the date when it counts.          *)
LEMMA EvaluateDates ==
  ASSUME CreditTypeOK, CreditTypeOK', DatesAgree, NEW e \in Events,
         NEW m \in Nat, Evaluate(e, m)
  PROVE  DatesAgree'
  <1> DEFINE b == e.customer
             s == credit[b]
             v == Verdict(e, s)
             new == Scored(v, s, e.day)
             r == [payment |-> e.id, customer |-> b, verdict |-> v,
                   of |-> NoPayment, prev |-> s, result |-> new,
                   reversed |-> FALSE]
             n == Len(records)
  <1>1. /\ b \in Customers /\ e.day \in Nat /\ s \in States /\ s.last \in Nat
        /\ records \in Seq(Records) /\ credit \in [Customers -> States]
    BY DEF Events, CreditTypeOK, States
  <1>2. records' = Append(records, r) /\ credit' = [credit EXCEPT ![b] = new]
    BY DEF Evaluate
  <1>3. credit'[b] = new /\ \A c \in Customers : c # b => credit'[c] = credit[c]
    BY <1>1, <1>2
  <1>4. \/ v = "IGNORED" /\ new.last = s.last
        \/ /\ v \in {"ONTIME", "LATE"}
           /\ new.last = e.day /\ e.day > 0 /\ e.day >= s.last
    BY <1>1 DEF Verdict, Scored
  <1>5. /\ r.customer = b /\ r.verdict = v /\ r.prev = s /\ r.result = new
        /\ ~r.reversed
    OBVIOUS
  <1>6. /\ n \in Nat /\ Len(records') = n + 1 /\ records'[n + 1] = r
        /\ \A i \in 1..n : records'[i] = records[i]
    BY <1>1, <1>2 DEF CreditTypeOK
  <1>7. r \in Records
    <2>1. records' \in Seq(Records) /\ n + 1 \in 1..Len(records')
      BY <1>6 DEF CreditTypeOK
    <2> HIDE DEF r, n
    <2> QED
      BY <1>6, <2>1, Row
  <1> HIDE DEF r, new, v, s, b
  <1> SUFFICES ASSUME NEW c \in Customers
               PROVE  DatesOf(records', c, credit'[c].last)
    BY DEF DatesAgree
  <1>8. DatesOf(records, c, credit[c].last)
    BY DEF DatesAgree
  <1>9. CASE c = b /\ v \in {"ONTIME", "LATE"}
    <2>1. /\ r.result.last = e.day /\ r.prev.last = credit[c].last
          /\ r.result.last > 0 /\ r.result.last >= r.prev.last
          /\ credit'[c].last = r.result.last
      BY <1>3, <1>4, <1>5, <1>9 DEF s
    <2>2. DatesOf(records, c, r.prev.last)
      BY <1>8, <2>1
    <2>3. DatesOf(Append(records, r), c, r.result.last)
      BY <1>1, <1>5, <1>7, <1>9, <2>1, <2>2, DatesCount
    <2> QED
      BY <1>2, <2>1, <2>3
  <1>10. CASE c # b \/ v = "IGNORED"
    <2>1. ~CountsIn(records', c, n + 1)
      BY <1>5, <1>6, <1>10 DEF CountsIn
    <2>2. \A i \in 1..n : /\ CountsIn(records', c, i) <=> CountsIn(records, c, i)
                          /\ records'[i].result = records[i].result
                          /\ records'[i].prev = records[i].prev
      BY <1>6 DEF CountsIn
    <2>3. credit'[c].last = credit[c].last
      BY <1>3, <1>4, <1>10 DEF s
    <2>4. DatesOf(records', c, credit[c].last)
      BY <1>6, <1>8, <2>1, <2>2, DatesCarry
    <2> QED
      BY <2>3, <2>4
  <1> QED
    BY <1>4, <1>9, <1>10

(* A reversal that saw everything takes away the latest payment.           *)
LEMMA ReverseDates ==
  ASSUME CreditTypeOK, DatesAgree, NEW e \in Events,
         Reverse(e, Len(records)), PayersAgree'
  PROVE  DatesAgree'
  <1>1. PICK o \in 1..Len(records) :
          LET c == e.customer  s == credit[c]  r == records[o] IN
          /\ Reversible(o, c, Len(records))
          /\ records' = Append([records EXCEPT ![o].reversed = TRUE],
                [payment |-> e.id, customer |-> c, verdict |-> "REVERSED",
                 of |-> r.payment, prev |-> s, result |-> r.prev,
                 reversed |-> FALSE])
          /\ credit' = [credit EXCEPT ![c] = r.prev]
    BY DEF Reverse
  <1> DEFINE b == e.customer
             n == Len(records)
             r == [payment |-> e.id, customer |-> b, verdict |-> "REVERSED",
                   of |-> records[o].payment, prev |-> credit[b],
                   result |-> records[o].prev, reversed |-> FALSE]
             marked == [records[o] EXCEPT !.reversed = TRUE]
             q == [records EXCEPT ![o] = marked]
  <1>2. records \in Seq(Records) /\ records[o] \in Records
    BY Row DEF CreditTypeOK
  <1>3. b \in Customers /\ credit \in [Customers -> States]
    BY DEF Events, CreditTypeOK
  <1>4. /\ credit'[b] = records[o].prev
        /\ \A c \in Customers : c # b => credit'[c] = credit[c]
    BY <1>1, <1>3
  <1>5. /\ marked \in Records /\ marked.reversed
        /\ marked.customer = records[o].customer
        /\ marked.payment = records[o].payment
    BY <1>2 DEF Records
  <1>6. /\ r.customer = b /\ r.verdict = "REVERSED"
        /\ r.of = records[o].payment
    OBVIOUS
  <1>7. records' = Append(q, r)
    BY <1>1
  <1> HIDE DEF r, marked
  <1>8. /\ Len(q) = n /\ n \in Nat /\ q[o] = marked /\ q \in Seq(Records)
        /\ \A j \in 1..n : j # o => q[j] = records[j]
    BY <1>2, <1>5, Rewritten
  <1> HIDE DEF q
  <1>9. /\ Len(records') = n + 1 /\ records'[n + 1] = r
        /\ \A i \in 1..n : records'[i] = q[i]
    BY <1>7, <1>8
  <1>10. /\ records[o].verdict \in {"ONTIME", "LATE"} /\ ~records[o].reversed
         /\ \A i \in o+1..n : records[i].customer # b
    BY <1>1, <1>8 DEF Reversible, ReversibleNow
  <1>11. /\ records'[o] = marked
         /\ \A i \in 1..n : i # o => records'[i] = records[i]
    BY <1>8, <1>9
  <1> HIDE DEF b, n
  <1>12. records[o].customer = b
    <2>1. /\ o \in 1..Len(records') /\ n + 1 \in 1..Len(records')
          /\ records'[n + 1].verdict = "REVERSED"
          /\ records'[n + 1].of = records'[o].payment
      BY <1>5, <1>6, <1>8, <1>9, <1>11 DEF n
    <2>2. records'[n + 1].customer = records'[o].customer
      BY <2>1 DEF PayersAgree
    <2> QED
      BY <1>5, <1>6, <1>9, <1>11, <2>2
  <1> SUFFICES ASSUME NEW c \in Customers
               PROVE  DatesOf(records', c, credit'[c].last)
    BY DEF DatesAgree
  <1>13. DatesOf(records, c, credit[c].last)
    BY DEF DatesAgree
  <1>14. ~CountsIn(records', c, o) /\ ~CountsIn(records', c, n + 1)
    BY <1>5, <1>6, <1>9, <1>11 DEF CountsIn
  <1>15. CASE c = b
    <2>1. \A i \in o+1..n : records[i].customer # c
      BY <1>10, <1>15
    <2>2. CountsIn(records, c, o)
      BY <1>10, <1>12, <1>15 DEF CountsIn
    <2>3. DatesOf(records', c, records[o].prev.last)
      BY <1>8, <1>9, <1>11, <1>13, <1>14, <2>1, <2>2, DatesReverse DEF n
    <2> QED
      BY <1>4, <1>15, <2>3
  <1>16. CASE c # b
    <2>1. ASSUME NEW i \in 1..n
          PROVE  /\ CountsIn(records', c, i) <=> CountsIn(records, c, i)
                 /\ CountsIn(records, c, i) =>
                       /\ records'[i].result = records[i].result
                       /\ records'[i].prev = records[i].prev
      <3>1. CASE i = o
        BY <1>12, <1>14, <1>16, <3>1 DEF CountsIn
      <3>2. CASE i # o
        BY <1>11, <3>2 DEF CountsIn
      <3> QED
        BY <3>1, <3>2
    <2>2. credit'[c].last = credit[c].last
      BY <1>4, <1>16
    <2>3. DatesOf(records', c, credit[c].last)
      BY <1>8, <1>9, <1>13, <1>14, <2>1, DatesCarry DEF n
    <2> QED
      BY <2>2, <2>3
  <1> QED
    BY <1>15, <1>16

LEMMA DatesStep ==
  ASSUME CreditTypeOK, CreditTypeOK', NoneWaiting, [CreditNext]_vars,
         settings # NoSettings, DatesAgree, PayersAgree'
  PROVE  DatesAgree'
  <1>1. CASE /\ UNCHANGED records
             /\ \A c \in Customers : credit'[c].last = credit[c].last
    BY <1>1 DEF DatesAgree
  <1>2. ASSUME NEW e \in Events, NEW n \in Nat,
               Evaluate(e, n) \/ Reverse(e, n),
               n = Len(records) \/ \E w \in Workers : tx[w] # Idle
        PROVE  DatesAgree'
    <2>1. n = Len(records)
      BY <1>2 DEF NoneWaiting
    <2> QED
      BY <1>2, <2>1, EvaluateDates, ReverseDates
  <1> QED
    BY <1>1, <1>2, RecordsStep

(* A tenant that has saved its settings evaluates its payments one by one, *)
(* so whatever payments, reversals, decisions and new settings follow, the *)
(* date that decides which late arrivals are ignored stays the date of the *)
(* latest payment that counts, and every payment keeps the date its        *)
(* reversal has to put back.                                               *)
THEOREM DateIsLatest == CreditSpec => DatesKept
  <1>1. CreditInit => NoneWaiting
    BY DEF CreditInit, NoneWaiting
  <1>2. CreditTypeOK /\ CreditTypeOK' /\ NoneWaiting /\ [CreditNext]_vars
           => [settings # NoSettings /\ DatesAgree /\ PayersAgree'
                 => DatesAgree']_vars
    BY DatesStep
  <1> QED
    BY <1>1, <1>2, CreditTypeCorrect, NoneWaitingStep, PTL
    DEF CreditSpec, DatesKept

=============================================================================
