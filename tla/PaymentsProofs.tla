--------------------------- MODULE PaymentsProofs ---------------------------
(***************************************************************************)
(* Proof that an order is paid exactly once, for any number of payments,   *)
(* initiations, deliveries, refunds and faults, and then that refunds      *)
(* reserve no more than was paid and that a payment's status says what was *)
(* given back, for any number of refunds of any amounts: first what a sum  *)
(* over a finite set is, whatever order its fold takes the elements in;    *)
(* then the types and the life of a refund; then what each step does to    *)
(* the sums.                                                               *)
(***************************************************************************)
EXTENDS Payments, FiniteSetTheorems, WellFoundedInduction, TLAPS

Open     == Active \cup {"succeeded"}
GivenBack == {"partially_refunded", "refunded"}
Statuses == {"none"} \cup Active \cup Final

Fields == {"status", "step", "pay", "amount", "seen", "answer"}

\* The parts of the state the argument is about have their shape.
Shaped ==
    /\ status \in [Payment -> Statuses]
    /\ ref \subseteq Payment /\ linked \subseteq ref
    /\ job \in [Request -> [step : JobSteps, pay : Payment \cup {None},
                            next : Answers \cup {"none"}]]
    /\ \A i \in Request :
          /\ job[i].step \in {"call", "write"} => job[i].pay \in Payment
          /\ job[i].step = "write" => job[i].next \in Answers
    /\ refund = [r \in Refund |-> refund[r]]
    /\ \A r \in Refund :
          /\ refund[r] = [x \in Fields |-> refund[r][x]]
          /\ refund[r].step # "idle" => refund[r].pay \in Payment
          /\ refund[r].step = "idle" => refund[r].status = "none"

\* The unique index: one payment of the order is active or succeeded.
OneOpen == \A p, q \in Having(Open) : p = q

CompletedIsSold == order = "completed" => sold

SoldIffPaid   == sold <=> Having(Paid) # {}
RefundsOfPaid == \A r \in Refund : refund[r].step # "idle" => refund[r].pay \in Having(Paid)
\* While nothing was given back and the order stands, who was sent to a
\* checkout was sent to that of the open payment.
LinkedOpen ==
    Having(GivenBack) = {} /\ order \in {"pending_payment", "completed"}
        => linked \subseteq Having(Open)

Books == ~crossed => SoldIffPaid /\ RefundsOfPaid /\ LinkedOpen

IInv == Shaped /\ OneOpen /\ CompletedIsSold /\ Books

-----------------------------------------------------------------------------
LEMMA InitHolds == Init => IInv
<1> SUFFICES ASSUME Init PROVE IInv
  OBVIOUS
<1>1. Shaped
  <2>1. \A r \in Refund : refund[r] = NoRefund
    BY DEF Init
  <2>2. NoRefund = [x \in Fields |-> NoRefund[x]]
    BY DEF NoRefund, Fields
  <2> QED
    BY <2>1, <2>2, NoneAssumption DEF Init, Shaped, Statuses, Idle, JobSteps, NoRefund
<1>2. \A S : "none" \notin S => Having(S) = {}
  BY DEF Init, Having
<1>3. OneOpen
  BY <1>2 DEF OneOpen, Open, Active
<1>4. Books
  BY <1>2 DEF Init, Books, SoldIffPaid, RefundsOfPaid, LinkedOpen, Paid, NoRefund
<1> QED
  BY <1>1, <1>3, <1>4 DEF IInv, CompletedIsSold, Init

-----------------------------------------------------------------------------
(* Steps that leave alone what the invariant reads.                        *)

read == <<order, status, ref, linked, job, refund, sold, crossed>>

LEMMA Untouched == IInv /\ UNCHANGED read => IInv'
<1> SUFFICES ASSUME IInv, UNCHANGED read PROVE IInv'
  OBVIOUS
<1>1. \A S : Having(S)' = Having(S)
  BY DEF read, Having
<1>2. Shaped'
  BY DEF IInv, Shaped, read
<1>3. OneOpen'
  BY <1>1 DEF IInv, OneOpen, read
<1>4. Books'
  BY <1>1 DEF IInv, Books, SoldIffPaid, RefundsOfPaid, LinkedOpen, read
<1> QED
  BY <1>2, <1>3, <1>4 DEF IInv, CompletedIsSold, read

(* Steps of an initiation, and what ends a hold.                           *)

\* Where refunds are as they were, their part of the shape is.
Ledger ==
    /\ refund = [r \in Refund |-> refund[r]]
    /\ \A r \in Refund :
          /\ refund[r] = [x \in Fields |-> refund[r][x]]
          /\ refund[r].step # "idle" => refund[r].pay \in Payment
          /\ refund[r].step = "idle" => refund[r].status = "none"

LEMMA LedgerKept == Shaped /\ UNCHANGED refund => Ledger'
BY DEF Shaped, Ledger

LEMMA InitiateKeeps ==
    ASSUME IInv, NEW i \in Request, InitiatePayment(i) PROVE IInv'
<1> USE DEF InitiatePayment, refunds
<1>1. \A S : Having(S)' = Having(S)
  BY DEF Having
<1>2. Shaped'
  <2>1. linked' \subseteq ref
    BY DEF IInv, Shaped
  <2>2. /\ job' \in [Request -> [step : JobSteps, pay : Payment \cup {None},
                                 next : Answers \cup {"none"}]]
        /\ \A j \in Request :
              /\ job'[j].step \in {"call", "write"} => job'[j].pay \in Payment
              /\ job'[j].step = "write" => job'[j].next \in Answers
    <3>0. /\ job \in [Request -> [step : JobSteps, pay : Payment \cup {None},
                                  next : Answers \cup {"none"}]]
          /\ \A j \in Request :
                /\ job[j].step \in {"call", "write"} => job[j].pay \in Payment
                /\ job[j].step = "write" => job[j].next \in Answers
      BY DEF IInv, Shaped
    <3>1. \/ job' = [job EXCEPT ![i].step = "create"]
          \/ \E p \in Payment : job' = [job EXCEPT ![i].step = "call", ![i].pay = p]
          \/ UNCHANGED job
      BY DEF Having
    <3> HIDE DEF InitiatePayment
    <3>2. CASE job' = [job EXCEPT ![i].step = "create"]
      BY <3>0, <3>2 DEF JobSteps
    <3>3. CASE \E p \in Payment : job' = [job EXCEPT ![i].step = "call", ![i].pay = p]
      BY <3>0, <3>3 DEF JobSteps
    <3> QED
      BY <3>0, <3>1, <3>2, <3>3
  <2> QED
    BY <2>1, <2>2, LedgerKept DEF IInv, Shaped, Ledger
<1>3. LinkedOpen => LinkedOpen'
  BY <1>1 DEF LinkedOpen, Open, Having
<1>4. Books'
  BY <1>1, <1>3 DEF IInv, Books, SoldIffPaid, RefundsOfPaid
<1> QED
  BY <1>1, <1>2, <1>4 DEF IInv, OneOpen, CompletedIsSold

LEMMA CreateKeeps ==
    ASSUME IInv, NEW i \in Request, CreatePayment(i) PROVE IInv'
<1> USE DEF CreatePayment, refunds
<1>1. CASE Having(Open) # {}
  <2>1. UNCHANGED status /\ linked' = linked \cup (Having(Active) \cap ref)
        /\ job' = [job EXCEPT ![i] = Idle]
    BY <1>1 DEF Open
  <2>2. \A S : Having(S)' = Having(S)
    BY <2>1 DEF Having
  <2>3. Shaped'
    BY <2>1, LedgerKept DEF IInv, Shaped, Ledger, JobSteps, Idle
  <2>4. LinkedOpen => LinkedOpen'
    BY <2>1, <2>2 DEF LinkedOpen, Open, Having
  <2>5. Books'
    BY <2>2, <2>4 DEF IInv, Books, SoldIffPaid, RefundsOfPaid
  <2> QED
    BY <2>2, <2>3, <2>5 DEF IInv, OneOpen, CompletedIsSold
<1>2. CASE Having(Open) = {}
  <2> DEFINE p == Some(Having({"none"}))
  <2>1. /\ p \in Payment /\ status[p] = "none"
        /\ status' = [status EXCEPT ![p] = "created"]
        /\ job' = [job EXCEPT ![i].step = "call", ![i].pay = p]
        /\ UNCHANGED linked
    BY <1>2 DEF Open, Some, Having
  <2> HIDE DEF p
  <2>2. \A S : "none" \notin S /\ "created" \notin S => Having(S)' = Having(S)
    BY <2>1 DEF Having, IInv, Shaped
  <2>3. Having(Open)' = {p}
    BY <1>2, <2>1 DEF Having, IInv, Shaped, Open, Active
  <2>4. Shaped'
    BY <2>1, LedgerKept DEF IInv, Shaped, Ledger, JobSteps, Statuses, Active
  <2>5. LinkedOpen => LinkedOpen'
    BY <1>2, <2>1, <2>2 DEF LinkedOpen, GivenBack
  <2>6. Books'
    BY <2>2, <2>5 DEF IInv, Books, SoldIffPaid, RefundsOfPaid, Paid
  <2> QED
    BY <2>3, <2>4, <2>6 DEF IInv, OneOpen, CompletedIsSold
<1> QED
  BY <1>1, <1>2

LEMMA CallKeeps ==
    ASSUME IInv, NEW i \in Request, CallProvider(i) PROVE IInv'
<1> USE DEF CallProvider, refunds
<1>1. \A S : Having(S)' = Having(S)
  BY DEF Having
<1>2. Shaped'
  <2>1. PICK s \in Answers :
            job' = [job EXCEPT ![i] = IF CanMove(status[job[i].pay], s)
                                      THEN [@ EXCEPT !.step = "write", !.next = s] ELSE Idle]
    OBVIOUS
  <2>2. CASE job' = [job EXCEPT ![i] = Idle]
    BY <2>2, LedgerKept DEF IInv, Shaped, Ledger, JobSteps, Idle
  <2>3. CASE job' = [job EXCEPT ![i] = [@ EXCEPT !.step = "write", !.next = s]]
    BY <2>3, LedgerKept DEF IInv, Shaped, Ledger, JobSteps
  <2> QED
    BY <2>1, <2>2, <2>3
<1>3. Books'
  BY <1>1 DEF IInv, Books, SoldIffPaid, RefundsOfPaid, LinkedOpen
<1> QED
  BY <1>1, <1>2, <1>3 DEF IInv, OneOpen, CompletedIsSold

LEMMA MarkKeeps ==
    ASSUME IInv, NEW i \in Request, MarkPayment(i) PROVE IInv'
<1> DEFINE p == job[i].pay
           s == job[i].next
           Refused == s \in Active /\ Having(Active \cup {"succeeded"}) \ {p} # {}
<1>1. /\ p \in Payment /\ s \in Answers
      /\ s \in {"pending", "requires_action", "failed"}
  BY ProviderAssumption DEF MarkPayment, IInv, Shaped
<1>2. /\ job' = [job EXCEPT ![i] = Idle]
      /\ UNCHANGED <<order, sold, refund>>
  BY DEF MarkPayment, refunds
<1>3. ASSUME UNCHANGED <<status, ref, linked, crossed>> PROVE IInv'
  <2>1. \A S : Having(S)' = Having(S)
    BY <1>3 DEF Having
  <2>2. Shaped'
    BY <1>2, <1>3, LedgerKept DEF IInv, Shaped, Ledger, JobSteps, Idle
  <2>3. Books'
    BY <1>2, <1>3, <2>1 DEF IInv, Books, SoldIffPaid, RefundsOfPaid, LinkedOpen
  <2> QED
    BY <1>2, <2>1, <2>2, <2>3 DEF IInv, OneOpen, CompletedIsSold
<1>4. ASSUME ~Refused PROVE IInv'
  <2>1. /\ status' = [status EXCEPT ![p] = s]
        /\ ref' = IF s \in Active THEN ref \cup {p} ELSE ref
        /\ linked' = IF s \in Active THEN linked \cup {p} ELSE linked
        /\ ~crossed' => ~crossed /\ CanMove(status[p], s) /\ ~(s = "failed" /\ p \in ref)
    BY <1>4 DEF MarkPayment
  <2> HIDE DEF p, s, Refused
  <2>2. Shaped'
    BY <1>1, <1>2, <2>1, LedgerKept
    DEF IInv, Shaped, Ledger, JobSteps, Idle, Statuses, Active, Final, Unpaid
  <2>3. \A q \in Payment \ {p} : status'[q] = status[q]
    BY <2>1 DEF IInv, Shaped
  <2>4. status'[p] = s
    BY <1>1, <2>1 DEF IInv, Shaped
  <2>5. OneOpen'
    <3>1. CASE s \in Active
      <4>1. Having(Open) \ {p} = {}
        BY <1>4, <3>1 DEF Refused, Open
      <4> QED
        BY <2>3, <4>1 DEF OneOpen, Having
    <3>2. CASE s = "failed"
      BY <2>3, <2>4, <3>2 DEF OneOpen, Having, Open, Active, IInv
    <3> QED
      BY <1>1, <3>1, <3>2 DEF Active
  <2>6. ASSUME ~crossed' PROVE SoldIffPaid' /\ RefundsOfPaid' /\ LinkedOpen'
    <3>1. status[p] \notin Paid
      BY <1>1, <2>1, <2>6 DEF CanMove, Paid, Active, Unpaid
    <3>2. s \notin Paid
      BY <1>1 DEF Paid
    <3>3. Having(Paid)' = Having(Paid)
      BY <2>3, <2>4, <3>1, <3>2 DEF Having
    <3>4. Having(GivenBack)' = Having(GivenBack)
      BY <2>3, <2>4, <3>1, <3>2 DEF Having, GivenBack, Paid
    <3>5. SoldIffPaid /\ RefundsOfPaid /\ LinkedOpen
      BY <2>1, <2>6 DEF IInv, Books
    <3>6. LinkedOpen'
      <4>1. CASE s \in Active
        BY <1>1, <1>2, <2>1, <2>3, <2>4, <3>4, <3>5, <4>1 DEF LinkedOpen, Having, Open
      <4>2. CASE s = "failed"
        <5>1. p \notin linked /\ linked' = linked
          BY <2>1, <2>6, <4>2 DEF IInv, Shaped, Active
        <5> QED
          BY <1>2, <2>3, <3>4, <3>5, <5>1 DEF LinkedOpen, Having
      <4> QED
        BY <1>1, <4>1, <4>2 DEF Active
    <3> QED
      BY <1>2, <3>3, <3>5, <3>6 DEF SoldIffPaid, RefundsOfPaid
  <2> QED
    BY <1>2, <2>2, <2>5, <2>6 DEF IInv, CompletedIsSold, Books
<1> QED
  BY <1>3, <1>4 DEF MarkPayment

LEMMA HoldKeeps ==
    ASSUME IInv, ExpireReservation PROVE IInv'
<1> USE DEF ExpireReservation, refunds
<1>1. Shaped'
  BY LedgerKept DEF IInv, Shaped, Ledger, Statuses, Active, Final, Unpaid
<1>2. \A S : S \cap (Active \cup {"expired"}) = {} => Having(S)' = Having(S)
  BY DEF Having, IInv, Shaped
<1>3. Having(Open)' \subseteq Having(Open)
  BY DEF Having, IInv, Shaped, Open, Active
<1>4. OneOpen'
  BY <1>3 DEF OneOpen, IInv
<1>5. Having(Paid)' = Having(Paid)
  BY <1>2 DEF Paid, Active
<1>6. Books'
  BY <1>5 DEF IInv, Books, SoldIffPaid, RefundsOfPaid, LinkedOpen
<1> QED
  BY <1>1, <1>4, <1>6 DEF IInv, CompletedIsSold

LEMMA CancelKeeps ==
    ASSUME IInv, CancelOrder PROVE IInv'
<1> USE DEF CancelOrder, refunds
<1>1. \A S : Having(S)' = Having(S)
  BY DEF Having
<1>2. Shaped'
  BY LedgerKept DEF IInv, Shaped, Ledger
<1>3. Books'
  BY <1>1 DEF IInv, Books, SoldIffPaid, RefundsOfPaid, LinkedOpen
<1> QED
  BY <1>1, <1>2, <1>3 DEF IInv, OneOpen, CompletedIsSold

-----------------------------------------------------------------------------
(* Steps of a refund.                                                      *)

\* A refund that is changed and stays with a paid payment.
LEMMA RefundChange ==
    ASSUME IInv, UNCHANGED payments, NEW r \in Refund, NEW k,
           refund' = [refund EXCEPT ![r] = k],
           k = [x \in Fields |-> k[x]],
           k.step # "idle", k.pay \in Payment,
           ~crossed => k.pay \in Having(Paid)
    PROVE  IInv'
<1>1. \A q \in Refund : refund'[q] = IF q = r THEN k ELSE refund[q]
  BY DEF IInv, Shaped
<1>2. refund' = [q \in Refund |-> refund'[q]]
  BY DEF IInv, Shaped
<1>3. \A S : Having(S)' = Having(S)
  BY DEF Having, payments
<1>4. Shaped'
  BY <1>1, <1>2 DEF IInv, Shaped, payments
<1>5. RefundsOfPaid /\ ~crossed => RefundsOfPaid'
  BY <1>1, <1>3 DEF RefundsOfPaid
<1>6. Books'
  BY <1>3, <1>5 DEF IInv, Books, SoldIffPaid, LinkedOpen, payments
<1> QED
  BY <1>3, <1>4, <1>6 DEF IInv, OneOpen, CompletedIsSold, payments

\* A refund that was asked for stays with its payment.
LEMMA RefundGoesOn ==
    ASSUME IInv, UNCHANGED payments, NEW r \in Refund, NEW k,
           refund' = [refund EXCEPT ![r] = k],
           k = [x \in Fields |-> k[x]],
           refund[r].step # "idle",
           k.step # "idle", k.pay = refund[r].pay
    PROVE  IInv'
<1>1. k.pay \in Payment /\ (~crossed => k.pay \in Having(Paid))
  BY DEF IInv, Shaped, Books, RefundsOfPaid
<1> QED
  BY <1>1, RefundChange

LEMMA RequestRefundKeeps ==
    ASSUME IInv, NEW r \in Refund, RequestRefund(r) PROVE IInv'
<1>0. PICK p \in Having({"succeeded", "partially_refunded"}) \cap ref :
        \E n \in 1 .. Remaining(p) :
          refund' = [refund EXCEPT ![r] = [@ EXCEPT !.step = "insert", !.pay = p,
                                                    !.amount = n, !.seen = Reserved(p)]]
  BY DEF RequestRefund
<1>1. PICK n \in 1 .. Remaining(p) :
          refund' = [refund EXCEPT ![r] = [@ EXCEPT !.step = "insert", !.pay = p,
                                                    !.amount = n, !.seen = Reserved(p)]]
  BY <1>0
<1> DEFINE k == [refund[r] EXCEPT !.step = "insert", !.pay = p, !.amount = n,
                                  !.seen = Reserved(p)]
<1>2. p \in Payment /\ p \in Having(Paid)
  BY DEF Having, Paid
<1>3. refund' = [refund EXCEPT ![r] = k]
  BY <1>1
<1>4. refund[r] = [x \in Fields |-> refund[r][x]]
  BY DEF IInv, Shaped
<1>5. k = [x \in Fields |-> k[x]] /\ k.step = "insert" /\ k.pay = p
  BY <1>4 DEF Fields
<1>6. UNCHANGED payments
  BY DEF RequestRefund
<1> HIDE DEF k
<1> QED
  BY <1>2, <1>3, <1>5, <1>6, RefundChange

LEMMA RefundStepsKeep ==
    ASSUME IInv, NEW r \in Refund,
           InsertRefund(r) \/ CallRefund(r) \/ MarkRefund(r) \/ RefreshRead(r)
    PROVE  IInv'
<1>1. refund[r] = [x \in Fields |-> refund[r][x]]
  BY DEF IInv, Shaped
<1>2. UNCHANGED payments /\ refund[r].step # "idle"
  BY DEF InsertRefund, CallRefund, MarkRefund, RefreshRead
<1>3. CASE InsertRefund(r)
  <2> DEFINE k == [refund[r] EXCEPT !.status = "created", !.step = "call", !.seen = 0]
  <2>1. refund' = [refund EXCEPT ![r] = k]
    BY <1>3 DEF InsertRefund
  <2>2. k = [x \in Fields |-> k[x]] /\ k.step = "call" /\ k.pay = refund[r].pay
    BY <1>1 DEF Fields
  <2> HIDE DEF k
  <2> QED
    BY <1>2, <2>1, <2>2, RefundGoesOn
<1>4. CASE CallRefund(r)
  <2>1. PICK s \in RefundReports :
            refund' = [refund EXCEPT ![r].step = "mark", ![r].answer = s]
    BY <1>4 DEF CallRefund
  <2> DEFINE k == [refund[r] EXCEPT !.step = "mark", !.answer = s]
  <2>2. refund' = [refund EXCEPT ![r] = k]
    BY <2>1
  <2>3. k = [x \in Fields |-> k[x]] /\ k.step = "mark" /\ k.pay = refund[r].pay
    BY <1>1 DEF Fields
  <2> HIDE DEF k
  <2> QED
    BY <1>2, <2>2, <2>3, RefundGoesOn
<1>5. CASE MarkRefund(r)
  <2> DEFINE next == IF Refreshing(refund[r].answer) THEN "refresh" ELSE "done"
             k == [refund[r] EXCEPT !.status = refund[r].answer, !.step = next]
  <2>1. refund' = [refund EXCEPT ![r] = k]
    BY <1>5 DEF MarkRefund
  <2>2. k = [x \in Fields |-> k[x]] /\ k.step # "idle" /\ k.pay = refund[r].pay
    BY <1>1 DEF Fields
  <2> HIDE DEF k
  <2> QED
    BY <1>2, <2>1, <2>2, RefundGoesOn
<1>6. CASE RefreshRead(r)
  <2> DEFINE k == [refund[r] EXCEPT !.step = "done"]
             m == [refund[r] EXCEPT !.step = "write", !.seen = Refunded(refund[r].pay)]
  <2>1. refund' = [refund EXCEPT ![r] = k] \/ refund' = [refund EXCEPT ![r] = m]
    BY <1>6 DEF RefreshRead
  <2>2. k = [x \in Fields |-> k[x]] /\ k.step = "done" /\ k.pay = refund[r].pay
    BY <1>1 DEF Fields
  <2>3. m = [x \in Fields |-> m[x]] /\ m.step = "write" /\ m.pay = refund[r].pay
    BY <1>1 DEF Fields
  <2> HIDE DEF k, m
  <2> QED
    BY <1>2, <2>1, <2>2, <2>3, RefundGoesOn
<1> QED
  BY <1>3, <1>4, <1>5, <1>6

\* The status is written without another look: the payment was paid, and now
\* it is one of which something was given back.
LEMMA RefreshWriteKeeps ==
    ASSUME IInv, NEW r \in Refund, RefreshWrite(r) PROVE IInv'
<1> DEFINE p == refund[r].pay
           s == RefundedStatus(refund[r].seen)
           k == [refund[r] EXCEPT !.step = "done", !.seen = 0]
<1>1. p \in Payment /\ s \in GivenBack /\ (~crossed => p \in Having(Paid))
  BY DEF RefreshWrite, IInv, Shaped, Books, RefundsOfPaid, RefundedStatus, GivenBack
<1>2. /\ status' = [status EXCEPT ![p] = s]
      /\ refund' = [refund EXCEPT ![r] = k]
      /\ UNCHANGED <<order, ref, linked, job, sold, crossed>>
  BY DEF RefreshWrite
<1>3. refund[r] = [x \in Fields |-> refund[r][x]]
  BY DEF IInv, Shaped
<1>4. k = [x \in Fields |-> k[x]] /\ k.step = "done" /\ k.pay = p
  BY <1>3 DEF Fields
<1> HIDE DEF s, k
<1>5. \A q \in Refund : refund'[q] = IF q = r THEN k ELSE refund[q]
  BY <1>2 DEF IInv, Shaped
<1>6. refund' = [q \in Refund |-> refund'[q]]
  BY <1>2 DEF IInv, Shaped
<1>7. \A q \in Payment : status'[q] = IF q = p THEN s ELSE status[q]
  BY <1>2 DEF IInv, Shaped
<1>8. Shaped'
  <2>1. status' \in [Payment -> Statuses]
    BY <1>1, <1>2 DEF IInv, Shaped, Statuses, Final, Paid, GivenBack
  <2> QED
    BY <1>1, <1>2, <1>4, <1>5, <1>6, <2>1 DEF IInv, Shaped
<1>9. OneOpen'
  BY <1>1, <1>7 DEF IInv, OneOpen, Having, Open, GivenBack, Active
<1>10. ASSUME ~crossed' PROVE SoldIffPaid' /\ RefundsOfPaid' /\ LinkedOpen'
  <2>1. SoldIffPaid /\ RefundsOfPaid /\ p \in Having(Paid)
    BY <1>1, <1>2, <1>10 DEF IInv, Books
  <2>2. Having(Paid)' = Having(Paid)
    BY <1>1, <1>7, <2>1 DEF Having, GivenBack, Paid
  <2>3. Having(GivenBack)' # {}
    BY <1>1, <1>7 DEF Having
  <2>4. RefundsOfPaid'
    BY <1>4, <1>5, <2>1, <2>2 DEF RefundsOfPaid
  <2> QED
    BY <1>2, <2>1, <2>2, <2>3, <2>4 DEF SoldIffPaid, LinkedOpen
<1> QED
  BY <1>2, <1>8, <1>9, <1>10 DEF IInv, CompletedIsSold, Books

-----------------------------------------------------------------------------
(* Webhooks.                                                               *)

LEMMA ApplyPaymentKeeps ==
    ASSUME IInv, NEW d \in Delivery, ApplyPaymentEvent(d) PROVE IInv'
<1> DEFINE e == hand[d].event
           p == e.about
           s == e.status
<1>1. /\ p \in Payment /\ s \in Reports /\ CanMove(status[p], s)
      /\ s \in Active \cup {"succeeded"} \cup Unpaid \cup GivenBack
      /\ s = "succeeded" => order \in {"completed", "pending_payment"}
  BY ProviderAssumption DEF ApplyPaymentEvent, Applicable, PaymentEvents, Active, Unpaid, GivenBack
<1>2. /\ status' = [status EXCEPT ![p] = s]
      /\ order' = IF order # "pending_payment" THEN order
                  ELSE CASE s = "succeeded" -> "completed"
                         [] s = "failed" -> "payment_failed"
                         [] s = "cancelled" -> "payment_cancelled"
                         [] s = "expired" -> "expired"
                         [] OTHER -> order
      /\ sold' = (sold \/ order' = "completed")
      /\ UNCHANGED <<ref, linked, job, refund, crossed>>
  BY DEF ApplyPaymentEvent, refunds
<1> HIDE DEF e, p, s
<1>3. \A q \in Payment : status'[q] = IF q = p THEN s ELSE status[q]
  BY <1>2 DEF IInv, Shaped
<1>4. Shaped'
  <2>1. status' \in [Payment -> Statuses]
    BY <1>1, <1>2 DEF IInv, Shaped, Statuses, Final, Paid, Unpaid, GivenBack
  <2> QED
    BY <1>2, <2>1, LedgerKept DEF IInv, Shaped, Ledger
<1>5. s = "succeeded" => status[p] \in Open
  BY <1>1 DEF CanMove, Open, Active, Unpaid
<1>6. Having(Open)' \subseteq Having(Open)
  <2>1. s \in Active => status[p] \in Open
    BY <1>1 DEF CanMove, Open, Active, Unpaid
  <2>2. s \notin Active \cup {"succeeded"} => s \notin Open
    BY DEF Open
  <2> QED
    BY <1>3, <1>5, <2>1, <2>2 DEF Having
<1>7. OneOpen'
  BY <1>6 DEF IInv, OneOpen
<1>8. CompletedIsSold'
  BY <1>2 DEF CompletedIsSold
<1>9. ASSUME ~crossed' PROVE SoldIffPaid' /\ RefundsOfPaid' /\ LinkedOpen'
  <2>1. SoldIffPaid /\ RefundsOfPaid /\ LinkedOpen /\ CompletedIsSold /\ OneOpen
    BY <1>2, <1>9 DEF IInv, Books
  <2>2. CASE s = "succeeded"
    <3>1. sold' /\ order' = "completed"
      BY <1>1, <1>2, <2>2
    <3>2. Having(Paid)' = Having(Paid) \cup {p}
      BY <1>1, <1>3, <2>2 DEF Having, Paid
    <3>3. Having(Open)' = Having(Open)
      BY <1>3, <1>5, <2>2 DEF Having, Open
    <3>4. Having(GivenBack)' = Having(GivenBack)
      BY <1>3, <1>5, <2>2 DEF Having, GivenBack, Open, Active
    <3>5. LinkedOpen'
      BY <1>1, <1>2, <2>1, <2>2, <3>3, <3>4 DEF LinkedOpen
    <3> QED
      BY <1>2, <2>1, <3>1, <3>2, <3>5 DEF SoldIffPaid, RefundsOfPaid
  <2>3. CASE s \in Unpaid
    <3>1. status[p] \notin Paid /\ status[p] \in Open \cup Unpaid
      BY <1>1, <2>3 DEF CanMove, Paid, Unpaid, Open, Active
    <3>2. Having(Paid)' = Having(Paid)
      BY <1>3, <2>3, <3>1 DEF Having, Paid, Unpaid
    <3>3. Having(GivenBack)' = Having(GivenBack)
      BY <1>3, <2>3, <3>1 DEF Having, Paid, Unpaid, GivenBack
    <3>4. sold' <=> sold
      <4>1. order' = "completed" => order = "completed"
        BY <1>1, <1>2, <2>3 DEF Unpaid
      <4> QED
        BY <1>2, <2>1, <4>1 DEF CompletedIsSold
    <3>5. ASSUME Having(GivenBack) = {}, order' \in {"pending_payment", "completed"}
          PROVE  linked \subseteq Having(Open)'
      <4>1. order = "completed"
        BY <1>1, <1>2, <2>3, <3>5 DEF Unpaid
      <4>2. linked \subseteq Having(Open)
        BY <2>1, <3>5, <4>1 DEF LinkedOpen
      <4>3. PICK q \in Payment : status[q] = "succeeded"
        BY <2>1, <3>5, <4>1 DEF CompletedIsSold, SoldIffPaid, Having, Paid, GivenBack
      <4>4. status[p] \notin Open
        BY <1>1, <2>1, <3>1, <4>3 DEF OneOpen, Having, Open, Paid
      <4> QED
        BY <1>3, <4>2, <4>4 DEF Having
    <3>6. SoldIffPaid'
      BY <2>1, <3>2, <3>4 DEF SoldIffPaid
    <3>7. RefundsOfPaid'
      BY <1>2, <2>1, <3>2 DEF RefundsOfPaid
    <3>8. LinkedOpen'
      BY <1>2, <3>3, <3>5 DEF LinkedOpen
    <3> QED
      BY <3>6, <3>7, <3>8
  <2>4. CASE s \in Active
    <3>1. status[p] \in Active
      BY <1>1, <2>4 DEF CanMove, Active, Unpaid
    <3>2. order' = order /\ (sold' <=> sold)
      BY <1>2, <2>1, <2>4 DEF Active, CompletedIsSold
    <3>3. \A S : (S \cap Active = {} \/ Active \subseteq S) => Having(S)' = Having(S)
      BY <1>3, <2>4, <3>1 DEF Having
    <3>4. /\ Having(Paid)' = Having(Paid) /\ Having(GivenBack)' = Having(GivenBack)
          /\ Having(Open)' = Having(Open)
      BY <3>3 DEF Paid, GivenBack, Open, Active
    <3> QED
      BY <1>2, <2>1, <3>2, <3>4 DEF SoldIffPaid, RefundsOfPaid, LinkedOpen
  <2>5. CASE s \in GivenBack
    <3>1. status[p] \in Paid
      BY <1>1, <2>5 DEF CanMove, GivenBack, Paid, Active, Unpaid
    <3>2. order' = order /\ (sold' <=> sold)
      BY <1>2, <2>1, <2>5 DEF GivenBack, CompletedIsSold
    <3>3. Having(Paid)' = Having(Paid)
      BY <1>3, <2>5, <3>1 DEF Having, Paid, GivenBack
    <3>4. p \in Having(GivenBack)'
      BY <1>1, <1>3, <2>5 DEF Having
    <3> QED
      BY <1>2, <2>1, <3>2, <3>3, <3>4 DEF SoldIffPaid, RefundsOfPaid, LinkedOpen
  <2> QED
    BY <1>1, <2>2, <2>3, <2>4, <2>5
<1> QED
  BY <1>4, <1>7, <1>8, <1>9 DEF IInv, Books

LEMMA ApplyRefundKeeps ==
    ASSUME IInv, NEW d \in Delivery, ApplyRefundEvent(d) PROVE IInv'
<1> DEFINE e == hand[d].event
           r == e.about
           p == refund[r].pay
           Tells == Refreshing(e.status) /\ RefundedAfter(e) > 0
           s == RefundedStatus(RefundedAfter(e))
           k == [refund[r] EXCEPT !.status = e.status]
<1>1. r \in Refund /\ e.status \in {"pending", "succeeded", "failed", "cancelled"}
  BY ProviderAssumption DEF ApplyRefundEvent, RefundEvents
<1>2. /\ refund[r].status \in {"pending", e.status}
      /\ Tells => status[p] \in Paid
  <2>1. e \notin PaymentEvents
    BY KindsAssumption DEF ApplyRefundEvent, RefundEvents, PaymentEvents
  <2> QED
    BY <2>1 DEF ApplyRefundEvent, Applicable, Refundable
<1>3. /\ refund' = [refund EXCEPT ![r] = k]
      /\ status' = IF Tells THEN [status EXCEPT ![p] = s] ELSE status
      /\ UNCHANGED <<order, lapsed, ref, linked, job, sold, crossed, reported>>
  BY DEF ApplyRefundEvent
<1>4. s \in GivenBack
  BY DEF RefundedStatus, GivenBack
<1>5. refund[r] = [x \in Fields |-> refund[r][x]] /\ refund[r].step # "idle" /\ p \in Payment
  BY <1>1, <1>2 DEF IInv, Shaped
<1>6. k = [x \in Fields |-> k[x]] /\ k.step = refund[r].step /\ k.pay = p
  BY <1>5 DEF Fields
<1> HIDE DEF e, r, s, k, Tells
<1>7. \A q \in Refund : refund'[q] = IF q = r THEN k ELSE refund[q]
  BY <1>1, <1>3 DEF IInv, Shaped
<1>8. refund' = [q \in Refund |-> refund'[q]]
  BY <1>3 DEF IInv, Shaped
<1>9. Shaped'
  <2>1. status' \in [Payment -> Statuses]
    BY <1>3, <1>4 DEF IInv, Shaped, Statuses, Final, Paid, GivenBack
  <2> QED
    BY <1>3, <1>5, <1>6, <1>7, <1>8, <2>1 DEF IInv, Shaped
<1>10. CASE Tells
  <2>1. \A q \in Payment : status'[q] = IF q = p THEN s ELSE status[q]
    BY <1>3, <1>10 DEF IInv, Shaped
  <2>2. OneOpen'
    BY <1>4, <2>1 DEF IInv, OneOpen, Having, Open, GivenBack, Active
  <2>3. Having(Paid)' = Having(Paid)
    BY <1>2, <1>4, <1>10, <2>1 DEF Having, GivenBack, Paid
  <2>4. Having(GivenBack)' # {}
    BY <1>4, <1>5, <2>1 DEF Having
  <2>5. ASSUME ~crossed' PROVE SoldIffPaid' /\ RefundsOfPaid' /\ LinkedOpen'
    <3>1. SoldIffPaid /\ RefundsOfPaid
      BY <1>3, <2>5 DEF IInv, Books
    <3>2. RefundsOfPaid'
      BY <1>5, <1>6, <1>7, <2>3, <3>1 DEF RefundsOfPaid
    <3> QED
      BY <1>3, <2>3, <2>4, <3>1, <3>2 DEF SoldIffPaid, LinkedOpen
  <2> QED
    BY <1>3, <1>9, <2>2, <2>5 DEF IInv, CompletedIsSold, Books
<1>11. CASE ~ Tells
  <2>1. UNCHANGED payments
    BY <1>3, <1>11 DEF payments
  <2>2. k.step # "idle" /\ k.pay = refund[r].pay
    BY <1>5, <1>6
  <2> QED
    BY <1>1, <1>3, <1>5, <1>6, <2>1, <2>2, RefundGoesOn
<1> QED
  BY <1>10, <1>11

LEMMA CrashKeeps == ASSUME IInv, Crash PROVE IInv'
<1>1. UNCHANGED <<order, status, ref, linked, sold, crossed>>
  BY DEF Crash
<1>2. CASE \E i \in Request : job' = [job EXCEPT ![i] = Idle] /\ UNCHANGED refund
  <2>1. \A S : Having(S)' = Having(S)
    BY <1>1 DEF Having
  <2>2. Shaped'
    BY <1>1, <1>2, LedgerKept DEF IInv, Shaped, Ledger, JobSteps, Idle
  <2>3. Books'
    BY <1>1, <1>2, <2>1 DEF IInv, Books, SoldIffPaid, RefundsOfPaid, LinkedOpen
  <2> QED
    BY <1>1, <2>1, <2>2, <2>3 DEF IInv, OneOpen, CompletedIsSold
<1>3. CASE UNCHANGED <<job, refund>>
  BY <1>1, <1>3, Untouched DEF read
<1>4. ASSUME NEW r \in Refund, refund[r].step # "idle", UNCHANGED payments,
             refund' = [refund EXCEPT ![r].step = "lost"]
      PROVE  IInv'
  <2> DEFINE k == [refund[r] EXCEPT !.step = "lost"]
  <2>1. refund' = [refund EXCEPT ![r] = k]
    BY <1>4
  <2>2. refund[r] = [x \in Fields |-> refund[r][x]]
    BY DEF IInv, Shaped
  <2>3. k = [x \in Fields |-> k[x]] /\ k.step # "idle" /\ k.pay = refund[r].pay
    BY <2>2 DEF Fields
  <2> HIDE DEF k
  <2> QED
    BY <1>4, <2>1, <2>3, RefundGoesOn
<1> QED
  BY <1>2, <1>3, <1>4 DEF Crash, payments

-----------------------------------------------------------------------------
LEMMA StepKeeps == IInv /\ [Next]_vars => IInv'
<1> SUFFICES ASSUME IInv, [Next]_vars PROVE IInv'
  OBVIOUS
<1>1. ASSUME NEW i \in Request, Initiation(i) PROVE IInv'
  BY <1>1, InitiateKeeps, CreateKeeps, CallKeeps, MarkKeeps DEF Initiation
<1>2. CASE Lapse
  BY <1>2, Untouched DEF Lapse, read, refunds
<1>3. CASE ExpireReservation \/ CancelOrder
  BY <1>3, HoldKeeps, CancelKeeps
<1>4. ASSUME NEW r \in Refund, RefundStep(r) PROVE IInv'
  BY <1>4, RequestRefundKeeps, RefundStepsKeep, RefreshWriteKeeps DEF RefundStep
<1>5. CASE Emit
  BY <1>5, Untouched DEF Emit, read, payments, refunds
<1>6. ASSUME NEW d \in Delivery, NEW e \in Events, Receive(d, e) PROVE IInv'
  BY <1>6, Untouched DEF Receive, read, payments, refunds
<1>7. ASSUME NEW d \in Delivery, Handling(d) PROVE IInv'
  <2>1. CASE Record(d) \/ SkipEvent(d) \/ AbortEvent(d) \/ MarkFailed(d)
    <3>1. UNCHANGED <<payments, refunds>>
      BY <2>1 DEF Record, SkipEvent, AbortEvent, MarkFailed
    <3> QED
      BY <3>1, Untouched DEF read, payments, refunds
  <2> QED
    BY <1>7, <2>1, ApplyPaymentKeeps, ApplyRefundKeeps DEF Handling
<1>8. CASE Crash
  BY <1>8, CrashKeeps
<1>9. CASE UNCHANGED vars
  BY <1>9, Untouched DEF vars, read
<1> QED
  BY <1>1, <1>2, <1>3, <1>4, <1>5, <1>6, <1>7, <1>8, <1>9 DEF Next

\* The invariant holds in every state of every behaviour.
THEOREM Invariance == Spec => []IInv
<1>1. Init => IInv
  BY InitHolds
<1>2. IInv /\ [Next]_vars => IInv'
  BY StepKeeps
<1> QED
  BY <1>1, <1>2, PTL DEF Spec

\* A set of at most one element has a cardinality of at most one.
LEMMA AtMostOne ==
    ASSUME NEW S, \A x, y \in S : x = y PROVE Cardinality(S) <= 1
<1>1. CASE S = {}
  BY <1>1, FS_EmptySet
<1>2. CASE S # {}
  <2>1. PICK x \in S : TRUE
    BY <1>2
  <2>2. S = {x}
    BY <2>1
  <2> QED
    BY <2>2, FS_Singleton
<1> QED
  BY <1>1, <1>2

\* The unique index of payments and the transition rules keep at most one
\* payment of an order open, whoever initiates, retries, expires or settles it.
THEOREM OnePaymentOpen == Spec => []OneOpen
<1>1. IInv => OneOpen
  BY DEF IInv
<1> QED
  BY <1>1, Invariance, PTL

\* An order is completed exactly if a payment of it is paid, by one payment, and
\* its customer is sent to one checkout, however the steps of initiations,
\* webhooks, refunds, expiry and crashes interleave.
THEOREM PaidExactlyOnce == Spec => []PaidOnce
<1>1. IInv => PaidOnce
  <2> SUFFICES ASSUME IInv, ~crossed PROVE PaidOnce
    BY DEF PaidOnce
  <2>1. SoldIffPaid /\ LinkedOpen /\ OneOpen /\ linked \subseteq Payment
    BY DEF IInv, Books, Shaped
  <2>2. ASSUME Having(GivenBack) = {} PROVE Cardinality(Having(Paid)) <= 1
    <3>1. Having(Paid) \subseteq Having(Open)
      BY <2>2 DEF Having, Paid, GivenBack, Open
    <3> QED
      BY <2>1, <3>1, AtMostOne DEF OneOpen
  <2>3. ASSUME Having(GivenBack) = {}, order \in {"pending_payment", "completed"}
        PROVE  Cardinality(linked) <= 1
    <3>1. linked \subseteq Having(Open)
      BY <2>1, <2>3 DEF LinkedOpen
    <3> QED
      BY <2>1, <3>1, AtMostOne DEF OneOpen
  <2> QED
    BY <2>1, <2>2, <2>3 DEF PaidOnce, SoldIffPaid, GivenBack
<1> QED
  BY <1>1, Invariance, PTL

-----------------------------------------------------------------------------
(* Sums.  Induction is over the subsets of a finite set: a set of them     *)
(* that is not empty has a smallest one.                                   *)

\* The sum of the amounts of the refunds in T, in the ledger f.
Total(f, T) == MapThenSumSet(LAMBDA r : f[r].amount, T)

\* g gives the sum over each subset of T.
Sums(g, f, T) ==
    g = [s \in SUBSET T |-> IF s = {} THEN 0
                            ELSE f[Some(s)].amount + g[s \ {Some(s)}]]

LEMMA TotalDef ==
    ASSUME NEW f, NEW T
    PROVE  Total(f, T) = (CHOOSE g : Sums(g, f, T))[T]
BY DEF Total, MapThenSumSet, MapThenFoldSet, Sums, Some

\* A set of subsets of a finite set has a smallest one.
LEMMA Smallest ==
    ASSUME NEW S, IsFiniteSet(S), NEW T, T \subseteq SUBSET S, T # {}
    PROVE  \E x \in T : \A y \in T : y \subseteq x => y = x
<1>1. IsWellFoundedOn(StrictSubsetOrdering(S), FiniteSubsetsOf(S))
  BY FS_StrictSubsetOrderingWellFounded
<1>2. FiniteSubsetsOf(S) = SUBSET S
  BY FS_FiniteSubsetsOfFinite
<1>3. PICK x \in T : \A y \in T : <<y, x>> \notin StrictSubsetOrdering(S)
  BY <1>1, <1>2, WFMin
<1>4. \A y \in T : y \subseteq x /\ y # x => <<y, x>> \in StrictSubsetOrdering(S)
  BY DEF StrictSubsetOrdering
<1>5. \A y \in T : y \subseteq x => y = x
  BY <1>3, <1>4
<1> QED
  BY <1>5

LEMMA SumsStep ==
    ASSUME NEW f, NEW T, NEW g, Sums(g, f, T), NEW s \in SUBSET T
    PROVE  g[s] = IF s = {} THEN 0 ELSE f[Some(s)].amount + g[s \ {Some(s)}]
<1> DEFINE k(t) == IF t = {} THEN 0 ELSE f[Some(t)].amount + g[t \ {Some(t)}]
<1>1. g = [t \in SUBSET T |-> k(t)]
  BY DEF Sums
<1> HIDE DEF k
<1>2. g[s] = k(s)
  BY <1>1
<1> QED
  BY <1>2 DEF k

\* Two such functions agree where both are defined.
LEMMA SumsAgree ==
    ASSUME NEW f, NEW S, IsFiniteSet(S), NEW T \in SUBSET S, NEW U \in SUBSET S,
           NEW g, Sums(g, f, T), NEW h, Sums(h, f, U)
    PROVE  \A s \in SUBSET (T \cap U) : g[s] = h[s]
<1> DEFINE B == {s \in SUBSET (T \cap U) : g[s] # h[s]}
<1>1. SUFFICES ASSUME B # {} PROVE FALSE
  OBVIOUS
<1>2. B \subseteq SUBSET S
  OBVIOUS
<1>3. PICK s \in B : \A t \in B : t \subseteq s => t = s
  <2> HIDE DEF B
  <2> QED
    BY <1>1, <1>2, Smallest
<1> DEFINE x == Some(s)
<1>4. /\ g[s] = IF s = {} THEN 0 ELSE f[x].amount + g[s \ {x}]
      /\ h[s] = IF s = {} THEN 0 ELSE f[x].amount + h[s \ {x}]
      /\ s # {}
  <2>1. s \in SUBSET T /\ s \in SUBSET U /\ g[s] # h[s]
    BY <1>3
  <2> HIDE DEF B
  <2>2. g[s] = IF s = {} THEN 0 ELSE f[x].amount + g[s \ {x}]
    BY <2>1, SumsStep
  <2>3. h[s] = IF s = {} THEN 0 ELSE f[x].amount + h[s \ {x}]
    BY <2>1, SumsStep
  <2> QED
    BY <2>1, <2>2, <2>3
<1>5. x \in s /\ s \ {x} # s
  BY <1>4 DEF Some
<1>6. g[s] = f[x].amount + g[s \ {x}] /\ h[s] = f[x].amount + h[s \ {x}]
  BY <1>4
<1>7. s \ {x} \notin B
  BY <1>3, <1>5
<1>8. s \ {x} \in SUBSET (T \cap U)
  OBVIOUS
<1>9. g[s \ {x}] = h[s \ {x}]
  BY <1>7, <1>8
<1> QED
  BY <1>3, <1>6, <1>9

\* Over a finite set there is one.
LEMMA SumsExist ==
    ASSUME NEW f, NEW S, IsFiniteSet(S), NEW T \in SUBSET S
    PROVE  \E g : Sums(g, f, T)
<1> DEFINE B == {t \in SUBSET S : ~ \E g : Sums(g, f, t)}
           G(u) == CHOOSE g : Sums(g, f, u)
<1>1. SUFFICES ASSUME B # {} PROVE FALSE
  OBVIOUS
<1>2. B \subseteq SUBSET S
  OBVIOUS
<1>3. PICK t \in B : \A u \in B : u \subseteq t => u = t
  <2> HIDE DEF B
  <2> QED
    BY <1>1, <1>2, Smallest
<1>4. \A u \in SUBSET t : u # t => Sums(G(u), f, u)
  <2> SUFFICES ASSUME NEW u \in SUBSET t, u # t PROVE Sums(G(u), f, u)
    OBVIOUS
  <2>1. u \notin B
    BY <1>3
  <2>2. \E g : Sums(g, f, u)
    BY <2>1
  <2> QED
    BY <2>2
<1> DEFINE h == [s \in SUBSET t |-> IF s = {} THEN 0
                                   ELSE f[Some(s)].amount + G(s \ {Some(s)})[s \ {Some(s)}]]
<1>5. \A s \in SUBSET t : s # {} => Some(s) \in s
  BY DEF Some
<1> HIDE DEF G
<1>6. \A s \in SUBSET t : s # t => h[s] = G(s)[s]
  <2> SUFFICES ASSUME NEW s \in SUBSET t, s # t PROVE h[s] = G(s)[s]
    OBVIOUS
  <2> HIDE DEF B
  <2>1. Sums(G(s), f, s)
    BY <1>4
  <2>2. CASE s = {}
    BY <2>1, <2>2 DEF Sums
  <2>3. CASE s # {}
    <3>1. G(s)[s] = f[Some(s)].amount + G(s)[s \ {Some(s)}]
      BY <2>1, <2>3 DEF Sums
    <3>2. Sums(G(s \ {Some(s)}), f, s \ {Some(s)})
      BY <1>4, <1>5, <2>3
    <3>3. /\ s \in SUBSET S
          /\ s \ {Some(s)} \in SUBSET S
          /\ s \ {Some(s)} \in SUBSET (s \cap (s \ {Some(s)}))
      <4>1. t \in SUBSET S
        BY <1>2, <1>3
      <4> QED
        BY <4>1
    <3>4. \A u \in SUBSET (s \cap (s \ {Some(s)})) : G(s)[u] = G(s \ {Some(s)})[u]
      BY <2>1, <3>2, <3>3, SumsAgree
    <3> QED
      BY <2>3, <3>1, <3>3, <3>4
  <2> QED
    BY <2>2, <2>3
<1>7. Sums(h, f, t)
  <2>1. \A s \in SUBSET t : s # {} => h[s \ {Some(s)}] = G(s \ {Some(s)})[s \ {Some(s)}]
    <3> HIDE DEF h
    <3> QED
      BY <1>5, <1>6
  <2>2. h = [s \in SUBSET t |-> IF s = {} THEN 0 ELSE f[Some(s)].amount + h[s \ {Some(s)}]]
    <3>1. \A s \in SUBSET t : h[s] = IF s = {} THEN 0 ELSE f[Some(s)].amount + h[s \ {Some(s)}]
      BY <2>1
    <3>2. h = [s \in SUBSET t |-> h[s]]
      OBVIOUS
    <3> HIDE DEF h
    <3> QED
      BY <3>1, <3>2
  <2> HIDE DEF h
  <2> QED
    BY <2>2 DEF Sums
<1> QED
  BY <1>7

LEMMA TotalOfNone == ASSUME NEW f PROVE Total(f, {}) = 0
<1>1. \E g : Sums(g, f, {})
  BY SumsExist, FS_EmptySet
<1>2. Sums(CHOOSE g : Sums(g, f, {}), f, {})
  BY <1>1
<1> QED
  BY <1>2, TotalDef DEF Sums

\* The sum over a finite set is that of its chosen element and of the others.
LEMMA TotalOfSome ==
    ASSUME NEW f, NEW S, IsFiniteSet(S), NEW T \in SUBSET S, T # {}
    PROVE  Some(T) \in T /\ Total(f, T) = f[Some(T)].amount + Total(f, T \ {Some(T)})
<1> DEFINE x == Some(T)
           g == CHOOSE k : Sums(k, f, T)
           h == CHOOSE k : Sums(k, f, T \ {x})
<1>0. x \in T
  BY DEF Some
<1>1. T \ {x} \in SUBSET S
  OBVIOUS
<1>2. Sums(g, f, T) /\ Sums(h, f, T \ {x})
  <2>1. (\E k : Sums(k, f, T)) /\ (\E k : Sums(k, f, T \ {x}))
    BY <1>1, SumsExist
  <2> QED
    BY <2>1
<1>3. g[T] = f[x].amount + g[T \ {x}]
  BY <1>2, SumsStep
<1>4. Total(f, T) = g[T] /\ Total(f, T \ {x}) = h[T \ {x}]
  BY TotalDef
<1>5. T \ {x} \in SUBSET (T \cap (T \ {x}))
  OBVIOUS
<1> HIDE DEF g, h, x
<1>6. g[T \ {x}] = h[T \ {x}]
  BY <1>1, <1>2, <1>5, SumsAgree
<1> QED
  BY <1>0, <1>3, <1>4, <1>6 DEF x
\* Sums of natural numbers are natural numbers.
LEMMA TotalType ==
    ASSUME NEW f, NEW S, IsFiniteSet(S), \A r \in S : f[r].amount \in Nat
    PROVE  \A T \in SUBSET S : Total(f, T) \in Nat
<1> DEFINE B == {T \in SUBSET S : Total(f, T) \notin Nat}
<1> SUFFICES ASSUME B # {} PROVE FALSE
  OBVIOUS
<1>1. B \subseteq SUBSET S
  OBVIOUS
<1>2. PICK T \in B : \A U \in B : U \subseteq T => U = T
  <2> HIDE DEF B
  <2> QED
    BY <1>1, Smallest
<1>3. T \in SUBSET S /\ T # {}
  <2>1. T \in SUBSET S /\ Total(f, T) \notin Nat
    BY <1>2
  <2>2. Total(f, {}) = 0
    BY TotalOfNone
  <2> HIDE DEF B
  <2> QED
    BY <2>1, <2>2
<1>4. Some(T) \in T /\ Total(f, T) = f[Some(T)].amount + Total(f, T \ {Some(T)})
  <2> HIDE DEF B
  <2> QED
    BY <1>3, TotalOfSome
<1>5. Total(f, T \ {Some(T)}) \in Nat
  BY <1>2, <1>3, <1>4
<1>6. Total(f, T) \in Nat
  <2> HIDE DEF B
  <2> QED
    BY <1>3, <1>4, <1>5
<1> QED
  BY <1>6

\* A sum depends on its summands only.
LEMMA TotalSame ==
    ASSUME NEW f, NEW g, NEW S, IsFiniteSet(S)
    PROVE  \A T \in SUBSET S :
               (\A r \in T : f[r].amount = g[r].amount) => Total(f, T) = Total(g, T)
<1> DEFINE Same(T) == \A r \in T : f[r].amount = g[r].amount
           B == {T \in SUBSET S : Same(T) /\ Total(f, T) # Total(g, T)}
<1> SUFFICES ASSUME B # {} PROVE FALSE
  OBVIOUS
<1>1. B \subseteq SUBSET S
  OBVIOUS
<1>2. PICK T \in B : \A U \in B : U \subseteq T => U = T
  <2> HIDE DEF B
  <2> QED
    BY <1>1, Smallest
<1>3. T \in SUBSET S /\ T # {}
  BY <1>2, TotalOfNone
<1>4. /\ Some(T) \in T
      /\ Total(f, T) = f[Some(T)].amount + Total(f, T \ {Some(T)})
      /\ Total(g, T) = g[Some(T)].amount + Total(g, T \ {Some(T)})
  <2> HIDE DEF B
  <2> QED
    BY <1>3, TotalOfSome
<1>5. Total(f, T \ {Some(T)}) = Total(g, T \ {Some(T)})
  BY <1>2, <1>3, <1>4
<1> QED
  BY <1>2, <1>4, <1>5

\* Any one of the summands can be taken out.
LEMMA TotalCut ==
    ASSUME NEW f, NEW S, IsFiniteSet(S), \A r \in S : f[r].amount \in Nat
    PROVE  \A T \in SUBSET S : \A x \in T : Total(f, T) = f[x].amount + Total(f, T \ {x})
<1> DEFINE Cut(T) == \A x \in T : Total(f, T) = f[x].amount + Total(f, T \ {x})
           B == {T \in SUBSET S : ~Cut(T)}
<1> SUFFICES ASSUME B # {} PROVE FALSE
  OBVIOUS
<1>1. B \subseteq SUBSET S
  OBVIOUS
<1>2. PICK T \in B : \A U \in B : U \subseteq T => U = T
  <2> HIDE DEF B
  <2> QED
    BY <1>1, Smallest
<1>3. PICK x \in T : Total(f, T) # f[x].amount + Total(f, T \ {x})
  BY <1>2
<1> DEFINE y == Some(T)
<1>4. T \in SUBSET S
  BY <1>2
<1>5. \A U \in SUBSET T : U # T => Cut(U)
  BY <1>2, <1>4
<1> HIDE DEF B
<1>6. y \in T /\ Total(f, T) = f[y].amount + Total(f, T \ {y})
  BY <1>3, <1>4, TotalOfSome
<1> HIDE DEF y
<1>7. x # y
  BY <1>3, <1>6
<1> DEFINE z == Total(f, (T \ {x}) \ {y})
<1>8. (T \ {y}) \ {x} = (T \ {x}) \ {y}
  OBVIOUS
<1>9. Total(f, T \ {y}) = f[x].amount + z
  BY <1>5, <1>6, <1>7, <1>8
<1>10. Total(f, T \ {x}) = f[y].amount + z
  BY <1>5, <1>6, <1>7
<1>11. f[x].amount \in Nat /\ f[y].amount \in Nat
  BY <1>4, <1>6
<1>12. z \in Nat
  BY <1>4, TotalType
<1> HIDE DEF z
<1>13. Total(f, T) = f[x].amount + Total(f, T \ {x})
  BY <1>6, <1>9, <1>10, <1>11, <1>12
<1> QED
  BY <1>3, <1>13
-----------------------------------------------------------------------------
(* Types, and the life of a refund.                                        *)

Outcomes == {"none", "processing", "processed", "skipped", "failed"}
HandSteps == {"idle", "record", "process", "fail"}

JobsExist == \A i \in Request : job[i].step \in {"call", "write"} => status[job[i].pay] # "none"

PaymentsTyped ==
    /\ order \in OrderStatuses /\ lapsed \in BOOLEAN /\ sold \in BOOLEAN /\ crossed \in BOOLEAN
    /\ \A p \in ref : status[p] # "none"
    /\ reported \subseteq ref
    /\ JobsExist

WebhooksTyped ==
    /\ emitted \subseteq Events /\ acked \subseteq emitted
    /\ store \in [Events -> Outcomes]
    /\ hand \in [Delivery -> [step : HandSteps, event : Events \cup {None}, read : Outcomes]]
    /\ \A d \in Delivery : hand[d].step # "idle" => hand[d].event \in emitted

CountsTyped == faults \in 0 .. MaxFaults /\ raced \in BOOLEAN

\* What a refund k has come to, by the step of its request.
RefundForm(k) ==
    /\ k.step \in RefundSteps
    /\ k.status \in {"none", "created", "pending", "succeeded", "failed", "cancelled"}
    /\ k.amount \in Nat /\ k.seen \in Nat
    /\ k.step # "idle" => k.amount \in 1 .. Price
    /\ k.step \in {"idle", "insert"} => k.status = "none"
    /\ k.step = "insert" => k.seen + k.amount <= Price
    /\ k.step \in {"call", "mark"} => k.status = "created"
    /\ k.step = "mark" => k.answer \in {"succeeded", "pending", "failed", "cancelled"}
    /\ k.step \in {"refresh", "write"} => Refreshing(k.status)
    /\ k.step = "write" => k.seen # 0

RefundsFormed ==
    \A r \in Refund : RefundForm(refund[r]) /\ (refund[r].step # "idle" => refund[r].pay \in ref)

TInv == PaymentsTyped /\ WebhooksTyped /\ CountsTyped /\ RefundsFormed

LEMMA TypesBegin == Init => TInv
<1> SUFFICES ASSUME Init PROVE TInv
  OBVIOUS
<1>1. \A r \in Refund : refund[r] = NoRefund
  BY DEF Init
<1>2. RefundsFormed
  BY <1>1 DEF RefundsFormed, RefundForm, NoRefund, RefundSteps
<1>3. PaymentsTyped
  BY DEF Init, PaymentsTyped, JobsExist, OrderStatuses, Idle
<1>4. WebhooksTyped
  BY DEF Init, WebhooksTyped, Outcomes, HandSteps, Free
<1>5. CountsTyped
  <2>1. faults \in 0 .. MaxFaults
    BY PriceAssumption DEF Init
  <2>2. raced \in BOOLEAN
    BY DEF Init
  <2> QED
    BY <2>1, <2>2 DEF CountsTyped
<1> QED
  BY <1>2, <1>3, <1>4, <1>5 DEF TInv

\* What a step leaves alone keeps its type.
LEMMA TypesKept ==
    ASSUME TInv
    PROVE  /\ UNCHANGED payments => PaymentsTyped'
           /\ UNCHANGED webhooks => WebhooksTyped'
           /\ UNCHANGED <<faults, raced>> => CountsTyped'
           /\ UNCHANGED refund /\ ref \subseteq ref' => RefundsFormed'
<1>1. UNCHANGED payments => PaymentsTyped'
  BY DEF TInv, PaymentsTyped, JobsExist, payments
<1>2. UNCHANGED webhooks => WebhooksTyped'
  BY DEF TInv, WebhooksTyped, webhooks
<1>3. UNCHANGED <<faults, raced>> => CountsTyped'
  BY DEF TInv, CountsTyped
<1>4. UNCHANGED refund /\ ref \subseteq ref' => RefundsFormed'
  BY DEF TInv, RefundsFormed
<1> QED
  BY <1>1, <1>2, <1>3, <1>4

LEMMA InitiationTypes ==
    ASSUME IInv, TInv, NEW i \in Request, Initiation(i) PROVE TInv'
<1>1. UNCHANGED <<webhooks, faults, refunds, order, lapsed, sold, reported>>
  BY DEF Initiation, InitiatePayment, CreatePayment, CallProvider, MarkPayment
<1>2. WebhooksTyped' /\ CountsTyped'
  BY <1>1, TypesKept DEF refunds
<1>3. \A p \in Payment : status'[p] = "none" => status[p] = "none"
  <2>1. \A s \in Answers : s # "none"
    BY ProviderAssumption
  <2> QED
    BY <2>1 DEF Initiation, InitiatePayment, CreatePayment, CallProvider, MarkPayment,
                IInv, Shaped
<1>4. /\ ref \subseteq ref' /\ crossed' \in BOOLEAN
      /\ \A p \in ref' : status'[p] # "none"
  <2>1. CASE UNCHANGED <<ref, crossed>>
    BY <1>3, <2>1 DEF TInv, PaymentsTyped, IInv, Shaped
  <2>2. CASE MarkPayment(i)
    <3>1. \/ UNCHANGED <<ref, crossed>>
          \/ /\ status' = [status EXCEPT ![job[i].pay] = job[i].next]
             /\ ref' = ref \/ ref' = ref \cup {job[i].pay}
             /\ crossed' \in BOOLEAN
      BY <2>2 DEF MarkPayment
    <3>2. job[i].pay \in Payment /\ job[i].next # "none"
      BY <2>2, ProviderAssumption DEF MarkPayment, IInv, Shaped
    <3> QED
      BY <1>3, <2>1, <3>1, <3>2 DEF TInv, PaymentsTyped, IInv, Shaped
  <2> QED
    BY <2>1, <2>2 DEF Initiation, InitiatePayment, CreatePayment, CallProvider
<1>5. JobsExist'
  <2>0. /\ job \in [Request -> [step : JobSteps, pay : Payment \cup {None},
                               next : Answers \cup {"none"}]]
        /\ \A j \in Request : job[j].step \in {"call", "write"} =>
               job[j].pay \in Payment /\ status[job[j].pay] # "none"
    BY DEF TInv, PaymentsTyped, JobsExist, IInv, Shaped
  <2>1. \/ job' = job
        \/ job' = [job EXCEPT ![i] = Idle]
        \/ job' = [job EXCEPT ![i].step = "create"]
        \/ \E p \in Payment : /\ job' = [job EXCEPT ![i].step = "call", ![i].pay = p]
                              /\ status'[p] # "none"
        \/ \E a \in Answers : /\ job' = [job EXCEPT ![i] = [@ EXCEPT !.step = "write", !.next = a]]
                              /\ job[i].step = "call"
    <3>1. CASE InitiatePayment(i)
      <4>1. "none" \notin Active
        BY DEF Active
      <4> QED
        BY <3>1, <4>1 DEF InitiatePayment, Having
    <3>2. CASE CreatePayment(i)
      BY <3>2 DEF CreatePayment, Some, Having, IInv, Shaped
    <3>3. CASE CallProvider(i)
      BY <3>3 DEF CallProvider
    <3>4. CASE MarkPayment(i)
      BY <3>4 DEF MarkPayment
    <3> QED
      BY <3>1, <3>2, <3>3, <3>4 DEF Initiation
  <2>2. ASSUME NEW k, job' = [job EXCEPT ![i] = k],
               k.step \in {"call", "write"} => k.pay \in Payment /\ status'[k.pay] # "none"
        PROVE  JobsExist'
    <3>1. \A j \in Request : job'[j] = IF j = i THEN k ELSE job[j]
      BY <2>0, <2>2
    <3> QED
      BY <1>3, <2>0, <2>2, <3>1 DEF JobsExist
  <2>3. CASE job' = job
    BY <1>3, <2>0, <2>3 DEF JobsExist
  <2>4. CASE job' = [job EXCEPT ![i] = Idle]
    BY <2>2, <2>4 DEF Idle
  <2>5. CASE job' = [job EXCEPT ![i].step = "create"]
    <3> DEFINE k == [job[i] EXCEPT !.step = "create"]
    <3>1. job' = [job EXCEPT ![i] = k] /\ k.step = "create"
      BY <2>0, <2>5
    <3> HIDE DEF k
    <3> QED
      BY <2>2, <3>1
  <2>6. ASSUME NEW p \in Payment, job' = [job EXCEPT ![i].step = "call", ![i].pay = p],
               status'[p] # "none"
        PROVE  JobsExist'
    <3> DEFINE k == [job[i] EXCEPT !.step = "call", !.pay = p]
    <3>1. job' = [job EXCEPT ![i] = k] /\ k.step = "call" /\ k.pay = p
      BY <2>0, <2>6
    <3> HIDE DEF k
    <3> QED
      BY <2>2, <2>6, <3>1
  <2>7. ASSUME NEW a, job' = [job EXCEPT ![i] = [@ EXCEPT !.step = "write", !.next = a]],
               job[i].step = "call"
        PROVE  JobsExist'
    <3> DEFINE k == [job[i] EXCEPT !.step = "write", !.next = a]
    <3>1. job' = [job EXCEPT ![i] = k] /\ k.step = "write" /\ k.pay = job[i].pay
      BY <2>0, <2>7
    <3>2. job[i].pay \in Payment /\ status'[job[i].pay] # "none"
      BY <1>3, <2>0, <2>7
    <3> HIDE DEF k
    <3> QED
      BY <2>2, <3>1, <3>2
  <2> QED
    BY <2>1, <2>3, <2>4, <2>5, <2>6, <2>7
<1>6. PaymentsTyped'
  BY <1>1, <1>4, <1>5 DEF TInv, PaymentsTyped
<1> QED
  BY <1>1, <1>2, <1>4, <1>6, TypesKept DEF TInv, refunds

LEMMA HoldTypes ==
    ASSUME IInv, TInv, Lapse \/ ExpireReservation \/ CancelOrder PROVE TInv'
<1>1. UNCHANGED <<webhooks, faults, refunds, ref, reported>>
  BY DEF Lapse, ExpireReservation, CancelOrder
<1>2. \A p \in Payment : status'[p] = "none" => status[p] = "none"
  BY DEF Lapse, ExpireReservation, CancelOrder, IInv, Shaped
<1>3. JobsExist' /\ \A p \in ref' : status'[p] # "none"
  BY <1>1, <1>2 DEF Lapse, ExpireReservation, CancelOrder, IInv, Shaped, TInv, PaymentsTyped,
                    JobsExist
<1>4. PaymentsTyped'
  BY <1>1, <1>3 DEF Lapse, ExpireReservation, CancelOrder, TInv, PaymentsTyped, OrderStatuses
<1> QED
  BY <1>1, <1>4, TypesKept DEF TInv, refunds

\* A change of one refund that leaves its record as its step requires.
LEMMA OneRefundTyped ==
    ASSUME IInv, TInv, NEW r \in Refund, NEW k,
           refund' = [refund EXCEPT ![r] = k], ref \subseteq ref',
           RefundForm(k), k.step # "idle" => k.pay \in ref
    PROVE  RefundsFormed'
<1>1. \A q \in Refund : refund'[q] = IF q = r THEN k ELSE refund[q]
  BY DEF IInv, Shaped
<1> QED
  BY <1>1 DEF TInv, RefundsFormed

\* What is reserved and given back of a payment are natural numbers.
LEMMA SumsTyped ==
    ASSUME TInv, NEW p, NEW S PROVE SumOf(p, S) \in Nat
<1> DEFINE T == {r \in Refund : refund[r].pay = p /\ refund[r].status \in S}
<1>1. SumOf(p, S) = Total(refund, T)
  BY DEF SumOf, Total
<1>2. \A r \in Refund : refund[r].amount \in Nat
  BY DEF TInv, RefundsFormed, RefundForm
<1>3. T \in SUBSET Refund
  OBVIOUS
<1> HIDE DEF T
<1> QED
  BY <1>1, <1>2, <1>3, TotalType, FiniteAssumption

LEMMA RequestRefundTypes ==
    ASSUME IInv, TInv, NEW r \in Refund, RequestRefund(r) PROVE TInv'
<1>1. PICK p \in Having({"succeeded", "partially_refunded"}) \cap ref :
        \E n \in 1 .. Remaining(p) :
          refund' = [refund EXCEPT ![r] = [@ EXCEPT !.step = "insert", !.pay = p,
                                                    !.amount = n, !.seen = Reserved(p)]]
  BY DEF RequestRefund
<1>2. PICK n \in 1 .. Remaining(p) :
          refund' = [refund EXCEPT ![r] = [@ EXCEPT !.step = "insert", !.pay = p,
                                                    !.amount = n, !.seen = Reserved(p)]]
  BY <1>1
<1> DEFINE k == [refund[r] EXCEPT !.step = "insert", !.pay = p, !.amount = n,
                                  !.seen = Reserved(p)]
<1>3. refund' = [refund EXCEPT ![r] = k]
  BY <1>2
<1>4. refund[r] = NoRefund
  BY DEF RequestRefund
<1>5. k.step = "insert" /\ k.pay = p /\ k.amount = n /\ k.seen = Reserved(p) /\ k.status = "none"
  BY <1>4 DEF NoRefund
<1>6. Reserved(p) \in Nat
  BY SumsTyped DEF Reserved
<1>7. n \in 1 .. Price /\ n + Reserved(p) <= Price
  BY <1>6, PriceAssumption DEF Remaining
<1>8. RefundForm(k)
  BY <1>5, <1>6, <1>7, PriceAssumption DEF RefundForm, RefundSteps
<1>9. UNCHANGED <<payments, webhooks, faults, raced>>
  BY DEF RequestRefund
<1> HIDE DEF k
<1>10. RefundsFormed'
  BY <1>3, <1>5, <1>8, <1>9, OneRefundTyped DEF payments
<1> QED
  BY <1>9, <1>10, TypesKept DEF TInv

LEMMA RefundStepTypes ==
    ASSUME IInv, TInv, NEW r \in Refund,
           InsertRefund(r) \/ CallRefund(r) \/ MarkRefund(r) \/ RefreshRead(r)
    PROVE  TInv'
<1>0. refund[r] = [x \in Fields |-> refund[r][x]]
  BY DEF IInv, Shaped
<1>1. RefundForm(refund[r]) /\ (refund[r].step # "idle" => refund[r].pay \in ref)
  BY DEF TInv, RefundsFormed
<1>2. PaymentsTyped' /\ WebhooksTyped'
  BY TypesKept DEF InsertRefund, CallRefund, MarkRefund, RefreshRead
<1>3. CountsTyped'
  BY DEF TInv, CountsTyped, InsertRefund, CallRefund, MarkRefund, RefreshRead
<1>4. ref \subseteq ref'
  BY DEF InsertRefund, CallRefund, MarkRefund, RefreshRead, payments
<1>5. ASSUME NEW k, refund' = [refund EXCEPT ![r] = k], RefundForm(k), k.pay = refund[r].pay,
             refund[r].step # "idle"
      PROVE  TInv'
  BY <1>1, <1>2, <1>3, <1>4, <1>5, OneRefundTyped DEF TInv
<1>6. CASE InsertRefund(r)
  <2> DEFINE k == [refund[r] EXCEPT !.status = "created", !.step = "call", !.seen = 0]
  <2>1. refund' = [refund EXCEPT ![r] = k] /\ refund[r].step = "insert"
    BY <1>6 DEF InsertRefund
  <2>2. /\ k.status = "created" /\ k.step = "call" /\ k.seen = 0
        /\ k.pay = refund[r].pay /\ k.amount = refund[r].amount
    BY <1>0 DEF Fields
  <2> HIDE DEF k
  <2>3. RefundForm(k)
    BY <1>1, <2>1, <2>2 DEF RefundForm, RefundSteps
  <2> QED
    BY <1>5, <2>1, <2>2, <2>3
<1>7. CASE CallRefund(r)
  <2>1. PICK s \in RefundReports :
            refund' = [refund EXCEPT ![r].step = "mark", ![r].answer = s]
    BY <1>7 DEF CallRefund
  <2> DEFINE k == [refund[r] EXCEPT !.step = "mark", !.answer = s]
  <2>2. refund' = [refund EXCEPT ![r] = k] /\ refund[r].step = "call"
    BY <1>7, <2>1 DEF CallRefund
  <2>3. /\ k.status = refund[r].status /\ k.step = "mark" /\ k.seen = refund[r].seen
        /\ k.pay = refund[r].pay /\ k.amount = refund[r].amount /\ k.answer = s
    BY <1>0 DEF Fields
  <2> HIDE DEF k
  <2>4. RefundForm(k)
    BY <1>1, <2>1, <2>2, <2>3, ProviderAssumption DEF RefundForm, RefundSteps
  <2> QED
    BY <1>5, <2>2, <2>3, <2>4
<1>8. CASE MarkRefund(r)
  <2> DEFINE next == IF Refreshing(refund[r].answer) THEN "refresh" ELSE "done"
             k == [refund[r] EXCEPT !.status = refund[r].answer, !.step = next]
  <2>1. refund' = [refund EXCEPT ![r] = k] /\ refund[r].step = "mark"
    BY <1>8 DEF MarkRefund
  <2>2. /\ k.status = refund[r].answer /\ k.step = next /\ k.seen = refund[r].seen
        /\ k.pay = refund[r].pay /\ k.amount = refund[r].amount
    BY <1>0 DEF Fields
  <2> HIDE DEF k
  <2>3. RefundForm(k)
    BY <1>1, <2>1, <2>2 DEF RefundForm, RefundSteps, Refreshing
  <2> QED
    BY <1>5, <2>1, <2>2, <2>3
<1>9. CASE RefreshRead(r)
  <2> DEFINE k == [refund[r] EXCEPT !.step = "done"]
             m == [refund[r] EXCEPT !.step = "write", !.seen = Refunded(refund[r].pay)]
  <2>1. /\ \/ refund' = [refund EXCEPT ![r] = k]
           \/ refund' = [refund EXCEPT ![r] = m] /\ Refunded(refund[r].pay) # 0
        /\ refund[r].step = "refresh"
    BY <1>9 DEF RefreshRead
  <2>2. /\ k.step = "done" /\ k.status = refund[r].status /\ k.seen = refund[r].seen
        /\ k.pay = refund[r].pay /\ k.amount = refund[r].amount
    BY <1>0 DEF Fields
  <2>3. /\ m.step = "write" /\ m.status = refund[r].status
        /\ m.seen = Refunded(refund[r].pay)
        /\ m.pay = refund[r].pay /\ m.amount = refund[r].amount
    BY <1>0 DEF Fields
  <2>4. Refunded(refund[r].pay) \in Nat
    BY SumsTyped DEF Refunded
  <2> HIDE DEF k, m
  <2>5. RefundForm(k)
    BY <1>1, <2>1, <2>2 DEF RefundForm, RefundSteps
  <2>6. Refunded(refund[r].pay) # 0 => RefundForm(m)
    BY <1>1, <2>1, <2>3, <2>4 DEF RefundForm, RefundSteps
  <2> QED
    BY <1>5, <2>1, <2>2, <2>3, <2>5, <2>6
<1> QED
  BY <1>6, <1>7, <1>8, <1>9

LEMMA RefreshWriteTypes ==
    ASSUME IInv, TInv, NEW r \in Refund, RefreshWrite(r) PROVE TInv'
<1> DEFINE p == refund[r].pay
           k == [refund[r] EXCEPT !.step = "done", !.seen = 0]
<1>0. refund[r] = [x \in Fields |-> refund[r][x]]
  BY DEF IInv, Shaped
<1>1. RefundForm(refund[r]) /\ p \in ref /\ p \in Payment
  BY DEF TInv, RefundsFormed, RefreshWrite, IInv, Shaped
<1>2. /\ refund' = [refund EXCEPT ![r] = k] /\ refund[r].step = "write"
      /\ status' = [status EXCEPT ![p] = RefundedStatus(refund[r].seen)]
      /\ UNCHANGED <<order, lapsed, ref, linked, job, sold, crossed, reported, webhooks, faults>>
      /\ raced' \in BOOLEAN
  BY DEF RefreshWrite
<1>3. /\ k.step = "done" /\ k.status = refund[r].status /\ k.seen = 0
      /\ k.pay = p /\ k.amount = refund[r].amount
  BY <1>0 DEF Fields
<1> HIDE DEF k
<1>4. RefundForm(k)
  BY <1>1, <1>2, <1>3 DEF RefundForm, RefundSteps
<1>5. RefundsFormed'
  BY <1>1, <1>2, <1>3, <1>4, OneRefundTyped
<1>6. \A q \in Payment : status'[q] = "none" => status[q] = "none"
  BY <1>2 DEF IInv, Shaped, RefundedStatus
<1>7. PaymentsTyped'
  BY <1>2, <1>6 DEF TInv, PaymentsTyped, JobsExist, IInv, Shaped
<1>8. CountsTyped'
  BY <1>2 DEF TInv, CountsTyped
<1> QED
  BY <1>2, <1>5, <1>7, <1>8, TypesKept DEF TInv

\* One delivery is changed to k.
LEMMA DeliveryTyped ==
    ASSUME TInv, NEW d \in Delivery, NEW k, hand' = [hand EXCEPT ![d] = k],
           k \in [step : HandSteps, event : Events \cup {None}, read : Outcomes],
           k.step # "idle" => k.event \in emitted,
           emitted' = emitted, acked' \subseteq emitted, store' \in [Events -> Outcomes]
    PROVE  WebhooksTyped'
<1>1. hand' \in [Delivery -> [step : HandSteps, event : Events \cup {None}, read : Outcomes]]
  BY DEF TInv, WebhooksTyped
<1>2. \A x \in Delivery : hand'[x] = IF x = d THEN k ELSE hand[x]
  BY DEF TInv, WebhooksTyped
<1> QED
  BY <1>1, <1>2 DEF TInv, WebhooksTyped

LEMMA FreeHand == Free \in [step : HandSteps, event : Events \cup {None}, read : Outcomes]
BY DEF Free, HandSteps, Outcomes

LEMMA WebhookTypes ==
    ASSUME IInv, TInv, NEW d \in Delivery, Handling(d) PROVE TInv'
<1> DEFINE e == hand[d].event
<1>1. hand[d] \in [step : HandSteps, event : Events \cup {None}, read : Outcomes]
  BY DEF TInv, WebhooksTyped
<1>2. hand[d].step # "idle" => e \in emitted /\ e \in Events
  BY DEF TInv, WebhooksTyped
<1>3. hand[d].step # "idle" /\ emitted' = emitted
  BY DEF Handling, Record, SkipEvent, ApplyPaymentEvent, ApplyRefundEvent, AbortEvent, MarkFailed
<1>4. ASSUME NEW o \in Outcomes, Answered(d, o) PROVE WebhooksTyped'
  <2>1. store' \in [Events -> Outcomes] /\ acked' \subseteq emitted
    BY <1>2, <1>3, <1>4 DEF Answered, TInv, WebhooksTyped
  <2> QED
    BY <1>3, <1>4, <2>1, FreeHand, DeliveryTyped DEF Answered, Free
<1>5. CASE Record(d)
  <2> DEFINE k == [hand[d] EXCEPT !.step = "process", !.read = "none"]
  <2>1. hand' = [hand EXCEPT ![d] = Free] \/ hand' = [hand EXCEPT ![d] = k]
    BY <1>5 DEF Record
  <2>2. /\ acked' \subseteq emitted
        /\ store' \in [Events -> Outcomes]
    BY <1>2, <1>3, <1>5 DEF Record, TInv, WebhooksTyped, Outcomes
  <2>3. k \in [step : HandSteps, event : Events \cup {None}, read : Outcomes] /\ k.event = e
    BY <1>1 DEF HandSteps, Outcomes
  <2> HIDE DEF k
  <2>4. WebhooksTyped'
    BY <1>2, <1>3, <2>1, <2>2, <2>3, FreeHand, DeliveryTyped DEF Free
  <2> QED
    BY <1>5, <2>4, TypesKept DEF Record, TInv, refunds, payments
<1>6. CASE SkipEvent(d)
  <2>1. WebhooksTyped'
    BY <1>4, <1>6 DEF SkipEvent, Outcomes
  <2> QED
    BY <1>6, <2>1, TypesKept DEF SkipEvent, TInv, refunds, payments
<1>7. CASE ApplyPaymentEvent(d)
  <2>1. WebhooksTyped'
    BY <1>4, <1>7 DEF ApplyPaymentEvent, Outcomes
  <2>2. /\ e.about \in Payment /\ e.about \in ref
        /\ e.status # "none"
    BY <1>7, ProviderAssumption DEF ApplyPaymentEvent, Applicable, PaymentEvents
  <2>3. /\ status' = [status EXCEPT ![e.about] = e.status]
        /\ order' \in OrderStatuses /\ sold' \in BOOLEAN
        /\ UNCHANGED <<lapsed, ref, job, crossed, faults, raced, refund>>
        /\ reported' \subseteq reported \cup {e.about}
    <3>1. order' \in OrderStatuses
      BY <1>7, <2>2 DEF ApplyPaymentEvent, OrderStatuses, TInv, PaymentsTyped
    <3> QED
      BY <1>7, <3>1 DEF ApplyPaymentEvent, refunds
  <2>4. \A q \in Payment : status'[q] = "none" => status[q] = "none"
    BY <2>2, <2>3 DEF IInv, Shaped
  <2>5. PaymentsTyped'
    BY <2>2, <2>3, <2>4 DEF TInv, PaymentsTyped, JobsExist, IInv, Shaped
  <2> QED
    BY <2>1, <2>3, <2>5, TypesKept DEF TInv
<1>8. CASE ApplyRefundEvent(d)
  <2> DEFINE r == e.about
             p == refund[r].pay
             k == [refund[r] EXCEPT !.status = e.status]
  <2>1. WebhooksTyped'
    BY <1>4, <1>8 DEF ApplyRefundEvent, Outcomes
  <2>2. r \in Refund /\ e.status \in {"pending", "succeeded", "failed", "cancelled"}
    BY <1>8, ProviderAssumption DEF ApplyRefundEvent, RefundEvents
  <2>3. refund[r].status \in {"pending", e.status}
    <3>1. e \notin PaymentEvents
      BY <1>8, KindsAssumption DEF ApplyRefundEvent, RefundEvents, PaymentEvents
    <3> QED
      BY <1>8, <3>1 DEF ApplyRefundEvent, Applicable, Refundable
  <2>4. /\ refund' = [refund EXCEPT ![r] = k]
        /\ UNCHANGED <<order, lapsed, ref, linked, job, sold, crossed, reported, faults, raced>>
    BY <1>8 DEF ApplyRefundEvent
  <2>5. \A q \in Payment : status'[q] = "none" => status[q] = "none"
    BY <1>8 DEF ApplyRefundEvent, IInv, Shaped, RefundedStatus
  <2>6. PaymentsTyped'
    BY <2>4, <2>5 DEF TInv, PaymentsTyped, JobsExist, IInv, Shaped
  <2>7. RefundForm(refund[r]) /\ (refund[r].step # "idle" => refund[r].pay \in ref)
    BY <2>2 DEF TInv, RefundsFormed
  <2>8. refund[r] = [x \in Fields |-> refund[r][x]]
    BY <2>2 DEF IInv, Shaped
  <2>9. /\ k.step = refund[r].step /\ k.status = e.status /\ k.seen = refund[r].seen
        /\ k.pay = p /\ k.amount = refund[r].amount /\ k.answer = refund[r].answer
    BY <2>8 DEF Fields
  <2> HIDE DEF k, r
  <2>10. RefundForm(k)
    BY <2>2, <2>3, <2>7, <2>9 DEF RefundForm, Refreshing
  <2>11. RefundsFormed'
    BY <2>2, <2>4, <2>7, <2>9, <2>10, OneRefundTyped
  <2> QED
    BY <2>1, <2>4, <2>6, <2>11, TypesKept DEF TInv
<1>9. CASE AbortEvent(d)
  <2> DEFINE k == [hand[d] EXCEPT !.step = "fail"]
  <2>1. hand' = [hand EXCEPT ![d] = k] /\ acked' = acked /\ store' = store
    BY <1>9 DEF AbortEvent
  <2>2. k \in [step : HandSteps, event : Events \cup {None}, read : Outcomes] /\ k.event = e
    BY <1>1 DEF HandSteps
  <2> HIDE DEF k
  <2>3. WebhooksTyped'
    BY <1>2, <1>3, <2>1, <2>2, DeliveryTyped DEF TInv, WebhooksTyped
  <2>4. faults' \in 0 .. MaxFaults
    BY <1>9, PriceAssumption DEF AbortEvent, TInv, CountsTyped
  <2>5. CountsTyped'
    BY <1>9, <2>4 DEF AbortEvent, TInv, CountsTyped, refunds
  <2> QED
    BY <1>9, <2>3, <2>5, TypesKept DEF AbortEvent, TInv, refunds, payments
<1>10. CASE MarkFailed(d)
  <2>1. acked' = acked /\ store' \in [Events -> Outcomes] /\ hand' = [hand EXCEPT ![d] = Free]
    BY <1>10 DEF MarkFailed, TInv, WebhooksTyped, Outcomes
  <2>2. WebhooksTyped'
    BY <1>3, <2>1, FreeHand, DeliveryTyped DEF TInv, WebhooksTyped, Free
  <2> QED
    BY <1>10, <2>2, TypesKept DEF MarkFailed, TInv, refunds, payments
<1> QED
  BY <1>5, <1>6, <1>7, <1>8, <1>9, <1>10 DEF Handling

LEMMA ProviderTypes ==
    ASSUME IInv, TInv, Emit \/ \E d \in Delivery, e \in Events : Receive(d, e)
    PROVE  TInv'
<1>1. CASE Emit
  <2>1. emitted \subseteq emitted' /\ emitted' \subseteq Events
    BY <1>1 DEF Emit, TInv, WebhooksTyped
  <2>2. UNCHANGED <<acked, store, hand>>
    BY <1>1 DEF Emit
  <2>3. WebhooksTyped'
    BY <2>1, <2>2 DEF TInv, WebhooksTyped
  <2> QED
    BY <1>1, <2>3, TypesKept DEF Emit, TInv, refunds, payments
<1>2. ASSUME NEW d \in Delivery, NEW e \in Events, Receive(d, e) PROVE TInv'
  <2> DEFINE k == [step |-> "record", event |-> e, read |-> store[e]]
  <2>1. /\ hand' = [hand EXCEPT ![d] = k] /\ UNCHANGED <<emitted, acked, store>>
        /\ e \in emitted
    BY <1>2 DEF Receive
  <2>2. k \in [step : HandSteps, event : Events \cup {None}, read : Outcomes]
    BY DEF TInv, WebhooksTyped, HandSteps
  <2>3. k.event = e
    OBVIOUS
  <2> HIDE DEF k
  <2>4. WebhooksTyped'
    BY <2>1, <2>2, <2>3, DeliveryTyped DEF TInv, WebhooksTyped
  <2> QED
    BY <1>2, <2>4, TypesKept DEF Receive, TInv, refunds, payments
<1> QED
  BY <1>1, <1>2

LEMMA CrashTypes == ASSUME IInv, TInv, Crash PROVE TInv'
<1>1. UNCHANGED <<order, lapsed, status, ref, linked, emitted, acked, store, sold, crossed, raced,
                  reported>>
  BY DEF Crash
<1>2. faults' \in 0 .. MaxFaults
  BY PriceAssumption DEF Crash, TInv, CountsTyped
<1>3. CountsTyped'
  BY <1>1, <1>2 DEF TInv, CountsTyped
<1>4. ASSUME NEW i \in Request, job' = [job EXCEPT ![i] = Idle], UNCHANGED <<hand, refund>>
      PROVE  TInv'
  <2>1. \A j \in Request : job'[j] = IF j = i THEN Idle ELSE job[j]
    BY <1>4 DEF IInv, Shaped
  <2>2. PaymentsTyped'
    BY <1>1, <2>1 DEF TInv, PaymentsTyped, JobsExist, Idle
  <2> QED
    BY <1>1, <1>3, <1>4, <2>2, TypesKept DEF TInv, webhooks
<1>5. ASSUME NEW d \in Delivery, hand' = [hand EXCEPT ![d] = Free], UNCHANGED <<job, refund>>
      PROVE  TInv'
  <2>1. WebhooksTyped'
    BY <1>1, <1>5, FreeHand, DeliveryTyped DEF TInv, WebhooksTyped, Free
  <2> QED
    BY <1>1, <1>3, <1>5, <2>1, TypesKept DEF TInv, payments
<1>6. ASSUME NEW r \in Refund, refund[r].step \in {"call", "mark", "refresh", "write"},
             refund' = [refund EXCEPT ![r].step = "lost"], UNCHANGED <<job, hand>>
      PROVE  TInv'
  <2> DEFINE k == [refund[r] EXCEPT !.step = "lost"]
  <2>1. refund' = [refund EXCEPT ![r] = k]
    BY <1>6
  <2>2. refund[r] = [x \in Fields |-> refund[r][x]]
    BY DEF IInv, Shaped
  <2>3. /\ k.step = "lost" /\ k.status = refund[r].status /\ k.seen = refund[r].seen
        /\ k.pay = refund[r].pay /\ k.amount = refund[r].amount
    BY <2>2 DEF Fields
  <2>4. RefundForm(refund[r]) /\ refund[r].pay \in ref
    BY <1>6 DEF TInv, RefundsFormed
  <2> HIDE DEF k
  <2>5. RefundForm(k)
    BY <1>6, <2>3, <2>4 DEF RefundForm, RefundSteps
  <2>6. RefundsFormed'
    BY <1>1, <2>1, <2>3, <2>4, <2>5, OneRefundTyped
  <2> QED
    BY <1>1, <1>3, <1>6, <2>6, TypesKept DEF TInv, payments, webhooks
<1> QED
  BY <1>4, <1>5, <1>6 DEF Crash

LEMMA StepTypes == ASSUME IInv, TInv, [Next]_vars PROVE TInv'
<1>1. ASSUME NEW i \in Request, Initiation(i) PROVE TInv'
  BY <1>1, InitiationTypes
<1>2. CASE Lapse \/ ExpireReservation \/ CancelOrder
  BY <1>2, HoldTypes
<1>3. ASSUME NEW r \in Refund, RefundStep(r) PROVE TInv'
  BY <1>3, RequestRefundTypes, RefundStepTypes, RefreshWriteTypes DEF RefundStep
<1>4. CASE Emit \/ \E d \in Delivery, e \in Events : Receive(d, e)
  BY <1>4, ProviderTypes
<1>5. ASSUME NEW d \in Delivery, Handling(d) PROVE TInv'
  BY <1>5, WebhookTypes
<1>6. CASE Crash
  BY <1>6, CrashTypes
<1>7. CASE UNCHANGED vars
  BY <1>7, TypesKept DEF vars, TInv, payments, webhooks
<1> QED
  BY <1>1, <1>2, <1>3, <1>4, <1>5, <1>6, <1>7 DEF Next

\* The types, with what each step of a refund's request leaves in its record, hold
\* in every state together with the invariant of PaidExactlyOnce.
THEOREM TypesInvariance == Spec => [](IInv /\ TInv)
<1>1. Init => IInv /\ TInv
  BY InitHolds, TypesBegin
<1>2. IInv /\ TInv /\ [Next]_vars => (IInv /\ TInv)'
  BY StepKeeps, StepTypes
<1> QED
  BY <1>1, <1>2, PTL DEF Spec

\* Every variable has its type; a request on its way has a payment that exists
\* and an amount that is something and no more than was paid, and a delivery an
\* event the provider sent.
THEOREM TypeCorrect == Spec => []TypeOK
<1>1. IInv /\ TInv => TypeOK
  <2> SUFFICES ASSUME IInv, TInv PROVE TypeOK
    OBVIOUS
  <2>1. /\ order \in OrderStatuses /\ lapsed \in BOOLEAN
        /\ sold \in BOOLEAN /\ crossed \in BOOLEAN
    BY DEF TInv, PaymentsTyped
  <2>2. status \in [Payment -> {"none"} \cup Active \cup Final]
    BY DEF IInv, Shaped, Statuses
  <2>3. ref \subseteq Payment \ Having({"none"}) /\ linked \subseteq ref
    BY DEF IInv, Shaped, TInv, PaymentsTyped, Having
  <2>4. \A i \in Request :
          /\ job[i].step \in JobSteps
          /\ job[i].next \in Answers \cup {"none"}
          /\ job[i].step \in {"call", "write"} => job[i].pay \in Payment \ Having({"none"})
    BY DEF IInv, Shaped, TInv, PaymentsTyped, JobsExist, Having
  <2>5. /\ emitted \subseteq Events /\ acked \subseteq emitted
        /\ store \in [Events -> {"none", "processing", "processed", "skipped", "failed"}]
        /\ \A d \in Delivery :
              /\ hand[d].step \in {"idle", "record", "process", "fail"}
              /\ hand[d].step # "idle" => hand[d].event \in emitted
    BY DEF TInv, WebhooksTyped, Outcomes, HandSteps
  <2>6. \A r \in Refund :
          /\ refund[r].step \in RefundSteps
          /\ refund[r].status \in {"none", "created", "pending", "succeeded", "failed", "cancelled"}
          /\ refund[r].step # "idle" => refund[r].pay \in ref /\ refund[r].amount \in 1 .. Price
    BY DEF TInv, RefundsFormed, RefundForm
  <2>7. faults \in 0 .. MaxFaults /\ raced \in BOOLEAN
    BY DEF TInv, CountsTyped
  <2>8. reported \subseteq ref
    BY DEF TInv, PaymentsTyped
  <2> QED
    BY <2>1, <2>2, <2>3, <2>4, <2>5, <2>6, <2>7, <2>8 DEF TypeOK
<1> QED
  BY <1>1, TypesInvariance, PTL

-----------------------------------------------------------------------------
(* What a step does to the sums.                                           *)

Counted(f, p, S)  == {r \in Refund : f[r].pay = p /\ f[r].status \in S}
\* What the refund k adds to the sum of p over the refunds with a status in S.
Share(k, p, S)    == IF k.pay = p /\ k.status \in S THEN k.amount ELSE 0

LEMMA SumIsTotal == \A p, S : SumOf(p, S) = Total(refund, Counted(refund, p, S))
BY DEF SumOf, Total, Counted

LEMMA SumIsTotalNext == \A p, S : SumOf(p, S)' = Total(refund', Counted(refund', p, S))
<1>1. (\A p, S : SumOf(p, S) = Total(refund, Counted(refund, p, S)))'
  BY SumIsTotal, PTL
<1> QED
  BY <1>1

\* A refund takes part in a sum with its share; the rest is that of the others.
LEMMA ShareAndRest ==
    ASSUME NEW f, \A q \in Refund : f[q].amount \in Nat, NEW r \in Refund, NEW p, NEW S
    PROVE  /\ Total(f, Counted(f, p, S) \ {r}) \in Nat
           /\ Total(f, Counted(f, p, S)) = Share(f[r], p, S) + Total(f, Counted(f, p, S) \ {r})
<1> DEFINE T == Counted(f, p, S)
<1>1. T \in SUBSET Refund /\ T \ {r} \in SUBSET Refund
  BY DEF Counted
<1>2. Total(f, T) \in Nat /\ Total(f, T \ {r}) \in Nat
  BY <1>1, TotalType, FiniteAssumption
<1>3. CASE r \in T
  <2>1. Total(f, T) = f[r].amount + Total(f, T \ {r})
    BY <1>1, <1>3, TotalCut, FiniteAssumption
  <2>2. Share(f[r], p, S) = f[r].amount
    BY <1>3 DEF Counted, Share
  <2> QED
    BY <1>2, <2>1, <2>2
<1>4. CASE r \notin T
  <2>1. T \ {r} = T
    BY <1>4
  <2>2. Share(f[r], p, S) = 0
    BY <1>4 DEF Counted, Share
  <2> HIDE DEF T
  <2>3. Total(f, T) = Share(f[r], p, S) + Total(f, T \ {r})
    BY <1>2, <2>1, <2>2
  <2> QED
    BY <1>2, <2>3 DEF T
<1> QED
  BY <1>3, <1>4

\* If one refund changes, a sum loses its old share and gets the new one.
LEMMA OneChange ==
    ASSUME NEW f, NEW g, NEW r \in Refund,
           \A q \in Refund : f[q].amount \in Nat /\ g[q].amount \in Nat,
           \A q \in Refund \ {r} : g[q] = f[q],
           NEW p, NEW S
    PROVE  Total(g, Counted(g, p, S)) + Share(f[r], p, S)
             = Total(f, Counted(f, p, S)) + Share(g[r], p, S)
<1> DEFINE T == Counted(f, p, S) \ {r}
           U == Counted(g, p, S) \ {r}
<1>1. T = U /\ T \in SUBSET Refund
  BY DEF Counted
<1>2. \A q \in T : f[q].amount = g[q].amount
  BY DEF Counted
<1>3. Total(f, T) = Total(g, U)
  <2> HIDE DEF T, U
  <2> QED
    BY <1>1, <1>2, TotalSame, FiniteAssumption
<1>4. /\ Total(f, T) \in Nat
      /\ Total(f, Counted(f, p, S)) = Share(f[r], p, S) + Total(f, T)
  BY ShareAndRest
<1>5. /\ Total(g, U) \in Nat
      /\ Total(g, Counted(g, p, S)) = Share(g[r], p, S) + Total(g, U)
  BY ShareAndRest
<1>6. Share(f[r], p, S) \in Nat /\ Share(g[r], p, S) \in Nat
  BY DEF Share
<1> HIDE DEF T, U
<1> QED
  BY <1>3, <1>4, <1>5, <1>6

LEMMA LedgerChange ==
    ASSUME NEW r \in Refund,
           \A q \in Refund : refund[q].amount \in Nat /\ refund'[q].amount \in Nat,
           \A q \in Refund \ {r} : refund'[q] = refund[q],
           NEW p, NEW S
    PROVE  Total(refund', Counted(refund', p, S)) + Share(refund[r], p, S)
             = Total(refund, Counted(refund, p, S)) + Share(refund'[r], p, S)
BY OneChange

Holding == {"created", "pending", "succeeded"}

LEMMA SumsChange ==
    ASSUME IInv, TInv, TInv', NEW r \in Refund, NEW k, refund' = [refund EXCEPT ![r] = k], NEW p
    PROVE  /\ Reserved(p) \in Nat /\ Reserved(p)' \in Nat
           /\ Refunded(p) \in Nat /\ Refunded(p)' \in Nat
           /\ Reserved(p)' + Share(refund[r], p, Holding) = Reserved(p) + Share(k, p, Holding)
           /\ Refunded(p)' + Share(refund[r], p, {"succeeded"})
                = Refunded(p) + Share(k, p, {"succeeded"})
<1>1. \A q \in Refund : refund[q].amount \in Nat /\ refund'[q].amount \in Nat
  BY DEF TInv, RefundsFormed, RefundForm
<1>2. \A q \in Refund \ {r} : refund'[q] = refund[q]
  BY DEF IInv, Shaped
<1>3. refund'[r] = k
  BY DEF IInv, Shaped
<1>4. ASSUME NEW S
      PROVE  /\ SumOf(p, S) \in Nat /\ SumOf(p, S)' \in Nat
             /\ SumOf(p, S)' + Share(refund[r], p, S) = SumOf(p, S) + Share(k, p, S)
  <2>1. SumOf(p, S) = Total(refund, Counted(refund, p, S))
    BY SumIsTotal
  <2>2. SumOf(p, S)' = Total(refund', Counted(refund', p, S))
    BY SumIsTotalNext
  <2>3. SumOf(p, S) \in Nat
    BY SumsTyped
  <2>4. Counted(refund', p, S) \in SUBSET Refund
    BY DEF Counted
  <2>5. SumOf(p, S)' \in Nat
    BY <1>1, <2>2, <2>4, TotalType, FiniteAssumption
  <2>6. Total(refund', Counted(refund', p, S)) + Share(refund[r], p, S)
          = Total(refund, Counted(refund, p, S)) + Share(refund'[r], p, S)
    BY <1>1, <1>2, LedgerChange
  <2> QED
    BY <1>3, <2>1, <2>2, <2>3, <2>5, <2>6
<1> QED
  BY <1>4 DEF Reserved, Refunded, Holding

\* A refund that was given is part of the sum.
LEMMA GivenCounts ==
    ASSUME TInv, NEW r \in Refund, refund[r].status = "succeeded", refund[r].step # "idle"
    PROVE  Refunded(refund[r].pay) # 0
<1>1. \A q \in Refund : refund[q].amount \in Nat
  BY DEF TInv, RefundsFormed, RefundForm
<1>2. refund[r].amount \in 1 .. Price
  BY DEF TInv, RefundsFormed, RefundForm
<1> DEFINE p == refund[r].pay
           T == Counted(refund, p, {"succeeded"})
<1>3. Refunded(p) = Total(refund, T)
  BY SumIsTotal DEF Refunded
<1>4. Total(refund, T \ {r}) \in Nat
      /\ Total(refund, T) = Share(refund[r], p, {"succeeded"}) + Total(refund, T \ {r})
  BY <1>1, ShareAndRest
<1>5. Share(refund[r], p, {"succeeded"}) = refund[r].amount
  BY DEF Share
<1> HIDE DEF p, T
<1>6. Refunded(p) # 0
  BY <1>2, <1>3, <1>4, <1>5, PriceAssumption
<1> QED
  BY <1>6 DEF p

-----------------------------------------------------------------------------
(* The sums agree with the price and with the payments' statuses.          *)

Underway(p)    == \E r \in Refund : refund[r].pay = p /\ refund[r].step \in {"refresh", "write", "lost"}
WithinPrice(p) == Reserved(p) <= Price
\* The status is what the refunds came to, or all of it by the provider's word.
Says(p) ==
    \/ status[p] = RefundedStatus(Refunded(p))
    \/ status[p] = "refunded" /\ p \in reported
\* That something was given back has a reason even while a request is under way.
Told(p) ==
    /\ p \in reported => status[p] \in GivenBack
    /\ status[p] \in GivenBack => p \in reported \/ Refunded(p) # 0
    /\ Underway(p) \/ Refunded(p) = 0 \/ Says(p)

Claimed        == ~raced /\ ~crossed
Agreement      == Claimed => \A p \in Payment : WithinPrice(p) /\ Told(p)

LEMMA AgreementSays == TInv /\ Agreement => RefundsAgree
<1> SUFFICES ASSUME TInv, Agreement, Claimed, NEW p \in Payment
             PROVE  /\ WithinPrice(p)
                    /\ \/ Underway(p)
                       \/ IF Refunded(p) = 0 THEN status[p] \in GivenBack <=> p \in reported
                          ELSE \/ status[p] = "partially_refunded" /\ Refunded(p) < Price
                               \/ status[p] = "refunded" /\ (Refunded(p) >= Price \/ p \in reported)
  BY DEF RefundsAgree, Claimed, WithinPrice, Underway, GivenBack
<1>1. WithinPrice(p) /\ Told(p)
  BY DEF Agreement
<1>2. Refunded(p) \in Nat
  BY SumsTyped DEF Refunded
<1>3. Says(p) => \/ status[p] = "partially_refunded" /\ Refunded(p) < Price
                 \/ status[p] = "refunded" /\ (Refunded(p) >= Price \/ p \in reported)
  BY <1>2, PriceAssumption DEF Says, RefundedStatus
<1> QED
  BY <1>1, <1>3 DEF Told

LEMMA SumsStay ==
    ASSUME UNCHANGED refund
    PROVE  \A p : Reserved(p)' = Reserved(p) /\ Refunded(p)' = Refunded(p) /\ (Underway(p)' <=> Underway(p))
<1> SUFFICES ASSUME NEW p
             PROVE  /\ Reserved(p)' = Reserved(p) /\ Refunded(p)' = Refunded(p)
                    /\ Underway(p)' <=> Underway(p)
  OBVIOUS
<1>1. \A S : SumOf(p, S)' = SumOf(p, S)
  BY SumIsTotal, SumIsTotalNext
<1> QED
  BY <1>1 DEF Reserved, Refunded, Underway

\* Payments that are not given back, before nor after, may change as they like.
LEMMA StatusMoves ==
    ASSUME TInv, Agreement, UNCHANGED <<refund, raced, reported>>, ~crossed' => ~crossed,
           Claimed' => \A p \in Payment : status'[p] # status[p] =>
                           status[p] \notin GivenBack /\ status'[p] \notin GivenBack
    PROVE  Agreement'
<1> SUFFICES ASSUME Claimed', NEW p \in Payment PROVE WithinPrice(p)' /\ Told(p)'
  BY DEF Agreement
<1>1. WithinPrice(p) /\ Told(p)
  BY DEF Agreement, Claimed
<1>2. Reserved(p)' = Reserved(p) /\ Refunded(p)' = Refunded(p) /\ (Underway(p)' <=> Underway(p))
  BY SumsStay
<1>3. WithinPrice(p)'
  BY <1>1, <1>2 DEF WithinPrice
<1>4. Told(p)'
  <2>1. Refunded(p) # 0 => RefundedStatus(Refunded(p)) \in GivenBack
    BY DEF RefundedStatus, GivenBack
  <2>2. status'[p] # status[p] => status[p] \notin GivenBack /\ status'[p] \notin GivenBack
    OBVIOUS
  <2> QED
    BY <1>1, <1>2, <2>1, <2>2 DEF Told, Says, GivenBack
<1> QED
  BY <1>3, <1>4

LEMMA InitiationAgrees ==
    ASSUME IInv, TInv, Agreement, NEW i \in Request, Initiation(i) PROVE Agreement'
<1>1. UNCHANGED <<refund, raced, reported>>
  BY DEF Initiation, InitiatePayment, CreatePayment, CallProvider, MarkPayment, refunds
<1>2. CASE UNCHANGED <<status, crossed>>
  BY <1>1, <1>2, StatusMoves
<1>3. CASE CreatePayment(i)
  <2>1. UNCHANGED crossed
    BY <1>3 DEF CreatePayment
  <2>2. \A p \in Payment : status'[p] # status[p] => status[p] = "none" /\ status'[p] = "created"
    BY <1>3 DEF CreatePayment, Some, Having, IInv, Shaped
  <2> QED
    BY <1>1, <2>1, <2>2, StatusMoves DEF GivenBack
<1>4. CASE MarkPayment(i)
  <2> DEFINE p == job[i].pay
             s == job[i].next
  <2>1. /\ p \in Payment /\ s \in {"pending", "requires_action", "failed"}
    BY <1>4, ProviderAssumption DEF MarkPayment, IInv, Shaped
  <2>2. ASSUME /\ status' = [status EXCEPT ![p] = s]
               /\ crossed' = (crossed \/ ~ CanMove(status[p], s) \/ (s = "failed" /\ p \in ref))
        PROVE  Agreement'
    <3> HIDE DEF p, s
    <3>1. ~crossed' => ~crossed /\ CanMove(status[p], s)
      BY <2>2
    <3>2. CanMove(status[p], s) => status[p] \notin GivenBack
      BY <2>1 DEF CanMove, GivenBack, Active, Unpaid
    <3>3. \A q \in Payment : status'[q] # status[q] => q = p /\ status'[q] = s
      BY <2>1, <2>2 DEF IInv, Shaped
    <3>4. s \notin GivenBack
      BY <2>1 DEF GivenBack
    <3> QED
      BY <1>1, <3>1, <3>2, <3>3, <3>4, StatusMoves DEF Claimed
  <2> QED
    BY <1>2, <1>4, <2>2 DEF MarkPayment
<1> QED
  BY <1>2, <1>3, <1>4 DEF Initiation, InitiatePayment, CallProvider

LEMMA HoldAgrees ==
    ASSUME IInv, TInv, Agreement, Lapse \/ ExpireReservation \/ CancelOrder PROVE Agreement'
<1>1. UNCHANGED <<refund, raced, crossed, reported>>
  BY DEF Lapse, ExpireReservation, CancelOrder, refunds
<1>2. \A p \in Payment : status'[p] # status[p] => status[p] \in Active /\ status'[p] = "expired"
  BY DEF Lapse, ExpireReservation, CancelOrder, IInv, Shaped
<1> QED
  BY <1>1, <1>2, StatusMoves DEF GivenBack, Active

\* A payment reported as given back was paid, and moves no further back.
LEMMA PaymentEventAgrees ==
    ASSUME IInv, TInv, Agreement, NEW d \in Delivery, ApplyPaymentEvent(d) PROVE Agreement'
<1> DEFINE e == hand[d].event
           w == e.about
           s == e.status
<1>1. w \in Payment /\ CanMove(status[w], s)
  BY DEF ApplyPaymentEvent, Applicable, PaymentEvents
<1>2. /\ status' = [status EXCEPT ![w] = s]
      /\ reported' = IF s \in GivenBack \ {status[w]} THEN reported \cup {w} ELSE reported
      /\ UNCHANGED <<refund, raced, crossed>>
  BY DEF ApplyPaymentEvent, refunds, GivenBack
<1> HIDE DEF e, w, s
<1>3. \A q \in Payment : status'[q] = IF q = w THEN s ELSE status[q]
  BY <1>1, <1>2 DEF IInv, Shaped
<1>4. CASE s \notin GivenBack
  <2>1. s # status[w] => status[w] \notin GivenBack
    BY <1>1, <1>4 DEF CanMove, GivenBack, Active, Unpaid
  <2> QED
    BY <1>2, <1>3, <1>4, <2>1, StatusMoves
<1>5. CASE s = status[w]
  BY <1>2, <1>3, <1>5, StatusMoves
<1>6. CASE s \in GivenBack /\ s # status[w]
  <2>1. status[w] = "succeeded" \/ (status[w] = "partially_refunded" /\ s = "refunded")
    BY <1>1, <1>6 DEF CanMove, GivenBack, Active, Unpaid
  <2>2. reported' = reported \cup {w}
    BY <1>2, <1>6
  <2> SUFFICES ASSUME Claimed', NEW p \in Payment PROVE WithinPrice(p)' /\ Told(p)'
    BY DEF Agreement
  <2>3. WithinPrice(p) /\ Told(p)
    BY <1>2 DEF Agreement, Claimed
  <2>4. Reserved(p)' = Reserved(p) /\ Refunded(p)' = Refunded(p) /\ (Underway(p)' <=> Underway(p))
    BY <1>2, SumsStay
  <2>5. CASE p # w
    BY <1>3, <2>2, <2>3, <2>4, <2>5 DEF WithinPrice, Told, Says
  <2>6. CASE p = w
    <3>1. status'[p] = s /\ p \in reported'
      BY <1>3, <2>2, <2>6
    <3>2. Says(p) => s = "refunded"
      BY <2>1, <2>6 DEF Says, RefundedStatus
    <3> QED
      BY <1>6, <2>3, <2>4, <3>1, <3>2 DEF WithinPrice, Told, Says
  <2> QED
    BY <2>5, <2>6
<1> QED
  BY <1>4, <1>5, <1>6

\* How a change of the refund r to k is seen by the payment p.
Ending == {"refresh", "write", "lost"}

LEMMA ToldStays ==
    ASSUME IInv, TInv, TInv', NEW r \in Refund, NEW k, refund' = [refund EXCEPT ![r] = k],
           NEW p \in Payment, status'[p] = status[p], UNCHANGED reported,
           Share(k, p, {"succeeded"}) = Share(refund[r], p, {"succeeded"}),
           refund[r].pay = p /\ refund[r].step \in Ending => k.pay = p /\ k.step \in Ending,
           Told(p)
    PROVE  Told(p)'
<1>1. Refunded(p)' = Refunded(p)
  <2>1. /\ Refunded(p) \in Nat /\ Refunded(p)' \in Nat
        /\ Refunded(p)' + Share(refund[r], p, {"succeeded"})
             = Refunded(p) + Share(k, p, {"succeeded"})
    BY SumsChange
  <2>2. Share(refund[r], p, {"succeeded"}) \in Nat
    BY DEF Share, TInv, RefundsFormed, RefundForm
  <2> QED
    BY <2>1, <2>2
<1>2. \A q \in Refund : refund'[q] = IF q = r THEN k ELSE refund[q]
  BY DEF IInv, Shaped
<1>3. Underway(p) => Underway(p)'
  BY <1>2 DEF Underway, Ending
<1> QED
  BY <1>1, <1>3 DEF Told, Says

LEMMA PriceStays ==
    ASSUME IInv, TInv, TInv', NEW r \in Refund, NEW k, refund' = [refund EXCEPT ![r] = k],
           NEW p \in Payment, k.status \in Holding /\ k.pay = p =>
               /\ refund[r].status \in Holding /\ refund[r].pay = p
               /\ k.amount = refund[r].amount,
           WithinPrice(p)
    PROVE  WithinPrice(p)'
<1>1. /\ Reserved(p) \in Nat /\ Reserved(p)' \in Nat
      /\ Reserved(p)' + Share(refund[r], p, Holding) = Reserved(p) + Share(k, p, Holding)
  BY SumsChange
<1>2. refund[r].amount \in Nat
  BY DEF TInv, RefundsFormed, RefundForm
<1>3. Share(k, p, Holding) = 0 \/ Share(k, p, Holding) = Share(refund[r], p, Holding)
  BY DEF Share
<1>4. Share(refund[r], p, Holding) \in Nat
  BY <1>2 DEF Share
<1>5. Reserved(p)' <= Reserved(p)
  BY <1>1, <1>3, <1>4
<1> QED
  BY <1>1, <1>5, PriceAssumption DEF WithinPrice

\* A change that gives nothing back and reserves nothing.
LEMMA RefundMoves ==
    ASSUME IInv, TInv, TInv', Agreement, NEW r \in Refund, NEW k,
           refund' = [refund EXCEPT ![r] = k], UNCHANGED <<status, reported>>,
           Claimed' => Claimed,
           k.status \in Holding => refund[r].status \in Holding,
           k.status = "succeeded" <=> refund[r].status = "succeeded",
           \/ k.status \notin Holding /\ refund[r].status \notin Holding
           \/ k.pay = refund[r].pay /\ k.amount = refund[r].amount,
           refund[r].step \in Ending => k.pay = refund[r].pay /\ k.step \in Ending
    PROVE  Agreement'
<1> SUFFICES ASSUME Claimed', NEW p \in Payment PROVE WithinPrice(p)' /\ Told(p)'
  BY DEF Agreement
<1>1. WithinPrice(p) /\ Told(p)
  BY DEF Agreement
<1>2. Share(k, p, {"succeeded"}) = Share(refund[r], p, {"succeeded"})
  BY DEF Share, Holding
<1>3. Told(p)'
  BY <1>1, <1>2, ToldStays
<1>4. WithinPrice(p)'
  BY <1>1, PriceStays
<1> QED
  BY <1>3, <1>4

LEMMA RequestAgrees ==
    ASSUME IInv, TInv, TInv', Agreement, NEW r \in Refund, RequestRefund(r) PROVE Agreement'
<1>1. PICK p \in Payment : \E n \in 1 .. Remaining(p) :
          refund' = [refund EXCEPT ![r] = [@ EXCEPT !.step = "insert", !.pay = p,
                                                    !.amount = n, !.seen = Reserved(p)]]
  BY DEF RequestRefund, Having
<1>2. PICK n \in 1 .. Remaining(p) :
          refund' = [refund EXCEPT ![r] = [@ EXCEPT !.step = "insert", !.pay = p,
                                                    !.amount = n, !.seen = Reserved(p)]]
  BY <1>1
<1> DEFINE k == [refund[r] EXCEPT !.step = "insert", !.pay = p, !.amount = n,
                                  !.seen = Reserved(p)]
<1>3. refund' = [refund EXCEPT ![r] = k] /\ refund[r] = NoRefund
  BY <1>2 DEF RequestRefund
<1>4. k.status = "none" /\ refund[r].status = "none" /\ refund[r].step = "idle"
  BY <1>3 DEF NoRefund
<1>5. UNCHANGED <<status, reported>> /\ (Claimed' => Claimed)
  BY DEF RequestRefund, payments, Claimed
<1> HIDE DEF k
<1> QED
  BY <1>3, <1>4, <1>5, RefundMoves DEF Holding, Ending

LEMMA InsertAgrees ==
    ASSUME IInv, TInv, TInv', Agreement, NEW r \in Refund, InsertRefund(r) PROVE Agreement'
<1> DEFINE k == [refund[r] EXCEPT !.status = "created", !.step = "call", !.seen = 0]
<1>1. /\ refund' = [refund EXCEPT ![r] = k] /\ refund[r].step = "insert"
      /\ UNCHANGED <<status, reported>> /\ (Claimed' => Claimed)
      /\ Claimed' => Reserved(refund[r].pay) = refund[r].seen
  BY DEF InsertRefund, payments, Claimed
<1>2. refund[r] = [x \in Fields |-> refund[r][x]]
  BY DEF IInv, Shaped
<1>3. k.status = "created" /\ k.step = "call" /\ k.pay = refund[r].pay /\ k.amount = refund[r].amount
  BY <1>2 DEF Fields
<1>4. /\ refund[r].status = "none" /\ refund[r].amount \in Nat /\ refund[r].seen \in Nat
      /\ refund[r].seen + refund[r].amount <= Price
  BY <1>1 DEF TInv, RefundsFormed, RefundForm
<1> HIDE DEF k
<1> SUFFICES ASSUME Claimed', NEW p \in Payment PROVE WithinPrice(p)' /\ Told(p)'
  BY DEF Agreement
<1>5. WithinPrice(p) /\ Told(p)
  BY <1>1 DEF Agreement
<1>6. Told(p)'
  <2>1. Share(k, p, {"succeeded"}) = Share(refund[r], p, {"succeeded"})
    BY <1>3, <1>4 DEF Share
  <2> QED
    BY <1>1, <1>5, <2>1, ToldStays DEF Ending
<1>7. WithinPrice(p)'
  <2>1. CASE refund[r].pay # p
    BY <1>1, <1>3, <1>5, <2>1, PriceStays
  <2>2. CASE refund[r].pay = p
    <3>1. /\ Reserved(p) \in Nat /\ Reserved(p)' \in Nat
          /\ Reserved(p)' + Share(refund[r], p, Holding) = Reserved(p) + Share(k, p, Holding)
      BY <1>1, SumsChange
    <3>2. Share(refund[r], p, Holding) = 0 /\ Share(k, p, Holding) = refund[r].amount
      BY <1>3, <1>4, <2>2 DEF Share, Holding
    <3>3. Reserved(p) = refund[r].seen
      BY <1>1, <2>2
    <3> QED
      BY <1>4, <3>1, <3>2, <3>3, PriceAssumption DEF WithinPrice
  <2> QED
    BY <2>1, <2>2
<1> QED
  BY <1>6, <1>7

LEMMA CallAgrees ==
    ASSUME IInv, TInv, TInv', Agreement, NEW r \in Refund, CallRefund(r) PROVE Agreement'
<1>1. PICK s \in RefundReports :
          refund' = [refund EXCEPT ![r].step = "mark", ![r].answer = s]
  BY DEF CallRefund
<1> DEFINE k == [refund[r] EXCEPT !.step = "mark", !.answer = s]
<1>2. /\ refund' = [refund EXCEPT ![r] = k] /\ refund[r].step = "call"
      /\ UNCHANGED <<status, reported>> /\ (Claimed' => Claimed)
  BY <1>1 DEF CallRefund, payments, Claimed
<1>3. refund[r] = [x \in Fields |-> refund[r][x]]
  BY DEF IInv, Shaped
<1>4. k.status = refund[r].status /\ k.pay = refund[r].pay /\ k.amount = refund[r].amount
  BY <1>3 DEF Fields
<1> HIDE DEF k
<1> QED
  BY <1>2, <1>4, RefundMoves DEF Ending

\* What the provider gave back counts, and the request is about to say so.
LEMMA MarkAgrees ==
    ASSUME IInv, TInv, TInv', Agreement, NEW r \in Refund, MarkRefund(r) PROVE Agreement'
<1> DEFINE next == IF Refreshing(refund[r].answer) THEN "refresh" ELSE "done"
           k == [refund[r] EXCEPT !.status = refund[r].answer, !.step = next]
<1>1. /\ refund' = [refund EXCEPT ![r] = k] /\ refund[r].step = "mark"
      /\ UNCHANGED <<status, reported>> /\ (Claimed' => Claimed)
  BY DEF MarkRefund, payments, Claimed
<1>2. refund[r] = [x \in Fields |-> refund[r][x]]
  BY DEF IInv, Shaped
<1>3. /\ k.status = refund[r].answer /\ k.step = next
      /\ k.pay = refund[r].pay /\ k.amount = refund[r].amount
  BY <1>2 DEF Fields
<1>4. /\ refund[r].status = "created"
      /\ refund[r].answer \in {"succeeded", "pending", "failed", "cancelled"}
  BY <1>1 DEF TInv, RefundsFormed, RefundForm
<1> HIDE DEF k
<1>5. CASE refund[r].answer # "succeeded"
  BY <1>1, <1>3, <1>4, <1>5, RefundMoves DEF Ending, Holding
<1>6. CASE refund[r].answer = "succeeded"
  <2> SUFFICES ASSUME Claimed', NEW p \in Payment PROVE WithinPrice(p)' /\ Told(p)'
    BY DEF Agreement
  <2>1. WithinPrice(p) /\ Told(p)
    BY <1>1 DEF Agreement
  <2>2. WithinPrice(p)'
    <3>1. refund[r].status \in Holding
      BY <1>4 DEF Holding
    <3>2. k.status \in Holding /\ k.pay = p =>
              /\ refund[r].status \in Holding /\ refund[r].pay = p
              /\ k.amount = refund[r].amount
      BY <1>3, <3>1
    <3>3. refund' = [refund EXCEPT ![r] = k] /\ WithinPrice(p)
      BY <1>1, <2>1
    <3> QED
      BY <3>2, <3>3, PriceStays
  <2>3. Told(p)'
    <3>1. CASE refund[r].pay = p
      <4>1. refund'[r] = k
        BY <1>1 DEF IInv, Shaped
      <4>2. Underway(p)'
        BY <1>3, <1>6, <3>1, <4>1 DEF Underway, Refreshing
      <4>3. Refunded(p) # 0 => Refunded(p)' # 0
        <5>1. /\ Refunded(p) \in Nat /\ Refunded(p)' \in Nat
              /\ Refunded(p)' + Share(refund[r], p, {"succeeded"})
                   = Refunded(p) + Share(k, p, {"succeeded"})
          BY <1>1, SumsChange
        <5>2. Share(refund[r], p, {"succeeded"}) = 0
          BY <1>4 DEF Share
        <5>3. Share(k, p, {"succeeded"}) \in Nat
          BY <1>3 DEF Share, TInv, RefundsFormed, RefundForm
        <5> QED
          BY <5>1, <5>2, <5>3
      <4> QED
        BY <1>1, <2>1, <4>2, <4>3 DEF Told
    <3>2. CASE refund[r].pay # p
      <4>1. Share(k, p, {"succeeded"}) = Share(refund[r], p, {"succeeded"})
        BY <1>3, <3>2 DEF Share
      <4> QED
        BY <1>1, <2>1, <3>2, <4>1, ToldStays
    <3> QED
      BY <3>1, <3>2
  <2> QED
    BY <2>2, <2>3
<1> QED
  BY <1>5, <1>6

\* A request that does not write finds the payment's status right already.
LEMMA ReadAgrees ==
    ASSUME IInv, TInv, TInv', Agreement, NEW r \in Refund, RefreshRead(r) PROVE Agreement'
<1> DEFINE k == [refund[r] EXCEPT !.step = "done"]
           m == [refund[r] EXCEPT !.step = "write", !.seen = Refunded(refund[r].pay)]
<1>1. /\ \/ /\ refund' = [refund EXCEPT ![r] = k]
            /\ \/ Refunded(refund[r].pay) = 0
               \/ status[refund[r].pay] \notin Paid \ {RefundedStatus(Refunded(refund[r].pay))}
         \/ refund' = [refund EXCEPT ![r] = m]
      /\ refund[r].step = "refresh"
      /\ UNCHANGED <<status, raced, crossed, reported>>
  BY DEF RefreshRead, payments
<1>2. refund[r] = [x \in Fields |-> refund[r][x]]
  BY DEF IInv, Shaped
<1>3. /\ k.step = "done" /\ k.status = refund[r].status
      /\ k.pay = refund[r].pay /\ k.amount = refund[r].amount
  BY <1>2 DEF Fields
<1>4. /\ m.step = "write" /\ m.status = refund[r].status
      /\ m.pay = refund[r].pay /\ m.amount = refund[r].amount
  BY <1>2 DEF Fields
<1>5. refund[r].status \in {"succeeded", "cancelled"}
  BY <1>1 DEF TInv, RefundsFormed, RefundForm, Refreshing
<1> HIDE DEF k, m
<1>6. CASE refund' = [refund EXCEPT ![r] = m]
  BY <1>1, <1>4, <1>5, <1>6, RefundMoves DEF Ending, Holding, Claimed
<1>7. CASE /\ refund' = [refund EXCEPT ![r] = k]
           /\ \/ Refunded(refund[r].pay) = 0
              \/ status[refund[r].pay] \notin Paid \ {RefundedStatus(Refunded(refund[r].pay))}
  <2> SUFFICES ASSUME Claimed', NEW p \in Payment PROVE WithinPrice(p)' /\ Told(p)'
    BY DEF Agreement
  <2>1. WithinPrice(p) /\ Told(p) /\ Claimed
    BY <1>1 DEF Agreement, Claimed
  <2>2. WithinPrice(p)'
    BY <1>3, <1>5, <1>7, <2>1, PriceStays DEF Holding
  <2>3. /\ Refunded(p)' = Refunded(p)
    <3>1. /\ Refunded(p) \in Nat /\ Refunded(p)' \in Nat
          /\ Refunded(p)' + Share(refund[r], p, {"succeeded"})
               = Refunded(p) + Share(k, p, {"succeeded"})
      BY <1>7, SumsChange
    <3>2. Share(k, p, {"succeeded"}) = Share(refund[r], p, {"succeeded"})
      BY <1>3 DEF Share
    <3>3. Share(refund[r], p, {"succeeded"}) \in Nat
      BY DEF Share, TInv, RefundsFormed, RefundForm
    <3> QED
      BY <3>1, <3>2, <3>3
  <2>4. Told(p)'
    <3>1. CASE refund[r].pay = p
      <4>1. status[p] \in Paid
        BY <1>1, <2>1, <3>1 DEF IInv, Books, RefundsOfPaid, Having, Claimed
      <4>2. Refunded(p) = 0 \/ status[p] = RefundedStatus(Refunded(p))
        BY <1>7, <3>1, <4>1
      <4> QED
        BY <1>1, <2>1, <2>3, <4>2 DEF Told, Says
    <3>2. CASE refund[r].pay # p
      <4>1. Share(k, p, {"succeeded"}) = Share(refund[r], p, {"succeeded"})
        BY <1>3, <3>2 DEF Share
      <4> QED
        BY <1>1, <1>7, <2>1, <3>2, <4>1, ToldStays
    <3> QED
      BY <3>1, <3>2
  <2> QED
    BY <2>2, <2>4
<1> QED
  BY <1>1, <1>6, <1>7

\* A refund that was given and goes on to k, with the payment's status written.
LEMMA WriteAgrees ==
    ASSUME IInv, TInv, TInv', Agreement, NEW r \in Refund, RefreshWrite(r) PROVE Agreement'
<1> DEFINE w == refund[r].pay
           k == [refund[r] EXCEPT !.step = "done", !.seen = 0]
<1>1. /\ refund' = [refund EXCEPT ![r] = k] /\ refund[r].step = "write"
      /\ status' = [status EXCEPT ![w] = RefundedStatus(refund[r].seen)]
      /\ UNCHANGED reported
      /\ Claimed' => Claimed /\ Refunded(w) = refund[r].seen
  BY DEF RefreshWrite, Claimed
<1>2. refund[r] = [x \in Fields |-> refund[r][x]]
  BY DEF IInv, Shaped
<1>3. /\ k.step = "done" /\ k.status = refund[r].status
      /\ k.pay = w /\ k.amount = refund[r].amount
  BY <1>2 DEF Fields
<1>4. /\ refund[r].status \in {"succeeded", "cancelled"} /\ refund[r].amount \in Nat
      /\ refund[r].seen # 0
  BY <1>1 DEF TInv, RefundsFormed, RefundForm, Refreshing
<1>5. Claimed' => Refunded(w) # 0
  BY <1>1, <1>4
<1>6. w \in Payment /\ \A p \in Payment :
        status'[p] = IF p = w THEN RefundedStatus(refund[r].seen) ELSE status[p]
  BY <1>1 DEF IInv, Shaped
<1> HIDE DEF k
<1> SUFFICES ASSUME Claimed', NEW p \in Payment PROVE WithinPrice(p)' /\ Told(p)'
  BY DEF Agreement
<1>7. WithinPrice(p) /\ Told(p)
  BY <1>1 DEF Agreement
<1>8. WithinPrice(p)'
  <2>1. refund' = [refund EXCEPT ![r] = k]
    BY <1>1
  <2>2. k.status = refund[r].status /\ k.pay = w /\ k.amount = refund[r].amount
    BY <1>3
  <2> QED
    BY <1>7, <2>1, <2>2, PriceStays
<1>9. Share(k, p, {"succeeded"}) = Share(refund[r], p, {"succeeded"})
  BY <1>3 DEF Share
<1>10. ASSUME p # w PROVE Told(p)'
  BY <1>1, <1>6, <1>7, <1>9, <1>10, ToldStays
<1>11. ASSUME p = w PROVE Told(p)'
  <2>1. /\ Refunded(p) \in Nat /\ Refunded(p)' \in Nat
        /\ Refunded(p)' + Share(refund[r], p, {"succeeded"})
             = Refunded(p) + Share(k, p, {"succeeded"})
    BY <1>1, SumsChange
  <2>2. Share(refund[r], p, {"succeeded"}) \in Nat
    BY <1>4 DEF Share
  <2>3. Refunded(p)' = Refunded(p)
    BY <1>9, <2>1, <2>2
  <2>4. status'[p] = RefundedStatus(Refunded(p)')
    BY <1>1, <1>6, <1>11, <2>3
  <2> QED
    BY <1>5, <1>11, <2>3, <2>4 DEF Told, Says, RefundedStatus, GivenBack
<1> QED
  BY <1>8, <1>10, <1>11

\* The report of a refund: its share moves within what is reserved, or out of it.
LEMMA RefundEventAgrees ==
    ASSUME IInv, TInv, TInv', Agreement, NEW d \in Delivery, ApplyRefundEvent(d) PROVE Agreement'
<1> DEFINE e == hand[d].event
           r == e.about
           w == refund[r].pay
           Sum == RefundedAfter(e)
           Tells == Refreshing(e.status) /\ Sum > 0
           k == [refund[r] EXCEPT !.status = e.status]
<1>1. r \in Refund /\ e.status \in {"pending", "succeeded", "failed", "cancelled"}
  BY ProviderAssumption DEF ApplyRefundEvent, RefundEvents
<1>2. refund[r].status \in {"pending", e.status}
  <2>1. e \notin PaymentEvents
    BY KindsAssumption DEF ApplyRefundEvent, RefundEvents, PaymentEvents
  <2> QED
    BY <2>1 DEF ApplyRefundEvent, Applicable, Refundable
<1>3. /\ refund' = [refund EXCEPT ![r] = k]
      /\ status' = IF Tells THEN [status EXCEPT ![w] = RefundedStatus(Sum)] ELSE status
      /\ UNCHANGED reported /\ (Claimed' => Claimed)
  BY DEF ApplyRefundEvent, Claimed
<1>4. refund[r] = [x \in Fields |-> refund[r][x]]
  BY <1>1 DEF IInv, Shaped
<1>5. /\ k.step = refund[r].step /\ k.status = e.status
      /\ k.pay = w /\ k.amount = refund[r].amount
  BY <1>4 DEF Fields
<1>6. /\ refund[r].step # "idle" /\ refund[r].amount \in 1 .. Price
      /\ w \in Payment
  BY <1>1, <1>2 DEF TInv, RefundsFormed, RefundForm, IInv, Shaped
<1>7. Sum = Refunded(w) + IF e.status = "succeeded" /\ refund[r].status # "succeeded"
                          THEN refund[r].amount ELSE 0
  BY DEF RefundedAfter
<1> HIDE DEF k, r, e, Sum
<1>8. ASSUME NEW p, p = w
      PROVE  /\ Refunded(p) \in Nat /\ Refunded(p)' = Sum
             /\ Refunded(p) # 0 => Sum # 0
  <2>1. /\ Refunded(p) \in Nat /\ Refunded(p)' \in Nat
        /\ Refunded(p)' + Share(refund[r], p, {"succeeded"})
             = Refunded(p) + Share(k, p, {"succeeded"})
    BY <1>1, <1>3, SumsChange
  <2>2. Share(k, p, {"succeeded"}) = IF e.status = "succeeded" THEN refund[r].amount ELSE 0
    BY <1>5, <1>8 DEF Share
  <2>3. Share(refund[r], p, {"succeeded"})
          = IF refund[r].status = "succeeded" THEN refund[r].amount ELSE 0
    BY <1>8 DEF Share
  <2>4. refund[r].status = "succeeded" => e.status = "succeeded"
    BY <1>2
  <2>5. Sum = Refunded(p) + IF e.status = "succeeded" /\ refund[r].status # "succeeded"
                            THEN refund[r].amount ELSE 0
    BY <1>7, <1>8
  <2> HIDE DEF w
  <2> QED
    BY <1>6, <2>1, <2>2, <2>3, <2>4, <2>5, PriceAssumption
<1>9. CASE ~ Tells
  <2>1. e.status # "succeeded"
    <3>1. ASSUME e.status = "succeeded" PROVE Sum # 0
      <4>1. CASE refund[r].status = "succeeded"
        BY <1>1, <1>6, <1>8, <4>1, GivenCounts
      <4>2. CASE refund[r].status # "succeeded"
        BY <1>6, <1>7, <1>8, <3>1, <4>2, PriceAssumption
      <4> QED
        BY <4>1, <4>2
    <3>2. Sum \in Nat
      BY <1>6, <1>7, <1>8, PriceAssumption
    <3> QED
      BY <1>9, <3>1, <3>2 DEF Refreshing
  <2>2. UNCHANGED <<status, reported>>
    BY <1>3, <1>9
  <2> HIDE DEF Tells
  <2> QED
    <3>1. /\ k.status \in Holding => refund[r].status \in Holding
          /\ k.status = "succeeded" <=> refund[r].status = "succeeded"
      BY <1>1, <1>2, <1>5, <2>1 DEF Holding
    <3>2. refund[r].step \in Ending => k.pay = refund[r].pay /\ k.step \in Ending
      BY <1>5
    <3>3. refund' = [refund EXCEPT ![r] = k] /\ (Claimed' => Claimed)
      BY <1>3
    <3> QED
      BY <1>1, <1>5, <2>2, <3>1, <3>2, <3>3, RefundMoves
<1>10. CASE Tells
  <2> SUFFICES ASSUME Claimed', NEW p \in Payment PROVE WithinPrice(p)' /\ Told(p)'
    BY DEF Agreement
  <2>1. WithinPrice(p) /\ Told(p)
    BY <1>3 DEF Agreement
  <2>2. WithinPrice(p)'
    <3>1. k.status \in Holding => refund[r].status \in Holding
      BY <1>1, <1>2, <1>5 DEF Holding
    <3> QED
      BY <1>1, <1>3, <1>5, <2>1, <3>1, PriceStays
  <2>3. \A q \in Payment : status'[q] = IF q = w THEN RefundedStatus(Sum) ELSE status[q]
    BY <1>3, <1>6, <1>10 DEF IInv, Shaped
  <2>4. Told(p)'
    <3>1. CASE p # w
      <4>1. Share(k, p, {"succeeded"}) = Share(refund[r], p, {"succeeded"})
        BY <1>5, <3>1 DEF Share
      <4> QED
        <5>1. status'[p] = status[p]
          BY <2>3, <3>1
        <5>2. UNCHANGED reported /\ refund' = [refund EXCEPT ![r] = k]
          BY <1>3
        <5>3. refund[r].pay = p /\ refund[r].step \in Ending => k.pay = p /\ k.step \in Ending
          BY <3>1
        <5> QED
          BY <1>1, <2>1, <4>1, <5>1, <5>2, <5>3, ToldStays
    <3>2. CASE p = w
      <4>1. Refunded(p)' = Sum /\ Sum # 0
        BY <1>8, <1>10, <3>2
      <4>2. status'[p] = RefundedStatus(Refunded(p)')
        BY <2>3, <3>2, <4>1
      <4> QED
        BY <4>1, <4>2 DEF Told, Says, RefundedStatus, GivenBack
    <3> QED
      BY <3>1, <3>2
  <2> QED
    BY <2>2, <2>4
<1> QED
  BY <1>9, <1>10

LEMMA CrashAgrees == ASSUME IInv, TInv, TInv', Agreement, Crash PROVE Agreement'
<1>1. UNCHANGED <<status, raced, crossed, reported>>
  BY DEF Crash
<1>2. CASE UNCHANGED refund
  BY <1>1, <1>2, StatusMoves
<1>3. ASSUME NEW r \in Refund, refund' = [refund EXCEPT ![r].step = "lost"] PROVE Agreement'
  <2> DEFINE k == [refund[r] EXCEPT !.step = "lost"]
  <2>1. refund' = [refund EXCEPT ![r] = k]
    BY <1>3
  <2>2. refund[r] = [x \in Fields |-> refund[r][x]]
    BY DEF IInv, Shaped
  <2>3. /\ k.step = "lost" /\ k.status = refund[r].status
        /\ k.pay = refund[r].pay /\ k.amount = refund[r].amount
    BY <2>2 DEF Fields
  <2> HIDE DEF k
  <2> QED
    BY <1>1, <2>1, <2>3, RefundMoves DEF Ending, Claimed
<1> QED
  BY <1>2, <1>3 DEF Crash

LEMMA StepAgrees == ASSUME IInv, TInv, TInv', Agreement, [Next]_vars PROVE Agreement'
<1>1. ASSUME NEW i \in Request, Initiation(i) PROVE Agreement'
  BY <1>1, InitiationAgrees
<1>2. CASE Lapse \/ ExpireReservation \/ CancelOrder
  BY <1>2, HoldAgrees
<1>3. ASSUME NEW r \in Refund, RefundStep(r) PROVE Agreement'
  BY <1>3, RequestAgrees, InsertAgrees, CallAgrees, MarkAgrees, ReadAgrees, WriteAgrees
  DEF RefundStep
<1>4. ASSUME UNCHANGED <<status, refund, raced, crossed, reported>> PROVE Agreement'
  BY <1>4, StatusMoves
<1>5. CASE Emit
  BY <1>4, <1>5 DEF Emit, payments, refunds
<1>6. ASSUME NEW d \in Delivery, NEW e \in Events, Receive(d, e) PROVE Agreement'
  BY <1>4, <1>6 DEF Receive, payments, refunds
<1>7. ASSUME NEW d \in Delivery, Handling(d) PROVE Agreement'
  <2>1. CASE Record(d) \/ SkipEvent(d) \/ AbortEvent(d) \/ MarkFailed(d)
    BY <1>4, <2>1 DEF Record, SkipEvent, AbortEvent, MarkFailed, payments, refunds
  <2> QED
    BY <1>7, <2>1, PaymentEventAgrees, RefundEventAgrees DEF Handling
<1>8. CASE Crash
  BY <1>8, CrashAgrees
<1>9. CASE UNCHANGED vars
  BY <1>4, <1>9 DEF vars
<1> QED
  BY <1>1, <1>2, <1>3, <1>5, <1>6, <1>7, <1>8, <1>9 DEF Next

LEMMA AgreementBegins == Init => Agreement
<1> SUFFICES ASSUME Init, NEW p \in Payment PROVE WithinPrice(p) /\ Told(p)
  BY DEF Agreement
<1>1. \A S : "none" \notin S => Counted(refund, p, S) = {}
  BY DEF Init, Counted, NoRefund
<1>2. \A S : "none" \notin S => SumOf(p, S) = 0
  BY <1>1, SumIsTotal, TotalOfNone
<1>3. Reserved(p) = 0 /\ Refunded(p) = 0
  BY <1>2 DEF Reserved, Refunded
<1> QED
  BY <1>3, PriceAssumption DEF WithinPrice, Told, Init, GivenBack

\* Refund requests that acted on sums that still held reserve no more than was
\* paid, and the payment's status says what they gave back, or more where the
\* provider itself reported the payment as given back, for any number of refunds
\* and amounts and whatever the provider reports of payments and of refunds, of
\* the statuses the code knows.
THEOREM RefundsAlwaysAgree == Spec => []RefundsAgree
<1>1. IInv /\ TInv /\ Agreement /\ [Next]_vars => (IInv /\ TInv /\ Agreement)'
  BY StepKeeps, StepTypes, StepAgrees
<1>2. Init => IInv /\ TInv /\ Agreement
  BY InitHolds, TypesBegin, AgreementBegins
<1>3. IInv /\ TInv /\ Agreement => RefundsAgree
  BY AgreementSays
<1> QED
  BY <1>1, <1>2, <1>3, PTL DEF Spec
=============================================================================
