--------------------------- MODULE CustomerSite ---------------------------
(***************************************************************************)
(* The customer's way through the web client: the seat map of a session,   *)
(* the checkout of the order it places, the fake provider, the return from *)
(* it, the order's own page and the profile.                               *)
(*                                                                         *)
(* One page is mounted at a time.  It shows what its loads have brought    *)
(* (seen), not what the backend holds; loads overlap, one of several       *)
(* requests reads at several times, and an answer may be overtaken by a    *)
(* later one.  What a handler does between two awaits is one action.  A    *)
(* page that is left takes its state with it, while its handlers run on    *)
(* and may still navigate.                                                 *)
(***************************************************************************)
EXTENDS Naturals, FiniteSets

CONSTANTS
    Seats,       \* the seats of the session
    Loads, Acts, \* bounds: loads and handlers of the mounted page awaited at once
    Tours,       \* bound: the sets of pages a customer opens in one visit
    PollLimit,   \* STATUS_POLL_LIMIT, RETURN_POLL_LIMIT
    None

Pages   == {"session", "checkout", "fake", "return", "order", "profile"}
Mutations == {"cancel", "refund", "refundAll"}
Results == {"succeeded", "failed", "pending"}   \* "failed" stands for "cancelled" too

ASSUME SiteAssumption ==
    /\ IsFiniteSet(Seats) /\ Tours \subseteq SUBSET Pages /\ PollLimit \in Nat \ {0}
    /\ None \notin Acts \cup {"pending", "paid", "partial", "cancelled", "released",
                             "active", "failed", "done", "initiate", "retry"}

VARIABLES
    tour,     \* the pages of this visit
    order,    \* the customer's order: "none" until it is placed; "released" is
              \*  expired, payment_failed or payment_cancelled
    payment,  \* its newest payment: None, "active" (created, pending,
              \*  requires_action), "failed" (failed, cancelled, expired), "done"
    ticket,   \* [Seats -> the status of the order's ticket for the seat]
    taken,    \* seats that others hold
    due,      \* whether the hold has run out
    page,     \* the mounted page
    seen,     \* what it shows: [order, payment, ticket]
    ui,       \* its flags [loading, refreshing, error] and the tickets it marks as
              \*  being worked on [cancel, refund]
    selected, \* the seats selected on the map
    polls,    \* how often the status timer has fired since it was armed
    loads,    \* [Loads -> the load in progress]
    acts,     \* [Acts -> the handler in progress]
    own,      \* history: [Seats -> what this page was told its mutation made of
              \*  the ticket, or "none"]
    overlap   \* history: mutations of this page have overlapped

backend == <<order, payment, ticket, taken, due>>
shown   == <<seen, ui, selected, polls>>
vars    == <<tour, backend, page, shown, loads, acts, own, overlap>>

NoLoad  == [pc |-> "idle", background |-> FALSE, here |-> FALSE, for |-> None,
            order |-> None, payment |-> None, ticket |-> [s \in Seats |-> "none"]]
NoAct   == [kind |-> "none", on |-> {}, result |-> None, pc |-> "idle", here |-> FALSE]
Nothing == [order |-> None, payment |-> None, ticket |-> [s \in Seats |-> "none"]]

-----------------------------------------------------------------------------
(* The backend, as far as these pages can tell.                            *)

Blocked(tk, tn) == tn \cup {s \in Seats : tk[s] \in {"reserved", "purchased"}}
Move(S, to)     == [s \in Seats |-> IF s \in S THEN to ELSE ticket[s]]
TicketsIn(st)   == {s \in Seats : ticket[s] = st}

\* Every read of the order expires a hold that has run out first.
Elapsed         == order = "pending" /\ due
OrderNow        == IF Elapsed THEN "released" ELSE order
TicketNow       == IF Elapsed THEN Move(TicketsIn("reserved"), "expired") ELSE ticket
PaymentNow      == IF Elapsed /\ payment = "active" THEN "failed" ELSE payment

AcceptsInitiate == order = "pending" /\ ~due /\ payment # "done"
AcceptsRetry    == AcceptsInitiate /\ payment = "failed"

Expire ==
    /\ order' = OrderNow /\ ticket' = TicketNow /\ payment' = PaymentNow
    /\ UNCHANGED <<taken, due>>

\* The provider's result for an active payment, by webhook or by simulation.
Settle(result) ==
    /\ CASE result = "succeeded" /\ order = "pending" /\ ~due ->
              /\ order' = "paid" /\ payment' = "done"
              /\ ticket' = Move(TicketsIn("reserved"), "purchased")
         [] result = "succeeded" /\ ~(order = "pending" /\ ~due) ->
              payment' = "failed" /\ UNCHANGED <<order, ticket>>
         [] result = "failed" ->
              /\ payment' = "failed"
              /\ order' = IF order = "pending" THEN "released" ELSE order
              /\ ticket' = Move(TicketsIn("reserved"), "expired")
         [] OTHER -> UNCHANGED <<order, payment, ticket>>
    /\ UNCHANGED <<taken, due>>

Webhook(result) ==
    /\ payment = "active" /\ result # "pending"
    /\ Settle(result)
    /\ UNCHANGED <<page, shown, loads, acts, own, overlap>>

HoldEnds ==
    /\ order = "pending" /\ ~due
    /\ due' = TRUE
    /\ UNCHANGED <<order, payment, ticket, taken, page, shown, loads, acts, own, overlap>>

\* Bound: only while the map is open do other customers matter.
OthersTake(s) ==
    /\ page = "session"
    /\ s \notin Blocked(ticket, taken)
    /\ taken' = taken \cup {s}
    /\ UNCHANGED <<order, payment, ticket, due, page, shown, loads, acts, own, overlap>>

\* What a request of a handler does; FALSE in Accepted is a 4xx answer.
Accepted(a) ==
    CASE a.kind = "purchase" -> a.on \cap Blocked(ticket, taken) = {}
      [] a.kind = "initiate" -> AcceptsInitiate
      [] a.kind = "retry"    -> AcceptsRetry
      [] a.kind = "simulate" -> payment = "active"
      [] a.kind = "cancel"   -> a.on \subseteq TicketsIn("purchased")
      [] a.kind = "refund"   -> a.on \subseteq TicketsIn("cancelled")
      [] a.kind = "refundAll" -> order = "cancelled" /\ TicketsIn("cancelled") # {}
      [] OTHER               -> FALSE

Effect(a) ==
    CASE a.kind = "purchase" ->
           /\ order' = "pending" /\ due' = FALSE
           /\ ticket' = Move(a.on, "reserved")
           /\ UNCHANGED <<payment, taken>>
      [] a.kind \in {"initiate", "retry"} ->
           payment' = "active" /\ UNCHANGED <<order, ticket, taken, due>>
      [] a.kind = "simulate" -> Settle(a.result)
      [] a.kind = "cancel" ->
           /\ ticket' = Move(a.on, "cancelled")
           /\ order' = IF TicketsIn("purchased") = a.on THEN "cancelled" ELSE "partial"
           /\ UNCHANGED <<payment, taken, due>>
      [] a.kind \in {"refund", "refundAll"} ->
           /\ ticket' = Move(IF a.kind = "refund" THEN a.on ELSE TicketsIn("cancelled"), "refunded")
           /\ UNCHANGED <<order, payment, taken, due>>

\* The provider may refuse to create the payment: the order stays pending and
\* its newest payment is a failed one.
ProviderRefuses(a) ==
    /\ a.kind \in {"initiate", "retry"}
    /\ payment' = "failed"
    /\ UNCHANGED <<order, ticket, taken, due>>

Answered(i, pc) == [acts EXCEPT ![i] = IF @.here \/ (pc = "ok" /\ @.kind \notin Mutations)
                                       THEN [@ EXCEPT !.pc = pc, !.result = None] ELSE NoAct]

Serve(i) ==
    /\ acts[i].pc = "sent"
    /\ \/ Accepted(acts[i]) /\ Effect(acts[i]) /\ acts' = Answered(i, "ok")
       \/ Accepted(acts[i]) /\ ProviderRefuses(acts[i]) /\ acts' = Answered(i, "refused")
       \/ ~Accepted(acts[i]) /\ Expire /\ acts' = Answered(i, "refused")
    /\ UNCHANGED <<page, shown, loads, own, overlap>>

\* The request or its answer is lost on the way: the handler sees an error.
ConnectionLost(i) ==
    /\ acts[i].pc = "sent"
    /\ \/ UNCHANGED backend
       \/ Accepted(acts[i]) /\ Effect(acts[i])
    /\ acts' = Answered(i, "refused")
    /\ UNCHANGED <<page, shown, loads, own, overlap>>

-----------------------------------------------------------------------------
(* What a page makes of what it shows.                                     *)

IsPaid(o)     == o \in {"paid", "partial"}
IsReleased(o) == o \in {"cancelled", "released"}

CanRetryPastDue(v) == v.order = "pending" /\ v.payment = "failed"

CanRetry(v) == v.order = "pending" /\ ~due /\ v.payment = "failed"
CanInitiate(v) == v.order = "pending" /\ ~due /\ v.payment \in {None, "active"}

PrimaryAction(v) ==
    IF CanRetry(v) THEN "retry" ELSE IF CanInitiate(v) THEN "initiate" ELSE None

CheckoutStatus(v) ==
    IF IsPaid(v.order) THEN "paid"
    ELSE IF IsReleased(v.order) THEN "released"
    ELSE IF due THEN "expiring"
    ELSE CASE v.payment = None     -> "reserved"
           [] v.payment = "done"   -> "processing"
           [] v.payment = "failed" -> "retryable"
           [] OTHER                -> "awaiting"

ReturnStatus(v) ==
    IF IsPaid(v.order) THEN "paid"
    ELSE IF v.order = "released" \/ v.payment = "failed" THEN "retryable"
    ELSE "awaiting"

Ready      == ~ui.loading /\ ~ui.error
Submitting == \E i \in Acts : acts[i].here /\ acts[i].kind # "none"

\* What the buttons of the mounted page let the customer do.
CheckoutOffers == IF page = "checkout" /\ Ready /\ ~ui.refreshing /\ ~Submitting
                  THEN PrimaryAction(seen) ELSE None
ReturnOffers   == IF page = "return" /\ Ready /\ ~ui.refreshing /\ ~Submitting /\ CanRetry(seen)
                  THEN "retry" ELSE None
Payable        == seen.payment = "active" /\ seen.order = "pending" /\ ~due
CanSimulate    == page = "fake" /\ Ready /\ Payable /\ ~Submitting
Refundable      == {s \in Seats : seen.ticket[s] = "cancelled"}
\* A ticket's button is disabled only while it is the last one pressed.
CanCancel(s)    == page \in {"order", "profile"} /\ Ready
                   /\ seen.ticket[s] = "purchased" /\ ui.cancel # {s}
CanRefund(s)    == page = "order" /\ Ready
                   /\ seen.ticket[s] = "cancelled" /\ ui.refund # {s}
CanRefundAll    == page = "order" /\ Ready /\ seen.order = "cancelled"
                   /\ "order" \notin ui.refund /\ Refundable # {}
Purchasable     == \E s \in Seats : seen.ticket[s] = "free"
CanPurchase     == page = "session" /\ Ready /\ selected # {} /\ Purchasable /\ ~Submitting

WatchingCheckout == page = "checkout" /\ seen.order = "pending" /\ seen.payment = "active"

\* The timer of checkout and return runs while both say that a result is due.
Watching == /\ page \in {"checkout", "return"}
            /\ seen.order = "pending" /\ seen.payment = "active"

-----------------------------------------------------------------------------
(* Mounting a page, and its loads.                                         *)

Clear == [loading |-> TRUE, refreshing |-> FALSE, error |-> FALSE, cancel |-> {}, refund |-> {}]
Query(background, here, for) ==
    [NoLoad EXCEPT !.pc = "first", !.background = background, !.here = here, !.for = for]

\* The handlers of the page that is left run on, without a page; of those the
\* ones that have only its state to change are forgotten.
Pending(a) == \/ a.pc = "sent"
              \/ a.pc = "ok" /\ a.kind \notin Mutations
              \/ a.pc \in {"ok", "then"} /\ a.kind = "purchase"
Orphans(ls, as) == [l \in Loads |->
    IF ls[l].for = None \/ ~Pending(as[ls[l].for]) THEN NoLoad
    ELSE            [Query(ls[l].background, FALSE, ls[l].for) EXCEPT !.pc =
                        IF ls[l].pc \in {"first", "second"} THEN "first" ELSE "got1"]]
Left(as)    == [i \in Acts |-> IF Pending(as[i]) THEN [as[i] EXCEPT !.here = FALSE] ELSE NoAct]

\* Which slot a load takes makes no difference.
NextSlot(ls) == CHOOSE l \in Loads : ls[l] = NoLoad
HasSlot(ls)  == \E l \in Loads : ls[l] = NoLoad

Mount(p, ls, as) ==
    /\ page' = p
    /\ seen' = Nothing /\ ui' = Clear /\ selected' = {} /\ polls' = 0
    /\ LET left == Orphans(ls, as)
       IN  HasSlot(left) /\ loads' = [left EXCEPT ![NextSlot(left)] = Query(FALSE, TRUE, None)]
    /\ acts' = Left(as)
    /\ own' = [s \in Seats |-> "none"] /\ overlap' = FALSE

Go(p) ==
    /\ p # page /\ p \in tour
    /\ p = "session" <=> order = "none"
    /\ Mount(p, loads, acts)
    /\ UNCHANGED backend

Started(background) ==
    IF background
    THEN [ui EXCEPT !.refreshing = page \notin {"order", "profile"}]
    ELSE [ui EXCEPT !.loading = TRUE, !.error = page \in {"order", "profile"} /\ @]

StartLoad(background) ==
    /\ HasSlot(loads)
    /\ loads' = [loads EXCEPT ![NextSlot(loads)] = Query(background, TRUE, None)]
    /\ ui' = Started(background)
    /\ UNCHANGED <<backend, page, seen, selected, acts, own, overlap>>

PollForever == Watching /\ StartLoad(TRUE) /\ polls' = polls + 1

\* The status timer; every load that brings an order or a payment arms it anew.
Poll ==
    /\ Watching /\ polls < PollLimit
    /\ StartLoad(TRUE)
    /\ polls' = polls + 1

\* The button of the panel that a load that failed leaves.
TryAgain == ui.error /\ ~ui.loading /\ StartLoad(FALSE)

\* The refresh and retry buttons, and a switch of the language, which runs the
\* loading effect of these four pages again.  Bound: no two loading panels.
Reload ==
    /\ \/ /\ Ready /\ ~ui.refreshing /\ ~Submitting
          /\ page \in {"session", "checkout", "return"} /\ StartLoad(TRUE)
       \/ Ready /\ ~Submitting /\ page = "fake" /\ StartLoad(FALSE)
       \/ TryAgain
       \/ ~ui.loading /\ page \in {"session", "checkout", "fake", "return"} /\ StartLoad(FALSE)
    /\ UNCHANGED polls

\* The backend answers; the requests of a load are sent one after the other.
AskOrder(ld) == [ld EXCEPT !.order = OrderNow]
AskWhole(ld) == [ld EXCEPT !.order = OrderNow, !.ticket = TicketNow]
AskMap(ld)   == [ld EXCEPT !.ticket =
    [s \in Seats |-> IF s \in Blocked(TicketNow, taken) THEN "taken" ELSE "free"]]
AskPayment(ld) == [ld EXCEPT !.payment = PaymentNow]

Read(ld) ==
    IF ~ld.here THEN ld
    ELSE IF page = "session" THEN AskMap(ld)
    ELSE IF page \in {"order", "profile"} THEN AskWhole(ld)
    ELSE IF (page = "fake") = (ld.pc = "first") THEN AskPayment(ld)
    ELSE AskOrder(ld)

AnswerLoad(l) ==
    /\ loads[l].pc \in {"first", "second"}
    /\ \/ /\ loads' = [loads EXCEPT ![l] =
                [Read(loads[l]) EXCEPT !.pc = IF loads[l].pc = "first" THEN "got1" ELSE "got2"]]
          /\ Expire
       \/ /\ loads' = [loads EXCEPT ![l] =
                [Query(loads[l].background, loads[l].here, loads[l].for) EXCEPT !.pc = "error"]]
          /\ UNCHANGED backend
    /\ UNCHANGED <<page, shown, acts, own, overlap>>

\* The first of two requests shows its part at once.
FirstOfTwo(l) ==
    /\ loads[l].pc = "got1" /\ loads[l].here
    /\ page \in {"checkout", "return", "fake"}
    /\ seen' = IF page = "fake" THEN [seen EXCEPT !.payment = loads[l].payment]
               ELSE [seen EXCEPT !.order = loads[l].order]
    /\ polls' = 0
    /\ loads' = [loads EXCEPT ![l].pc = "second", ![l].order = None, ![l].payment = None]
    /\ UNCHANGED <<backend, page, ui, selected, acts, own, overlap>>

Complete(ld) == \/ ld.pc \in {"error", "got2"}
                \/ ld.pc = "got1" /\ (~ld.here \/ page \in {"session", "order", "profile"})

BroughtOnce(ld) == IF page = "profile" /\ seen.order # None THEN seen ELSE [seen EXCEPT
    !.order   = IF page \in {"order", "profile", "fake"} THEN ld.order ELSE @,
    !.payment = IF page \in {"checkout", "return"} THEN ld.payment ELSE @,
    !.ticket  = IF page \in {"session", "order", "profile"} THEN ld.ticket ELSE @]

Brought(ld) == [seen EXCEPT
    !.order   = IF page \in {"order", "profile", "fake"} THEN ld.order ELSE @,
    !.payment = IF page \in {"checkout", "return"} THEN ld.payment ELSE @,
    !.ticket  = IF page \in {"session", "order", "profile"} THEN ld.ticket ELSE @]

DeliveredKeepingSelection(ld, flags) ==
    /\ seen' = IF ld.pc = "error" THEN Nothing ELSE Brought(ld)
    /\ ui' = [flags EXCEPT !.error = ld.pc = "error", !.refreshing = FALSE, !.loading = FALSE]
    /\ polls' = 0
    /\ UNCHANGED selected

\* setOrder, setPayment and the like, or the catch block, and the finally
\* block.  A failed background load leaves the seat map as it is and empties
\* the other pages.  New objects arm the timer anew.
Delivered(ld, flags) ==
    LET keeps == ld.pc = "error" /\ page = "session" /\ ld.background
    IN  /\ seen' = IF keeps THEN seen ELSE IF ld.pc = "error" THEN Nothing ELSE Brought(ld)
        /\ selected' = IF keeps THEN selected
                       ELSE {s \in selected : ld.pc # "error" /\ ld.ticket[s] = "free"}
        /\ ui' = [flags EXCEPT !.error = IF keeps THEN @ ELSE ld.pc = "error",
                               !.refreshing = IF ld.background THEN FALSE ELSE @,
                               !.loading = IF ld.background THEN @ ELSE FALSE]
        /\ polls' = 0

FinishLoad(l) ==
    /\ Complete(loads[l]) /\ loads[l].for = None
    /\ Delivered(loads[l], ui)
    /\ loads' = [loads EXCEPT ![l] = NoLoad]
    /\ UNCHANGED <<backend, page, acts, own, overlap>>

-----------------------------------------------------------------------------
(* The handlers.                                                           *)

\* The seat buttons of the map, and what one of them does.
CanToggle(s) == page = "session" /\ Ready /\ ~Submitting /\ seen.ticket[s] = "free"

Toggle(s) ==
    /\ CanToggle(s)
    /\ selected' = IF s \in selected THEN selected \ {s} ELSE selected \cup {s}
    /\ UNCHANGED <<backend, page, seen, ui, polls, loads, acts, own, overlap>>

Begin(kind, on, result) ==
    /\ \E i \in Acts : acts[i] = NoAct
    /\ acts' = [acts EXCEPT ![CHOOSE i \in Acts : acts[i] = NoAct] =
           [kind |-> kind, on |-> on, result |-> result, pc |-> "sent", here |-> TRUE]]
    /\ overlap' = (overlap \/ Submitting)
    /\ UNCHANGED <<backend, page, seen, selected, polls, loads, own>>

\* Bounds: one order; of the handlers that buy and pay one at a time, those of
\* a page left behind included.
BeginAlone(kind, on, result) ==
    /\ \A i \in Acts : acts[i] = NoAct
    /\ Begin(kind, on, result)
    /\ UNCHANGED ui

Purchase == order = "none" /\ CanPurchase /\ BeginAlone("purchase", selected, None)

HandlePaymentAction ==
    \E kind \in {CheckoutOffers, ReturnOffers} \ {None} : BeginAlone(kind, {}, None)

HandleSimulation(result) == CanSimulate /\ BeginAlone("simulate", {}, result)

CancelTicket(s) ==
    CanCancel(s) /\ Begin("cancel", {s}, None) /\ ui' = [ui EXCEPT !.cancel = {s}]

TicketRefund(s) ==
    CanRefund(s) /\ Begin("refund", {s}, None) /\ ui' = [ui EXCEPT !.refund = {s}]

FullRefund ==
    CanRefundAll /\ Begin("refundAll", Refundable, None) /\ ui' = [ui EXCEPT !.refund = {"order"}]

\* Which answers make a handler await a reload before it goes on.
Reloads(a) ==
    CASE a.kind \in {"initiate", "retry", "simulate"} -> a.pc = "refused"
      [] a.kind \in Mutations -> a.pc = "ok"
      [] OTHER                                        -> TRUE

ReloadAfter(i) ==
    /\ acts[i].pc \in {"ok", "refused"} /\ Reloads(acts[i])
    /\ HasSlot(loads)
    /\ LET background == acts[i].kind # "simulate"
       IN  /\ loads' = [loads EXCEPT ![NextSlot(loads)] = Query(background, acts[i].here, i)]
           /\ ui' = IF acts[i].here THEN Started(background) ELSE ui
    /\ acts' = [acts EXCEPT ![i].pc = IF @ = "ok" THEN "then" ELSE "else"]
    /\ own' = IF acts[i].here /\ acts[i].pc = "ok" /\ acts[i].kind \in Mutations
              THEN [s \in Seats |-> IF s \notin acts[i].on THEN own[s]
                                    ELSE IF acts[i].kind = "cancel" THEN "cancelled" ELSE "refunded"]
              ELSE own
    /\ UNCHANGED <<backend, page, seen, selected, polls, overlap>>

Unmarked(u, kind) == CASE kind = "cancel" -> [u EXCEPT !.cancel = {}]
                       [] kind \in {"refund", "refundAll"} -> [u EXCEPT !.refund = {}]
                       [] OTHER           -> u

\* A refusal that is only reported; a purchase reloads the map after a conflict.
Report(i) ==
    /\ acts[i].pc = "refused" /\ (acts[i].kind = "purchase" \/ ~Reloads(acts[i]))
    /\ acts' = [acts EXCEPT ![i] = NoAct]
    /\ ui' = Unmarked(ui, acts[i].kind)
    /\ UNCHANGED <<backend, page, seen, selected, polls, loads, own, overlap>>

\* window.location.assign: the provider's page is a new document.
Redirect(i) ==
    /\ acts[i].pc = "ok" /\ acts[i].kind \in {"initiate", "retry"}
    /\ Mount("fake", [l \in Loads |-> NoLoad], [j \in Acts |-> NoAct])
    /\ UNCHANGED backend

Return(i) ==
    /\ acts[i].pc = "ok" /\ acts[i].kind = "simulate"
    /\ Mount("return", loads, [acts EXCEPT ![i] = NoAct])
    /\ UNCHANGED backend

ResumeIfLoaded(l) ==
    LET i == loads[l].for
    IN  /\ Complete(loads[l]) /\ i # None
        /\ IF acts[i].kind = "purchase" /\ acts[i].pc = "then" /\ loads[l].pc # "error"
           THEN Mount("checkout", [loads EXCEPT ![l] = NoLoad], [acts EXCEPT ![i] = NoAct])
           ELSE /\ loads' = [loads EXCEPT ![l] = NoLoad]
                /\ acts' = [acts EXCEPT ![i] = NoAct]
                /\ UNCHANGED <<page, shown, own, overlap>>
        /\ UNCHANGED backend

\* The reload a handler awaited is over: a purchase that succeeded goes to the
\* checkout, whether the reload worked, and wherever the customer is by now.
Resume(l) ==
    LET i == loads[l].for
    IN  /\ Complete(loads[l]) /\ i # None
        /\ IF acts[i].kind = "purchase" /\ acts[i].pc = "then"
           THEN Mount("checkout", [loads EXCEPT ![l] = NoLoad], [acts EXCEPT ![i] = NoAct])
           ELSE /\ loads' = [loads EXCEPT ![l] = NoLoad]
                /\ acts' = [acts EXCEPT ![i] = NoAct]
                /\ IF loads[l].here
                   THEN Delivered(loads[l], Unmarked(ui, acts[i].kind))
                   ELSE UNCHANGED shown
                /\ UNCHANGED <<page, own, overlap>>
        /\ UNCHANGED backend

-----------------------------------------------------------------------------

\* A visit begins on the seat map, without an order, or with one that is paid.
\* Bound: one seat of the map is still free.
Init ==
    /\ tour \in Tours /\ page \in tour
    /\ \/ page = "session" /\ order = "none" /\ payment = None /\ ticket = [s \in Seats |-> "none"]
          /\ taken = Seats \ {CHOOSE s \in Seats : TRUE}
       \/ page = "order" /\ order = "paid" /\ payment = "done" /\ ticket = [s \in Seats |-> "purchased"]
          /\ taken = {}
    /\ due = FALSE
    /\ seen = Nothing /\ ui = Clear /\ selected = {} /\ polls = 0
    /\ loads = [l \in Loads |-> IF l = NextSlot([m \in Loads |-> NoLoad])
                               THEN Query(FALSE, TRUE, None) ELSE NoLoad]
    /\ acts = [i \in Acts |-> NoAct]
    /\ own = [s \in Seats |-> "none"] /\ overlap = FALSE

Loading(l)  == AnswerLoad(l) \/ FirstOfTwo(l) \/ FinishLoad(l) \/ Resume(l)
Handling(i) == Serve(i) \/ ConnectionLost(i) \/ Report(i) \/ Redirect(i) \/ Return(i)
               \/ ReloadAfter(i)

Customer ==
    \/ \E p \in Pages : Go(p)
    \/ Reload
    \/ \E s \in Seats : Toggle(s)
    \/ Purchase
    \/ HandlePaymentAction
    \/ \E result \in Results : HandleSimulation(result)
    \/ \E s \in Seats : CancelTicket(s) \/ TicketRefund(s)
    \/ FullRefund

World ==
    \/ \E result \in Results : Webhook(result)
    \/ HoldEnds
    \/ \E s \in Seats : OthersTake(s)

Next ==
    /\ \/ World
       \/ Customer
       \/ Poll
       \/ \E l \in Loads : Loading(l)
       \/ \E i \in Acts : Handling(i)
    /\ UNCHANGED tour

Spec == Init /\ [][Next]_vars

\* The timer fires, a request is answered or fails, and what awaited the answer
\* goes on.  Nothing is assumed of the customer, the provider or other clients.
\* Strong fairness for the handlers: only the bound on Loads holds one up.
Fairness ==
    /\ WF_vars(Poll /\ UNCHANGED tour)
    /\ \A l \in Loads : WF_vars(Loading(l) /\ UNCHANGED tour)
    /\ \A i \in Acts : SF_vars(Handling(i) /\ UNCHANGED tour)

FairSpec == Spec /\ Fairness

-----------------------------------------------------------------------------
(* Properties.                                                             *)

TicketValues == {"none", "reserved", "purchased", "cancelled", "refunded", "expired"}
OrderValues  == {"none", "pending", "paid", "partial", "cancelled", "released"}
PaymentValues == {None, "active", "failed", "done"}
View == [order : OrderValues \cup {None}, payment : PaymentValues,
         ticket : [Seats -> TicketValues \cup {"free", "taken"}]]

\* Every variable has its type.
TypeOK ==
    /\ tour \in Tours
    /\ order \in OrderValues /\ payment \in PaymentValues
    /\ ticket \in [Seats -> TicketValues] /\ taken \subseteq Seats /\ due \in BOOLEAN
    /\ page \in Pages /\ seen \in View /\ selected \subseteq Seats /\ polls \in 0..PollLimit
    /\ ui \in [loading : BOOLEAN, refreshing : BOOLEAN, error : BOOLEAN,
               cancel : SUBSET Seats, refund : SUBSET (Seats \cup {"order"})]
    /\ loads \in [Loads ->
           [pc : {"idle", "first", "got1", "second", "got2", "error"}, background : BOOLEAN,
            here : BOOLEAN, for : Acts \cup {None}, order : OrderValues \cup {None},
            payment : PaymentValues, ticket : [Seats -> TicketValues \cup {"free", "taken"}]]]
    /\ acts \in [Acts ->
           [kind : {"none", "purchase", "initiate", "retry", "simulate", "cancel", "refund", "refundAll"},
            on : SUBSET Seats, result : Results \cup {None},
            pc : {"idle", "sent", "ok", "refused", "then", "else"}, here : BOOLEAN]]
    /\ own \in [Seats -> {"none", "cancelled", "refunded"}] /\ overlap \in BOOLEAN

\* The seats selected are free on the map that is shown, whichever load of the
\* map answered last and whatever was selected while it was under way: the
\* order button never submits a seat displayed as taken.
SelectionIsOffered == page = "session" => \A s \in selected : seen.ticket[s] = "free"

\* A page that shows the present state offers exactly the payment action that
\* the backend would accept: the conditions of payment.ts, repeated in the
\* client, agree with those of PaymentService, for each state both can be in.
OfferMatchesServer ==
    page = "checkout" /\ seen.order = order /\ seen.payment = payment
        /\ Ready /\ ~ui.refreshing /\ ~Submitting =>
            /\ CheckoutOffers = "retry" <=> AcceptsRetry
            /\ CheckoutStatus(seen) = "retryable" <=> AcceptsRetry
            /\ CheckoutOffers = None <=> ~AcceptsInitiate

\* When nothing is under way any more, the order page and the profile show what
\* they made of the tickets, if their own mutations did not overlap.  (Two that
\* do leave the reload that started first free to answer last.)
OwnChangesShown ==
    page \in {"order", "profile"} /\ Ready /\ ~overlap /\ ~Submitting
        /\ (\A l \in Loads : ~loads[l].here) =>
            \A s \in Seats : own[s] # "none" => seen.ticket[s] \in {own[s], "refunded"}

\* A purchase the backend has accepted brings the customer to the checkout,
\* even if the reload of the map between the two fails or another page has
\* been opened meanwhile.
PurchaseReachesCheckout ==
    \A i \in Acts : acts[i].kind = "purchase" /\ acts[i].pc = "ok" ~> page = "checkout"

\* A checkout or return page that shows an order pending with an active payment
\* comes to show otherwise once the order is no longer pending: the timer, which
\* counts at most PollLimit loads, is armed again by each load that came back,
\* and late answers do not stop it.
ShowsPaymentDue ==
    page \in {"checkout", "return"} /\ seen.order = "pending" /\ seen.payment = "active"

OutcomeReachesPage ==
    ShowsPaymentDue /\ order # "pending" ~> ~(ShowsPaymentDue /\ order # "pending")

\* "We are waiting for the backend payment state", says the return page of an
\* order with a payment: then it does not say so for ever of an order that is
\* no longer pending.  A load asks for the order first; if the provider's
\* result comes before it asks for the payment, the page shows a pending order
\* with a payment that has succeeded, says so, and arms no timer.
ReturnSaysWaiting ==
    page = "return" /\ Ready /\ seen.payment # None /\ ReturnStatus(seen) = "awaiting"

ReturnWaitEnds ==
    ReturnSaysWaiting /\ order # "pending" ~> ~(ReturnSaysWaiting /\ order # "pending")
=============================================================================
