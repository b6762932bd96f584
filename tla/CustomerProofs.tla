--------------------------- MODULE CustomerProofs ---------------------------
(***************************************************************************)
(* Proofs about CustomerSite, for any seats, loads, handlers and polls.    *)
(* What a page shows lags behind the backend, so the invariant says how    *)
(* far: a ticket that somebody has seen cancelled is cancelled or refunded *)
(* now (Lagging), and a page on which mutations have not overlapped has    *)
(* one load under way at most, begun after the last of them (Orderly).     *)
(* The parts are operators of the state's components, so that a lemma can  *)
(* say of any loads, handlers and views what it needs.                     *)
(***************************************************************************)
EXTENDS CustomerSite, TLAPS

Shown   == TicketValues \cup {"free", "taken"}
LoadRec == [pc : {"idle", "first", "got1", "second", "got2", "error"}, background : BOOLEAN,
            here : BOOLEAN, for : Acts \cup {None}, order : OrderValues \cup {None},
            payment : PaymentValues, ticket : [Seats -> Shown]]
ActRec  == [kind : {"none", "purchase", "initiate", "retry", "simulate", "cancel", "refund",
                    "refundAll"},
            on : SUBSET Seats, result : Results \cup {None},
            pc : {"idle", "sent", "ok", "refused", "then", "else"}, here : BOOLEAN]
Flags   == [loading : BOOLEAN, refreshing : BOOLEAN, error : BOOLEAN,
            cancel : SUBSET Seats, refund : SUBSET (Seats \cup {"order"})]

Blank   == [s \in Seats |-> "none"]

\* Before the order there is the seat map, and one purchase at most.
Unordered(o, pg, pay, tk, as) ==
    o = "none" =>
        /\ pg = "session" /\ pay = None
        /\ \A s \in Seats : tk[s] = "none"
        /\ \A i \in Acts : as[i].kind = "none" \/ (as[i].kind = "purchase"
                                                   /\ as[i].pc \in {"sent", "refused", "else"})
OrderFirst == Unordered(order, page, payment, ticket, acts)

OnePurchase(o, as) ==
    \A i \in Acts : as[i].kind = "purchase" /\ as[i].pc = "sent" =>
        o = "none" /\ \A j \in Acts \ {i} : as[j].kind = "none"
PurchaseFirst == OnePurchase(order, acts)

\* A handler that is done is forgotten; a load that a handler awaits is the only
\* one it awaits, and is left with it; the others are of the mounted page.
Matched(ls, as) ==
    /\ \A i \in Acts : as[i].kind = "none" => as[i] = NoAct
    /\ \A l \in Loads : ls[l].for = None => ls[l] = NoLoad \/ ls[l].here
    /\ \A l \in Loads : ls[l].for # None =>
          /\ as[ls[l].for].pc \in {"then", "else"}
          /\ as[ls[l].for].here = ls[l].here
          /\ \A m \in Loads \ {l} : ls[m].for # ls[l].for
Awaited == Matched(loads, acts)

\* What was read of a ticket says what has become of it at least.
AtLeast(st) == CASE st = "cancelled" -> {"cancelled", "refunded"}
                 [] st = "refunded"  -> {"refunded"}
                 [] OTHER            -> TicketValues
Behind(now, tk) == \A s \in Seats : now[s] \in AtLeast(tk[s])

\* What a handler knows of the tickets it is about.
Knows(now, a) ==
    \A s \in a.on :
        /\ a.kind \in {"refund", "refundAll"} /\ a.pc = "sent" => now[s] \in {"cancelled", "refunded"}
        /\ a.kind = "cancel" /\ a.pc = "ok" => now[s] \in {"cancelled", "refunded"}
        /\ a.kind \in {"refund", "refundAll"} /\ a.pc = "ok" => now[s] = "refunded"

Lagging ==
    /\ Behind(ticket, seen.ticket) /\ Behind(ticket, own)
    /\ \A l \in Loads : Behind(ticket, loads[l].ticket)
    /\ \A i \in Acts : Knows(ticket, acts[i])

\* A load that has read the tickets has read what the page did to them, and
\* the page shows it, unless it waits for a load or shows an error.
Tells(ow, tk) == \A s \in Seats : ow[s] # "none" => tk[s] \in {ow[s], "refunded"}

\* The order page and the profile, as long as their mutations do not overlap.
OneHandler(as) == \A i, j \in Acts : as[i].here /\ as[j].here => i = j
OneLoad(ls)    == \A l, m \in Loads : ls[l].here /\ ls[m].here => l = m
LoadsLast(u, ls, as)  ==
    /\ \A i \in Acts : as[i].here =>
          /\ as[i].kind \in Mutations
          /\ ~u.loading /\ ~u.error
          /\ as[i].pc \in {"sent", "ok", "refused"} => \A l \in Loads : ~ls[l].here
    /\ \A l \in Loads : ls[l].here /\ ls[l].for = None => u.loading
Informed(u, sn, ow, ls)  ==
    /\ \A l \in Loads : ls[l].here /\ ls[l].pc \in {"got1", "got2"} => Tells(ow, ls[l].ticket)
    /\ Tells(ow, sn.ticket) \/ u.error \/ \E l \in Loads : ls[l].here
InOrder(u, sn, ow, ls, as) ==
    OneHandler(as) /\ OneLoad(ls) /\ LoadsLast(u, ls, as) /\ Informed(u, sn, ow, ls)
Orderly == page \in {"order", "profile"} /\ ~overlap => InOrder(ui, seen, own, loads, acts)

IInv == TypeOK /\ OrderFirst /\ PurchaseFirst /\ Awaited /\ Lagging /\ Orderly
        /\ SelectionIsOffered

-----------------------------------------------------------------------------
(* The records of the state.                                               *)

LEMMA TypeParts ==
    ASSUME TypeOK
    PROVE  /\ tour \in Tours /\ order \in OrderValues /\ payment \in PaymentValues
           /\ ticket \in [Seats -> TicketValues] /\ taken \subseteq Seats /\ due \in BOOLEAN
           /\ page \in Pages /\ seen \in View /\ selected \subseteq Seats /\ polls \in 0..PollLimit
           /\ ui \in Flags /\ loads \in [Loads -> LoadRec] /\ acts \in [Acts -> ActRec]
           /\ own \in [Seats -> {"none", "cancelled", "refunded"}] /\ overlap \in BOOLEAN
BY DEF TypeOK, Flags, LoadRec, ActRec, Shown

LEMMA TypeFrom ==
    ASSUME tour' \in Tours, order' \in OrderValues, payment' \in PaymentValues,
           ticket' \in [Seats -> TicketValues], taken' \subseteq Seats, due' \in BOOLEAN,
           page' \in Pages, seen' \in View, selected' \subseteq Seats, polls' \in 0..PollLimit,
           ui' \in Flags, loads' \in [Loads -> LoadRec], acts' \in [Acts -> ActRec],
           own' \in [Seats -> {"none", "cancelled", "refunded"}], overlap' \in BOOLEAN
    PROVE  TypeOK'
BY DEF TypeOK, Flags, LoadRec, ActRec, Shown

LEMMA NoLoadFacts ==
    /\ NoLoad \in LoadRec
    /\ NoLoad.pc = "idle" /\ NoLoad.here = FALSE /\ NoLoad.for = None
    /\ NoLoad.ticket = Blank
BY DEF NoLoad, LoadRec, Shown, TicketValues, PaymentValues, Blank

LEMMA NoActFacts ==
    /\ NoAct \in ActRec
    /\ NoAct.pc = "idle" /\ NoAct.here = FALSE /\ NoAct.kind = "none" /\ NoAct.on = {}
BY DEF NoAct, ActRec

LEMMA QueryFacts ==
    ASSUME NEW background \in BOOLEAN, NEW here \in BOOLEAN, NEW for \in Acts \cup {None}
    PROVE  /\ Query(background, here, for) \in LoadRec
           /\ Query(background, here, for).pc = "first" /\ Query(background, here, for).here = here
           /\ Query(background, here, for).for = for
           /\ Query(background, here, for).background = background
           /\ Query(background, here, for).ticket = Blank
BY DEF Query, NoLoad, LoadRec, Shown, TicketValues, PaymentValues, Blank

LEMMA HereQuery ==
    ASSUME NEW background \in BOOLEAN
    PROVE  /\ Query(background, TRUE, None) \in LoadRec
           /\ Query(background, TRUE, None).pc = "first" /\ Query(background, TRUE, None).here
           /\ Query(background, TRUE, None).for = None
           /\ Query(background, TRUE, None).ticket = Blank
BY DEF Query, NoLoad, LoadRec, Shown, TicketValues, PaymentValues, Blank

LEMMA NothingFacts ==
    Nothing \in View /\ Nothing.ticket = Blank
BY DEF Nothing, View, TicketValues, PaymentValues, Blank

LEMMA LoadPc ==
    ASSUME NEW ld \in LoadRec, NEW pc \in {"idle", "first", "got1", "second", "got2", "error"}
    PROVE  /\ [ld EXCEPT !.pc = pc] \in LoadRec
           /\ [ld EXCEPT !.pc = pc].pc = pc /\ [ld EXCEPT !.pc = pc].here = ld.here
           /\ [ld EXCEPT !.pc = pc].for = ld.for /\ [ld EXCEPT !.pc = pc].ticket = ld.ticket
BY DEF LoadRec

LEMMA ActPc ==
    ASSUME NEW a \in ActRec, NEW pc \in {"idle", "sent", "ok", "refused", "then", "else"}
    PROVE  /\ [a EXCEPT !.pc = pc] \in ActRec
           /\ [a EXCEPT !.pc = pc].pc = pc /\ [a EXCEPT !.pc = pc].here = a.here
           /\ [a EXCEPT !.pc = pc].kind = a.kind /\ [a EXCEPT !.pc = pc].on = a.on
BY DEF ActRec

LEMMA ActAway ==
    ASSUME NEW a \in ActRec
    PROVE  /\ [a EXCEPT !.here = FALSE] \in ActRec
           /\ [a EXCEPT !.here = FALSE].here = FALSE /\ [a EXCEPT !.here = FALSE].pc = a.pc
           /\ [a EXCEPT !.here = FALSE].kind = a.kind /\ [a EXCEPT !.here = FALSE].on = a.on
BY DEF ActRec

LEMMA Slot ==
    ASSUME NEW ls, HasSlot(ls)
    PROVE  NextSlot(ls) \in Loads /\ ls[NextSlot(ls)] = NoLoad
BY DEF HasSlot, NextSlot

-----------------------------------------------------------------------------
(* What the backend makes of the tickets.                                  *)

\* A ticket that is cancelled can only be refunded, and then nothing.
Onward(was, now) ==
    \A s \in Seats : /\ was[s] = "cancelled" => now[s] \in {"cancelled", "refunded"}
                     /\ was[s] = "refunded" => now[s] = "refunded"

LEMMA BehindReads ==
    ASSUME NEW now \in [Seats -> TicketValues]
    PROVE  Behind(now, now) /\ Behind(now, Blank)
BY DEF Behind, AtLeast, TicketValues, Blank

LEMMA BehindOnward ==
    ASSUME NEW was \in [Seats -> TicketValues], NEW now \in [Seats -> TicketValues],
           Onward(was, now), NEW tk, Behind(was, tk)
    PROVE  Behind(now, tk)
<1> SUFFICES ASSUME NEW s \in Seats PROVE now[s] \in AtLeast(tk[s])
  BY DEF Behind
<1>1. /\ was[s] \in AtLeast(tk[s]) /\ now[s] \in TicketValues
      /\ was[s] = "cancelled" => now[s] \in {"cancelled", "refunded"}
      /\ was[s] = "refunded" => now[s] = "refunded"
  BY DEF Behind, Onward
<1> QED
  BY <1>1 DEF AtLeast

LEMMA KnowsOnward ==
    ASSUME NEW was \in [Seats -> TicketValues], NEW now \in [Seats -> TicketValues],
           Onward(was, now), NEW a \in ActRec, Knows(was, a)
    PROVE  Knows(now, a)
<1> SUFFICES ASSUME NEW s \in a.on
             PROVE  /\ a.kind \in {"refund", "refundAll"} /\ a.pc = "sent" =>
                          now[s] \in {"cancelled", "refunded"}
                    /\ a.kind = "cancel" /\ a.pc = "ok" => now[s] \in {"cancelled", "refunded"}
                    /\ a.kind \in {"refund", "refundAll"} /\ a.pc = "ok" => now[s] = "refunded"
  BY DEF Knows
<1>1. s \in Seats
  BY DEF ActRec
<1>2. /\ was[s] = "cancelled" => now[s] \in {"cancelled", "refunded"}
      /\ was[s] = "refunded" => now[s] = "refunded"
  BY <1>1 DEF Onward
<1> QED
  BY <1>2 DEF Knows

LEMMA TellsOfRead ==
    ASSUME NEW now \in [Seats -> TicketValues],
           NEW ow \in [Seats -> {"none", "cancelled", "refunded"}], Behind(now, ow)
    PROVE  Tells(ow, now)
BY DEF Tells, Behind, AtLeast

\* The backend after a step of its own: the types, and how far it may move.
Backend == /\ order' \in OrderValues /\ payment' \in PaymentValues
           /\ ticket' \in [Seats -> TicketValues] /\ taken' \subseteq Seats /\ due' \in BOOLEAN
           /\ Onward(ticket, ticket')

LEMMA MoveType ==
    ASSUME TypeOK, NEW S, NEW to \in TicketValues
    PROVE  Move(S, to) \in [Seats -> TicketValues]
           /\ \A s \in Seats : Move(S, to)[s] = IF s \in S THEN to ELSE ticket[s]
BY DEF Move, TypeOK

LEMMA ExpireMoves == ASSUME TypeOK, Expire PROVE Backend
<1>1. TicketNow \in [Seats -> TicketValues] /\ Onward(ticket, TicketNow)
  <2> DEFINE m == Move(TicketsIn("reserved"), "expired")
  <2>1. m \in [Seats -> TicketValues]
        /\ \A s \in Seats : m[s] = IF s \in TicketsIn("reserved") THEN "expired" ELSE ticket[s]
    BY MoveType DEF TicketValues
  <2>2. Onward(ticket, m)
    BY <2>1 DEF Onward, TicketsIn
  <2>3. Onward(ticket, ticket) /\ ticket \in [Seats -> TicketValues]
    BY TypeParts DEF Onward
  <2> QED
    BY <2>1, <2>2, <2>3 DEF TicketNow
<1>2. OrderNow \in OrderValues /\ PaymentNow \in PaymentValues
  BY TypeParts DEF OrderNow, PaymentNow, OrderValues, PaymentValues
<1> QED
  BY <1>1, <1>2, TypeParts DEF Expire, Backend

LEMMA SettleMoves == ASSUME TypeOK, NEW result, Settle(result) PROVE Backend
<1>1. taken' \subseteq Seats /\ due' \in BOOLEAN
  BY TypeParts DEF Settle
<1>2. order' \in OrderValues /\ payment' \in PaymentValues
  BY TypeParts DEF Settle, OrderValues, PaymentValues
<1>3. \/ ticket' = ticket \/ ticket' = Move(TicketsIn("reserved"), "purchased")
      \/ ticket' = Move(TicketsIn("reserved"), "expired")
  BY DEF Settle
<1>4. Onward(ticket, ticket) /\ ticket \in [Seats -> TicketValues]
  BY TypeParts DEF Onward
<1>5. \A to \in {"purchased", "expired"} :
          /\ Move(TicketsIn("reserved"), to) \in [Seats -> TicketValues]
          /\ Onward(ticket, Move(TicketsIn("reserved"), to))
  BY MoveType DEF Onward, TicketsIn, TicketValues
<1> QED
  BY <1>1, <1>2, <1>3, <1>4, <1>5 DEF Backend

\* A request that is accepted, by the kind of the handler that sent it.
LEMMA EffectMoves ==
    ASSUME IInv, NEW i \in Acts, acts[i].pc = "sent", Accepted(acts[i]), Effect(acts[i])
    PROVE  /\ Backend
           /\ acts[i].kind = "purchase" => order' # "none"
           /\ acts[i].kind \in {"refund", "refundAll"} =>
                  \A s \in acts[i].on : ticket'[s] = "refunded"
           /\ acts[i].kind = "cancel" => \A s \in acts[i].on : ticket'[s] = "cancelled"
<1> DEFINE a == acts[i]
<1>1. /\ TypeOK /\ a \in ActRec /\ a.on \subseteq Seats
      /\ ticket \in [Seats -> TicketValues] /\ order \in OrderValues /\ payment \in PaymentValues
      /\ taken \subseteq Seats /\ due \in BOOLEAN
  BY TypeParts DEF IInv, ActRec
<1>2. CASE a.kind = "purchase"
  <2>1. order' = "pending" /\ due' = FALSE /\ ticket' = Move(a.on, "reserved")
        /\ payment' = payment /\ taken' = taken
    BY <1>2 DEF Effect
  <2>2. \A s \in Seats : ticket[s] = "none"
    BY <1>2 DEF IInv, PurchaseFirst, OnePurchase, OrderFirst, Unordered
  <2>3. ticket' \in [Seats -> TicketValues]
    BY <1>1, <2>1, MoveType DEF TicketValues
  <2> QED
    BY <1>1, <1>2, <2>1, <2>2, <2>3 DEF Backend, Onward, OrderValues
<1>3. CASE a.kind \in {"initiate", "retry"}
  <2>1. payment' = "active" /\ order' = order /\ ticket' = ticket /\ taken' = taken /\ due' = due
    BY <1>3 DEF Effect
  <2> QED
    BY <1>1, <1>3, <2>1 DEF Backend, Onward, PaymentValues
<1>4. CASE a.kind = "simulate"
  <2>1. Settle(a.result)
    BY <1>4 DEF Effect
  <2> QED
    BY <1>1, <1>4, <2>1, SettleMoves
<1>5. CASE a.kind = "cancel"
  <2>1. /\ ticket' = Move(a.on, "cancelled")
        /\ order' = IF TicketsIn("purchased") = a.on THEN "cancelled" ELSE "partial"
        /\ payment' = payment /\ taken' = taken /\ due' = due
    BY <1>5 DEF Effect
  <2>2. a.on \subseteq TicketsIn("purchased")
    BY <1>5 DEF Accepted
  <2>3. /\ ticket' \in [Seats -> TicketValues]
        /\ \A s \in Seats : ticket'[s] = IF s \in a.on THEN "cancelled" ELSE ticket[s]
    BY <1>1, <2>1, MoveType DEF TicketValues
  <2>4. order' \in OrderValues
    BY <2>1 DEF OrderValues
  <2>5. Onward(ticket, ticket')
    BY <2>2, <2>3 DEF Onward, TicketsIn
  <2> QED
    BY <1>1, <1>5, <2>1, <2>3, <2>4, <2>5 DEF Backend
<1>6. CASE a.kind = "refund"
  <2>1. ticket' = Move(a.on, "refunded") /\ order' = order
        /\ payment' = payment /\ taken' = taken /\ due' = due
    BY <1>6 DEF Effect
  <2>2. /\ ticket' \in [Seats -> TicketValues]
        /\ \A s \in Seats : ticket'[s] = IF s \in a.on THEN "refunded" ELSE ticket[s]
    BY <1>1, <2>1, MoveType DEF TicketValues
  <2>3. Onward(ticket, ticket')
    BY <2>2 DEF Onward
  <2> QED
    BY <1>1, <1>6, <2>1, <2>2, <2>3 DEF Backend
<1>7. CASE a.kind = "refundAll"
  <2>1. ticket' = Move(TicketsIn("cancelled"), "refunded") /\ order' = order
        /\ payment' = payment /\ taken' = taken /\ due' = due
    BY <1>7 DEF Effect
  <2>2. /\ ticket' \in [Seats -> TicketValues]
        /\ \A s \in Seats : ticket'[s] = IF s \in TicketsIn("cancelled") THEN "refunded"
                                         ELSE ticket[s]
    BY <1>1, <2>1, MoveType DEF TicketValues
  <2>3. Onward(ticket, ticket')
    BY <2>2 DEF Onward
  <2>4. \A s \in a.on : ticket[s] \in {"cancelled", "refunded"}
    BY <1>7 DEF IInv, Lagging, Knows
  <2>5. \A s \in a.on : ticket'[s] = "refunded"
    BY <1>1, <2>2, <2>4 DEF TicketsIn
  <2> QED
    BY <1>1, <1>7, <2>1, <2>2, <2>3, <2>5 DEF Backend
<1>8. a.kind # "none"
  BY NoActFacts DEF IInv, Awaited, Matched
<1> QED
  BY <1>1, <1>2, <1>3, <1>4, <1>5, <1>6, <1>7, <1>8 DEF ActRec

\* Until there is an order nothing of it moves, but by the purchase.
Early == /\ order' = "none" <=> order = "none"
         /\ order = "none" => payment' = payment /\ ticket' = ticket

LEMMA ExpireEarly == ASSUME TypeOK, Expire PROVE Early
BY DEF Expire, OrderNow, TicketNow, PaymentNow, Elapsed, Early

LEMMA SettleEarly ==
    ASSUME TypeOK, NEW result \in Results, Settle(result), order # "none"
    PROVE  Early
<1>1. order' \in {order, "paid", "released"}
  BY DEF Settle
<1> QED
  BY <1>1 DEF Early

\* What the backend does by itself, or for somebody else, the pages do not see.
LEMMA BackendKeeps ==
    ASSUME IInv, Backend, Early, UNCHANGED <<tour, page, shown, loads, acts, own, overlap>>
    PROVE  IInv'
<1> USE DEF IInv
<1>1. TypeOK'
  <2>1. /\ tour' = tour /\ page' = page /\ seen' = seen /\ ui' = ui /\ selected' = selected
        /\ polls' = polls /\ loads' = loads /\ acts' = acts /\ own' = own /\ overlap' = overlap
    BY DEF shown
  <2> QED
    BY <2>1, TypeParts, TypeFrom DEF Backend
<1>2. OrderFirst'
  BY DEF OrderFirst, Unordered, Early
<1>3. PurchaseFirst'
  BY DEF PurchaseFirst, OnePurchase, Early
<1>4. Awaited'
  BY DEF Awaited
<1>5. Lagging'
  <2>1. /\ ticket \in [Seats -> TicketValues] /\ ticket' \in [Seats -> TicketValues]
        /\ Onward(ticket, ticket') /\ acts \in [Acts -> ActRec]
    BY TypeParts DEF Backend
  <2>2. Behind(ticket', seen.ticket) /\ Behind(ticket', own)
    BY <2>1, BehindOnward DEF Lagging
  <2>3. \A l \in Loads : Behind(ticket', loads[l].ticket)
    BY <2>1, BehindOnward DEF Lagging
  <2>4. \A i \in Acts : Knows(ticket', acts[i])
    BY <2>1, KnowsOnward DEF Lagging
  <2> QED
    BY <2>2, <2>3, <2>4 DEF Lagging, shown
<1>6. Orderly'
  BY DEF Orderly, shown
<1>7. SelectionIsOffered'
  BY DEF SelectionIsOffered, shown
<1> QED
  BY <1>1, <1>2, <1>3, <1>4, <1>5, <1>6, <1>7

LEMMA WorldKeeps == ASSUME IInv, World, UNCHANGED tour PROVE IInv'
<1>1. TypeOK /\ (order = "none" => payment = None)
  BY DEF IInv, OrderFirst, Unordered
<1>2. ASSUME NEW result \in Results, Webhook(result) PROVE IInv'
  <2>1. Settle(result) /\ payment = "active" /\ UNCHANGED <<page, shown, loads, acts, own, overlap>>
    BY <1>2 DEF Webhook
  <2>2. order # "none"
    BY <1>1, <2>1, SiteAssumption
  <2>3. Backend /\ Early
    BY <1>1, <2>1, <2>2, SettleMoves, SettleEarly
  <2> QED
    BY <2>1, <2>3, BackendKeeps
<1>3. ASSUME HoldEnds PROVE IInv'
  <2>1. Backend /\ Early
    BY <1>1, <1>3, TypeParts DEF HoldEnds, Backend, Early, Onward
  <2> QED
    BY <1>3, <2>1, BackendKeeps DEF HoldEnds
<1>4. ASSUME NEW s \in Seats, OthersTake(s) PROVE IInv'
  <2>1. Backend /\ Early
    BY <1>1, <1>4, TypeParts DEF OthersTake, Backend, Early, Onward
  <2> QED
    BY <1>4, <2>1, BackendKeeps DEF OthersTake
<1> QED
  BY <1>2, <1>3, <1>4 DEF World

-----------------------------------------------------------------------------
(* Requests.                                                               *)

\* A request that is accepted leaves an order, there before or placed by it.
LEMMA EffectOrders ==
    ASSUME IInv, NEW i \in Acts, acts[i].pc = "sent", Accepted(acts[i]), Effect(acts[i])
    PROVE  order' # "none"
<1>1. acts[i].kind # "none" /\ acts[i] \in ActRec
  BY TypeParts, NoActFacts DEF IInv, Awaited, Matched
<1>2. CASE order = "none"
  <2>1. acts[i].kind = "purchase"
    BY <1>1, <1>2 DEF IInv, OrderFirst, Unordered
  <2> QED
    BY <2>1, EffectMoves
<1>3. CASE order # "none"
  <2>1. CASE acts[i].kind = "purchase"
    BY <2>1, EffectMoves
  <2>2. CASE acts[i].kind \in {"initiate", "retry"}
    BY <1>3, <2>2 DEF Effect
  <2>3. CASE acts[i].kind = "simulate"
    BY <1>3, <2>3 DEF Effect, Settle
  <2>4. CASE acts[i].kind = "cancel"
    BY <2>4 DEF Effect
  <2>5. CASE acts[i].kind \in {"refund", "refundAll"}
    BY <1>3, <2>5 DEF Effect
  <2> QED
    BY <1>1, <2>1, <2>2, <2>3, <2>4, <2>5 DEF ActRec
<1> QED
  BY <1>2, <1>3

LEMMA AnsweredFacts ==
    ASSUME NEW i \in Acts, NEW pc \in {"ok", "refused"}, acts \in [Acts -> ActRec],
           acts' = Answered(i, pc)
    PROVE  /\ acts' \in [Acts -> ActRec]
           /\ \A j \in Acts \ {i} : acts'[j] = acts[j]
           /\ acts'[i] = NoAct \/ /\ acts'[i].kind = acts[i].kind /\ acts'[i].on = acts[i].on
                                  /\ acts'[i].pc = pc /\ acts'[i].here = acts[i].here
<1> DEFINE b == IF acts[i].here \/ (pc = "ok" /\ acts[i].kind \notin Mutations)
                THEN [acts[i] EXCEPT !.pc = pc, !.result = None] ELSE NoAct
<1>1. acts' = [acts EXCEPT ![i] = b]
  BY DEF Answered
<1>2. b \in ActRec
  BY NoActFacts DEF ActRec
<1>3. b = NoAct \/ /\ b.kind = acts[i].kind /\ b.on = acts[i].on
                   /\ b.pc = pc /\ b.here = acts[i].here
  BY DEF ActRec
<1> HIDE DEF b
<1> QED
  BY <1>1, <1>2, <1>3

\* The answer to a request, which the backend has dealt with or not.
LEMMA AnswerKeeps ==
    ASSUME IInv, NEW i \in Acts, acts[i].pc = "sent", NEW pc \in {"ok", "refused"},
           Backend, order' = "none" => Early,
           pc = "ok" => /\ order' # "none"
                        /\ acts[i].kind \in {"refund", "refundAll"} =>
                               \A s \in acts[i].on : ticket'[s] = "refunded"
                        /\ acts[i].kind = "cancel" => \A s \in acts[i].on : ticket'[s] = "cancelled",
           acts' = Answered(i, pc), UNCHANGED <<tour, page, shown, loads, own, overlap>>
    PROVE  IInv'
<1> USE DEF IInv
<1>0. /\ tour' = tour /\ page' = page /\ seen' = seen /\ ui' = ui /\ selected' = selected
      /\ polls' = polls /\ loads' = loads /\ own' = own /\ overlap' = overlap
  BY DEF shown
<1>1. /\ acts \in [Acts -> ActRec] /\ acts' \in [Acts -> ActRec]
      /\ \A j \in Acts \ {i} : acts'[j] = acts[j]
      /\ acts'[i] = NoAct \/ /\ acts'[i].kind = acts[i].kind /\ acts'[i].on = acts[i].on
                             /\ acts'[i].pc = pc /\ acts'[i].here = acts[i].here
  BY TypeParts, AnsweredFacts
<1>2. acts[i].kind # "none"
  BY NoActFacts DEF Awaited, Matched
<1>3. TypeOK'
  BY <1>0, <1>1, TypeParts, TypeFrom DEF Backend
<1>4. OrderFirst'
  <2> SUFFICES ASSUME order' = "none"
               PROVE  /\ page' = "session" /\ payment' = None
                      /\ \A s \in Seats : ticket'[s] = "none"
                      /\ \A j \in Acts : acts'[j].kind = "none" \/ (acts'[j].kind = "purchase"
                                              /\ acts'[j].pc \in {"sent", "refused", "else"})
    BY DEF OrderFirst, Unordered
  <2>1. order = "none" /\ payment' = payment /\ ticket' = ticket /\ pc = "refused"
    BY DEF Early
  <2> QED
    BY <1>0, <1>1, <2>1, NoActFacts DEF OrderFirst, Unordered
<1>5. PurchaseFirst'
  <2>1. ASSUME NEW j \in Acts, acts'[j].kind = "purchase", acts'[j].pc = "sent" PROVE FALSE
    <3>1. j # i
      BY <1>1, <2>1, NoActFacts
    <3> QED
      BY <1>1, <1>2, <2>1, <3>1 DEF PurchaseFirst, OnePurchase
  <2> QED
    BY <2>1 DEF PurchaseFirst, OnePurchase
<1>6. Awaited'
  <2>1. \A l \in Loads : loads[l].for # None => loads[l].for # i
    BY DEF Awaited, Matched
  <2>2. loads \in [Loads -> LoadRec]
    BY TypeParts
  <2>3. \A l \in Loads : loads[l].for # None => acts'[loads[l].for] = acts[loads[l].for]
    BY <1>1, <2>1, <2>2 DEF LoadRec
  <2>4. \A j \in Acts : acts'[j].kind = "none" => acts'[j] = NoAct
    BY <1>1, <1>2 DEF Awaited, Matched
  <2> QED
    BY <1>0, <2>3, <2>4 DEF Awaited, Matched
<1>7. Lagging'
  <2>1. /\ ticket \in [Seats -> TicketValues] /\ ticket' \in [Seats -> TicketValues]
        /\ Onward(ticket, ticket')
    BY TypeParts DEF Backend
  <2>2. Behind(ticket', seen.ticket) /\ Behind(ticket', own)
    BY <2>1, BehindOnward DEF Lagging
  <2>3. \A l \in Loads : Behind(ticket', loads[l].ticket)
    BY <2>1, BehindOnward DEF Lagging
  <2>4. \A j \in Acts : Knows(ticket', acts[j])
    BY <1>1, <2>1, KnowsOnward DEF Lagging
  <2>5. Knows(ticket', acts'[i])
    BY <1>1, NoActFacts DEF Knows
  <2> QED
    BY <1>0, <1>1, <2>2, <2>3, <2>4, <2>5 DEF Lagging
<1>8. Orderly'
  <2> SUFFICES ASSUME page \in {"order", "profile"}, ~overlap
               PROVE  InOrder(ui, seen, own, loads, acts')
    BY <1>0 DEF Orderly
  <2>1. OneHandler(acts) /\ OneLoad(loads) /\ LoadsLast(ui, loads, acts)
        /\ Informed(ui, seen, own, loads)
    BY DEF Orderly, InOrder
  <2>2. \A j \in Acts : acts'[j].here => acts[j].here /\ acts'[j].kind = acts[j].kind
            /\ (acts'[j].pc = acts[j].pc \/ acts[j].pc = "sent")
    BY <1>1, NoActFacts
  <2>3. OneHandler(acts')
    BY <2>1, <2>2 DEF OneHandler
  <2>4. LoadsLast(ui, loads, acts')
    BY <2>1, <2>2 DEF LoadsLast
  <2> QED
    BY <2>1, <2>3, <2>4 DEF InOrder
<1>9. SelectionIsOffered'
  BY <1>0 DEF SelectionIsOffered
<1> QED
  BY <1>3, <1>4, <1>5, <1>6, <1>7, <1>8, <1>9

LEMMA ServeKeeps ==
    ASSUME IInv, NEW i \in Acts, Serve(i), UNCHANGED tour PROVE IInv'
<1>1. acts[i].pc = "sent" /\ UNCHANGED <<tour, page, shown, loads, own, overlap>>
  BY DEF Serve
<1>2. CASE Accepted(acts[i]) /\ Effect(acts[i]) /\ acts' = Answered(i, "ok")
  BY <1>1, <1>2, EffectMoves, EffectOrders, AnswerKeeps
<1>3. CASE Accepted(acts[i]) /\ ProviderRefuses(acts[i]) /\ acts' = Answered(i, "refused")
  <2>1. Backend
    BY <1>3, TypeParts DEF IInv, ProviderRefuses, Backend, Onward, PaymentValues
  <2>2. order # "none" /\ order' = order
    BY <1>3 DEF IInv, OrderFirst, Unordered, ProviderRefuses
  <2> QED
    BY <1>1, <1>3, <2>1, <2>2, AnswerKeeps
<1>4. CASE ~Accepted(acts[i]) /\ Expire /\ acts' = Answered(i, "refused")
  <2>1. Backend /\ Early
    BY <1>4, ExpireMoves, ExpireEarly DEF IInv
  <2> QED
    BY <1>1, <1>4, <2>1, AnswerKeeps
<1> QED
  BY <1>2, <1>3, <1>4 DEF Serve

LEMMA LostKeeps ==
    ASSUME IInv, NEW i \in Acts, ConnectionLost(i), UNCHANGED tour PROVE IInv'
<1>1. /\ acts[i].pc = "sent" /\ acts' = Answered(i, "refused")
      /\ UNCHANGED <<tour, page, shown, loads, own, overlap>>
  BY DEF ConnectionLost
<1>2. CASE UNCHANGED backend
  <2>1. Backend /\ Early
    BY <1>2, TypeParts DEF IInv, backend, Backend, Early, Onward
  <2> QED
    BY <1>1, <2>1, AnswerKeeps
<1>3. CASE Accepted(acts[i]) /\ Effect(acts[i])
  BY <1>1, <1>3, EffectMoves, EffectOrders, AnswerKeeps
<1> QED
  BY <1>2, <1>3 DEF ConnectionLost

-----------------------------------------------------------------------------
(* Pages that are opened and left.                                         *)

LEMMA OrphanFacts ==
    ASSUME NEW ls, NEW as, NEW l \in Loads, ls[l] \in LoadRec
    PROVE  /\ Orphans(ls, as)[l] \in LoadRec
           /\ Orphans(ls, as)[l] = NoLoad
              \/ /\ ls[l].for # None /\ Pending(as[ls[l].for])
                 /\ Orphans(ls, as)[l].for = ls[l].for /\ Orphans(ls, as)[l].here = FALSE
                 /\ Orphans(ls, as)[l].pc \in {"first", "got1"}
                 /\ Orphans(ls, as)[l].ticket = Blank
<1> DEFINE q == Query(ls[l].background, FALSE, ls[l].for)
           pc == IF ls[l].pc \in {"first", "second"} THEN "first" ELSE "got1"
           x == [q EXCEPT !.pc = pc]
<1>1. q \in LoadRec /\ q.for = ls[l].for /\ q.here = FALSE /\ q.ticket = Blank
  <2>1. ls[l].background \in BOOLEAN /\ FALSE \in BOOLEAN /\ ls[l].for \in Acts \cup {None}
    BY DEF LoadRec
  <2> QED
    BY <2>1, QueryFacts
<1>2. Orphans(ls, as)[l] = IF ls[l].for = None \/ ~Pending(as[ls[l].for]) THEN NoLoad ELSE x
  BY DEF Orphans
<1>3. pc \in {"first", "got1"}
  OBVIOUS
<1> HIDE DEF q, pc
<1>4. /\ x \in LoadRec /\ x.pc = pc /\ x.here = FALSE /\ x.for = ls[l].for
      /\ x.ticket = Blank
  BY <1>1, <1>3 DEF LoadRec
<1> QED
  BY <1>2, <1>3, <1>4, NoLoadFacts

LEMMA LeftFacts ==
    ASSUME NEW as, NEW i \in Acts, as[i] \in ActRec
    PROVE  /\ Left(as)[i] \in ActRec /\ Left(as)[i].here = FALSE
           /\ IF Pending(as[i])
              THEN /\ Left(as)[i].kind = as[i].kind /\ Left(as)[i].on = as[i].on
                   /\ Left(as)[i].pc = as[i].pc
              ELSE Left(as)[i] = NoAct
BY ActAway, NoActFacts DEF Left

LEMMA MountLoads ==
    ASSUME NEW p, NEW ls, NEW as, Mount(p, ls, as), \A l \in Loads : ls[l] \in LoadRec
    PROVE  /\ loads' \in [Loads -> LoadRec]
           /\ \E n \in Loads :
                 /\ loads'[n].here /\ loads'[n].for = None /\ loads'[n].pc = "first"
                 /\ loads'[n].ticket = Blank
                 /\ \A l \in Loads : l = n \/ loads'[l] = NoLoad
                       \/ /\ ls[l].for # None /\ Pending(as[ls[l].for])
                          /\ loads'[l].for = ls[l].for /\ loads'[l].here = FALSE
                          /\ loads'[l].ticket = Blank
<1> DEFINE left == Orphans(ls, as)
           n == NextSlot(left)
           q == Query(FALSE, TRUE, None)
<1>1. HasSlot(left) /\ loads' = [left EXCEPT ![n] = q]
  BY DEF Mount
<1>2. n \in Loads
  BY <1>1, Slot
<1>3. /\ q \in LoadRec /\ q.here /\ q.for = None /\ q.pc = "first"
      /\ q.ticket = Blank
  BY QueryFacts
<1>4. \A l \in Loads : /\ left[l] \in LoadRec
                       /\ left[l] = NoLoad
                          \/ /\ ls[l].for # None /\ Pending(as[ls[l].for])
                             /\ left[l].for = ls[l].for /\ left[l].here = FALSE
                             /\ left[l].ticket = Blank
  BY OrphanFacts
<1>5. left = [l \in Loads |-> left[l]]
  BY DEF Orphans
<1> HIDE DEF left, n, q
<1>6. left \in [Loads -> LoadRec]
  BY <1>4, <1>5
<1>7. loads' \in [Loads -> LoadRec] /\ loads'[n] = q /\ \A l \in Loads : l = n \/ loads'[l] = left[l]
  BY <1>1, <1>2, <1>3, <1>6
<1>8. \A l \in Loads : l = n \/ loads'[l] = NoLoad
          \/ /\ ls[l].for # None /\ Pending(as[ls[l].for])
             /\ loads'[l].for = ls[l].for /\ loads'[l].here = FALSE
             /\ loads'[l].ticket = Blank
  BY <1>4, <1>7
<1> QED
  BY <1>2, <1>3, <1>7, <1>8

\* Mounting a page, with any of the loads and handlers forgotten.
LEMMA MountKeeps ==
    ASSUME IInv, NEW p \in Pages, NEW ls, NEW as, Mount(p, ls, as),
           \A l \in Loads : ls[l] = loads[l] \/ ls[l] = NoLoad,
           \A i \in Acts : as[i] = acts[i] \/ as[i] = NoAct,
           order = "none" => p = "session", UNCHANGED <<tour, backend>>
    PROVE  IInv'
<1> USE DEF IInv
<1>1. /\ tour' = tour /\ order' = order /\ payment' = payment /\ ticket' = ticket
      /\ taken' = taken /\ due' = due
      /\ page' = p /\ seen' = Nothing /\ ui' = Clear /\ selected' = {} /\ polls' = 0
      /\ acts' = Left(as) /\ own' = Blank /\ overlap' = FALSE
  BY DEF Mount, backend, Blank
<1>2. /\ \A l \in Loads : ls[l] \in LoadRec
      /\ \A i \in Acts : as[i] \in ActRec
  BY TypeParts, NoLoadFacts, NoActFacts
<1>3. PICK n \in Loads :
          /\ loads'[n].here /\ loads'[n].for = None /\ loads'[n].pc = "first"
          /\ loads'[n].ticket = Blank
          /\ \A l \in Loads : l = n \/ loads'[l] = NoLoad
                \/ /\ ls[l].for # None /\ Pending(as[ls[l].for])
                   /\ loads'[l].for = ls[l].for /\ loads'[l].here = FALSE
                   /\ loads'[l].ticket = Blank
  BY <1>2, MountLoads
<1>4. \A l \in Loads : l = n \/ loads'[l] = NoLoad
          \/ /\ loads[l].for # None /\ ls[l] = loads[l] /\ Pending(as[loads[l].for])
             /\ loads'[l].for = loads[l].for /\ loads'[l].here = FALSE
             /\ loads'[l].ticket = Blank
  BY <1>3, NoLoadFacts
<1>5. \A i \in Acts : /\ acts'[i].here = FALSE /\ acts'[i] \in ActRec
                      /\ acts'[i] = NoAct \/ /\ as[i] = acts[i] /\ Pending(acts[i])
                                             /\ acts'[i].kind = acts[i].kind
                                             /\ acts'[i].on = acts[i].on
                                             /\ acts'[i].pc = acts[i].pc
  <2> TAKE i \in Acts
  <2>1. /\ Left(as)[i] \in ActRec /\ Left(as)[i].here = FALSE
        /\ IF Pending(as[i])
           THEN /\ Left(as)[i].kind = as[i].kind /\ Left(as)[i].on = as[i].on
                /\ Left(as)[i].pc = as[i].pc
           ELSE Left(as)[i] = NoAct
    BY <1>2, LeftFacts
  <2>2. ~Pending(NoAct)
    BY NoActFacts DEF Pending
  <2> QED
    BY <1>1, <2>1, <2>2
<1>6. TypeOK'
  <2>1. acts' \in [Acts -> ActRec]
    BY <1>1, <1>5 DEF Left
  <2>2. loads' \in [Loads -> LoadRec]
    BY <1>2, MountLoads
  <2>3. ui' \in Flags /\ seen' \in View /\ polls' \in 0..PollLimit
    BY <1>1, NothingFacts, SiteAssumption DEF Clear, Flags
  <2>4. own' \in [Seats -> {"none", "cancelled", "refunded"}]
    BY <1>1 DEF Blank
  <2> QED
    BY <1>1, <2>1, <2>2, <2>3, <2>4, TypeParts, TypeFrom
<1>7. OrderFirst'
  <2>1. ASSUME order = "none", NEW i \in Acts
        PROVE  acts'[i].kind = "none" \/ (acts'[i].kind = "purchase"
                                          /\ acts'[i].pc \in {"sent", "refused", "else"})
    BY <1>5, <2>1, NoActFacts DEF OrderFirst, Unordered
  <2> QED
    BY <1>1, <2>1 DEF OrderFirst, Unordered
<1>8. PurchaseFirst'
  <2>1. ASSUME NEW i \in Acts, acts'[i].kind = "purchase", acts'[i].pc = "sent"
        PROVE  order = "none" /\ \A j \in Acts \ {i} : acts'[j].kind = "none"
    <3>1. acts[i].kind = "purchase" /\ acts[i].pc = "sent"
      BY <1>5, <2>1, NoActFacts
    <3> QED
      BY <1>5, <3>1, NoActFacts DEF PurchaseFirst, OnePurchase
  <2> QED
    BY <1>1, <2>1 DEF PurchaseFirst, OnePurchase
<1>9. Awaited'
  <2>1. \A i \in Acts : acts'[i].kind = "none" => acts'[i] = NoAct
    <3> SUFFICES ASSUME NEW i \in Acts, acts'[i].kind = "none" PROVE acts'[i] = NoAct
      OBVIOUS
    <3>1. acts[i].kind = "none" => ~Pending(acts[i])
      BY NoActFacts DEF Awaited, Matched, Pending
    <3> QED
      BY <1>5, <3>1
  <2>2. \A l \in Loads : loads'[l].for = None => loads'[l] = NoLoad \/ loads'[l].here
    BY <1>3, <1>4
  <2>3. ASSUME NEW l \in Loads, loads'[l].for # None
        PROVE  /\ acts'[loads'[l].for].pc \in {"then", "else"}
               /\ acts'[loads'[l].for].here = loads'[l].here
               /\ \A m \in Loads \ {l} : loads'[m].for # loads'[l].for
    <3>1. /\ l # n /\ loads[l].for # None /\ Pending(as[loads[l].for])
          /\ loads'[l].for = loads[l].for /\ loads'[l].here = FALSE
      BY <1>3, <1>4, <2>3, NoLoadFacts
    <3> DEFINE i == loads[l].for
    <3>2. i \in Acts
      BY <3>1, TypeParts DEF LoadRec
    <3> HIDE DEF i
    <3>3. as[i] = acts[i] /\ Pending(acts[i])
      BY <3>1, <3>2, NoActFacts DEF i, Pending
    <3>4. acts'[i].pc = acts[i].pc /\ acts'[i].here = FALSE
      <4>1. Left(as)[i].pc = as[i].pc
        BY <1>2, <3>2, <3>3, LeftFacts
      <4> QED
        BY <1>1, <1>5, <3>2, <3>3, <4>1
    <3>5. acts[i].pc \in {"then", "else"} /\ \A m \in Loads \ {l} : loads[m].for # i
      BY <3>1 DEF i, Awaited, Matched
    <3>6. ASSUME NEW m \in Loads \ {l} PROVE loads'[m].for # i
      BY <1>3, <1>4, <3>1, <3>5, NoLoadFacts DEF i
    <3> QED
      BY <3>1, <3>4, <3>5, <3>6 DEF i
  <2> QED
    BY <2>1, <2>2, <2>3 DEF Awaited, Matched
<1>10. Lagging'
  <2>1. Behind(ticket, Blank)
    BY TypeParts, BehindReads
  <2>2. \A l \in Loads : Behind(ticket, loads'[l].ticket)
    <3> SUFFICES ASSUME NEW l \in Loads PROVE Behind(ticket, loads'[l].ticket)
      OBVIOUS
    <3>1. loads'[l].ticket = Blank
      BY <1>3, <1>4, NoLoadFacts
    <3> QED
      BY <2>1, <3>1
  <2>3. ASSUME NEW i \in Acts PROVE Knows(ticket, acts'[i])
    <3>1. Knows(ticket, acts[i]) /\ Knows(ticket, NoAct)
      BY NoActFacts DEF Lagging, Knows
    <3> QED
      BY <1>5, <3>1 DEF Knows
  <2> QED
    BY <1>1, <2>1, <2>2, <2>3, NothingFacts DEF Lagging
<1>11. Orderly'
  <2>1. OneHandler(acts')
    BY <1>5 DEF OneHandler
  <2>2. \A l \in Loads \ {n} : loads'[l].here = FALSE
    BY <1>4, NoLoadFacts
  <2>3. OneLoad(loads')
    BY <2>2 DEF OneLoad
  <2>4. LoadsLast(ui', loads', acts')
    BY <1>1, <1>5 DEF LoadsLast, Clear
  <2>5. Informed(ui', seen', own', loads')
    BY <1>1, <1>3 DEF Informed, Tells, Blank
  <2> QED
    BY <2>1, <2>3, <2>4, <2>5 DEF Orderly, InOrder
<1>12. SelectionIsOffered'
  BY <1>1 DEF SelectionIsOffered
<1> QED
  BY <1>6, <1>7, <1>8, <1>9, <1>10, <1>11, <1>12

LEMMA GoKeeps == ASSUME IInv, NEW p \in Pages, Go(p), UNCHANGED tour PROVE IInv'
BY MountKeeps DEF Go

LEMMA RedirectKeeps ==
    ASSUME IInv, NEW i \in Acts, Redirect(i), UNCHANGED tour PROVE IInv'
<1> DEFINE ls == [l \in Loads |-> NoLoad]
           as == [j \in Acts |-> NoAct]
<1>1. Mount("fake", ls, as) /\ UNCHANGED <<tour, backend>>
  BY DEF Redirect
<1>2. order # "none"
  BY DEF IInv, OrderFirst, Unordered, Redirect
<1>3. /\ \A l \in Loads : ls[l] = loads[l] \/ ls[l] = NoLoad
      /\ \A j \in Acts : as[j] = acts[j] \/ as[j] = NoAct
      /\ "fake" \in Pages
  BY DEF Pages
<1> HIDE DEF ls, as
<1> QED
  BY <1>1, <1>2, <1>3, MountKeeps

LEMMA ReturnKeeps ==
    ASSUME IInv, NEW i \in Acts, Return(i), UNCHANGED tour PROVE IInv'
<1> DEFINE as == [acts EXCEPT ![i] = NoAct]
<1>1. Mount("return", loads, as) /\ UNCHANGED <<tour, backend>>
  BY DEF Return
<1>2. order # "none"
  BY DEF IInv, OrderFirst, Unordered, Return
<1>3. \A j \in Acts : as[j] = acts[j] \/ as[j] = NoAct
  BY TypeParts DEF IInv
<1> HIDE DEF as
<1> QED
  BY <1>1, <1>2, <1>3, MountKeeps DEF Pages

-----------------------------------------------------------------------------
(* Loads.                                                                  *)

\* On a page of tickets no handler is under way while there is an error, and
\* no load but those of its handlers unless it says that it is loading.
LEMMA Quiet ==
    ASSUME IInv, page \in {"order", "profile"}, ~overlap, \A i \in Acts : ~acts[i].here
    PROVE  \A l \in Loads : loads[l].here => loads[l].for = None /\ ui.loading
<1> SUFFICES ASSUME NEW l \in Loads, loads[l].here PROVE loads[l].for = None /\ ui.loading
  OBVIOUS
<1>1. loads[l].for \in Acts \cup {None}
  BY TypeParts DEF IInv, LoadRec
<1>2. loads[l].for = None
  BY <1>1 DEF IInv, Awaited, Matched
<1> QED
  BY <1>2 DEF IInv, Orderly, InOrder, LoadsLast

LEMMA StartedFacts ==
    ASSUME TypeOK, NEW background \in BOOLEAN
    PROVE  /\ Started(background) \in Flags
           /\ ~background => Started(background).loading
           /\ background => /\ Started(background).loading = ui.loading
                            /\ Started(background).error = ui.error
           /\ background /\ page \in {"order", "profile"} => ~Started(background).refreshing
BY TypeParts DEF Started, Flags

LEMMA StartKeeps ==
    ASSUME IInv, NEW background \in BOOLEAN, StartLoad(background), UNCHANGED tour,
           polls' \in 0..PollLimit,
           page \in {"order", "profile"} => ~background /\ ui.error /\ ~ui.loading
    PROVE  IInv'
<1> USE DEF IInv
<1> DEFINE n == NextSlot(loads)
           q == Query(background, TRUE, None)
<1>1. /\ tour' = tour /\ order' = order /\ payment' = payment /\ ticket' = ticket
      /\ taken' = taken /\ due' = due /\ page' = page /\ seen' = seen
      /\ selected' = selected /\ acts' = acts /\ own' = own /\ overlap' = overlap
      /\ HasSlot(loads) /\ loads' = [loads EXCEPT ![n] = q] /\ ui' = Started(background)
  BY DEF StartLoad, backend
<1>2. n \in Loads /\ loads[n] = NoLoad
  BY <1>1, Slot
<1>3. /\ q \in LoadRec /\ q.here /\ q.for = None /\ q.pc = "first" /\ q.ticket = Blank
  BY HereQuery
<1> HIDE DEF n, q
<1>4. /\ loads' \in [Loads -> LoadRec] /\ loads'[n] = q
      /\ \A l \in Loads : l = n \/ loads'[l] = loads[l]
  BY <1>1, <1>2, <1>3, TypeParts
<1>5. TypeOK'
  <2>1. ui' \in Flags
    BY <1>1, StartedFacts
  <2> QED
    BY <1>1, <1>4, <2>1, TypeParts, TypeFrom
<1>6. OrderFirst' /\ PurchaseFirst' /\ SelectionIsOffered'
  <2>1. OrderFirst'
    BY <1>1 DEF OrderFirst
  <2>2. PurchaseFirst'
    BY <1>1 DEF PurchaseFirst
  <2>3. SelectionIsOffered'
    BY <1>1 DEF SelectionIsOffered
  <2> QED
    BY <2>1, <2>2, <2>3
<1>7. Awaited'
  <2>1. ASSUME NEW l \in Loads, loads'[l].for # None
        PROVE  /\ acts[loads'[l].for].pc \in {"then", "else"}
               /\ acts[loads'[l].for].here = loads'[l].here
               /\ \A m \in Loads \ {l} : loads'[m].for # loads'[l].for
    <3>1. l # n /\ loads'[l] = loads[l]
      BY <1>3, <1>4, <2>1
    <3> QED
      BY <1>3, <1>4, <2>1, <3>1 DEF Awaited, Matched
  <2>2. \A l \in Loads : loads'[l].for = None => loads'[l] = NoLoad \/ loads'[l].here
    BY <1>3, <1>4 DEF Awaited, Matched
  <2> QED
    BY <1>1, <2>1, <2>2 DEF Awaited, Matched
<1>8. Lagging'
  <2>1. Behind(ticket, Blank)
    BY TypeParts, BehindReads
  <2>2. \A l \in Loads : Behind(ticket, loads'[l].ticket)
    BY <1>3, <1>4, <2>1 DEF Lagging
  <2> QED
    BY <1>1, <2>2 DEF Lagging
<1>9. Orderly'
  <2> SUFFICES ASSUME page \in {"order", "profile"}, ~overlap
               PROVE  InOrder(ui', seen, own, loads', acts)
    BY <1>1 DEF Orderly
  <2>1. \A i \in Acts : ~acts[i].here
    BY DEF Orderly, InOrder, LoadsLast
  <2>2. \A l \in Loads : l = n \/ ~loads'[l].here
    BY <1>4, <2>1, Quiet
  <2>3. ui'.loading
    BY <1>1, StartedFacts
  <2>4. LoadsLast(ui', loads', acts)
    BY <2>1, <2>3 DEF LoadsLast
  <2>5. Informed(ui', seen, own, loads')
    BY <1>2, <1>3, <1>4, <2>2 DEF Informed
  <2> QED
    BY <2>1, <2>2, <2>4, <2>5 DEF InOrder, OneHandler, OneLoad
<1> QED
  BY <1>5, <1>6, <1>7, <1>8, <1>9

LEMMA ReloadKeeps == ASSUME IInv, Reload, UNCHANGED tour PROVE IInv'
<1>1. polls' \in 0..PollLimit
  BY TypeParts DEF IInv, Reload
<1>2. CASE page \in {"session", "checkout", "return"} /\ StartLoad(TRUE)
  BY <1>1, <1>2, StartKeeps
<1>3. CASE page \in {"session", "checkout", "fake", "return"} /\ StartLoad(FALSE)
  BY <1>1, <1>3, StartKeeps
<1>4. CASE TryAgain
  BY <1>1, <1>4, StartKeeps DEF TryAgain
<1> QED
  BY <1>2, <1>3, <1>4 DEF Reload

LEMMA PollKeeps == ASSUME IInv, Poll, UNCHANGED tour PROVE IInv'
<1>1. polls' \in 0..PollLimit
  BY TypeParts, SiteAssumption DEF IInv, Poll
<1>2. page \notin {"order", "profile"} /\ StartLoad(TRUE)
  BY DEF Poll, Watching
<1> QED
  BY <1>1, <1>2, StartKeeps

LEMMA NowTypes ==
    ASSUME TypeOK
    PROVE  /\ OrderNow \in OrderValues \cup {None} /\ PaymentNow \in PaymentValues
           /\ TicketNow \in [Seats -> TicketValues]
<1>1. Move(TicketsIn("reserved"), "expired") \in [Seats -> TicketValues]
  BY MoveType DEF TicketValues
<1> QED
  BY <1>1, TypeParts DEF OrderNow, PaymentNow, TicketNow, OrderValues, PaymentValues

\* A load that is answered has what it asked for; the tickets are those of the
\* backend, or what the map makes of them, or what the load had already.
LEMMA ReadFacts ==
    ASSUME TypeOK, NEW ld \in LoadRec
    PROVE  /\ Read(ld) \in LoadRec /\ Read(ld).here = ld.here /\ Read(ld).for = ld.for
           /\ \/ Read(ld).ticket = ld.ticket \/ Read(ld).ticket = TicketNow
              \/ \A s \in Seats : Read(ld).ticket[s] \in {"taken", "free"}
           /\ ld.here /\ page \in {"order", "profile"} => Read(ld).ticket = TicketNow
<1> DEFINE map == [s \in Seats |-> IF s \in Blocked(TicketNow, taken) THEN "taken" ELSE "free"]
<1>1. /\ OrderNow \in OrderValues \cup {None} /\ PaymentNow \in PaymentValues
      /\ TicketNow \in [Seats -> Shown]
  BY NowTypes DEF Shown
<1>2. map \in [Seats -> Shown] /\ \A s \in Seats : map[s] \in {"taken", "free"}
  BY DEF Shown
<1>3. AskMap(ld) = [ld EXCEPT !.ticket = map]
  BY DEF AskMap
<1> HIDE DEF map
<1>4. /\ AskMap(ld) \in LoadRec /\ AskMap(ld).here = ld.here /\ AskMap(ld).for = ld.for
      /\ AskMap(ld).ticket = map
  BY <1>2, <1>3 DEF LoadRec
<1>5. /\ AskWhole(ld) \in LoadRec /\ AskWhole(ld).here = ld.here /\ AskWhole(ld).for = ld.for
      /\ AskWhole(ld).ticket = TicketNow
  BY <1>1 DEF AskWhole, LoadRec
<1>6. /\ AskPayment(ld) \in LoadRec /\ AskPayment(ld).here = ld.here
      /\ AskPayment(ld).for = ld.for /\ AskPayment(ld).ticket = ld.ticket
  BY <1>1 DEF AskPayment, LoadRec
<1>7. /\ AskOrder(ld) \in LoadRec /\ AskOrder(ld).here = ld.here
      /\ AskOrder(ld).for = ld.for /\ AskOrder(ld).ticket = ld.ticket
  BY <1>1 DEF AskOrder, LoadRec
<1>8. CASE ~ld.here
  BY <1>8 DEF Read
<1>9. CASE ld.here /\ page = "session"
  BY <1>2, <1>4, <1>9 DEF Read
<1>10. CASE ld.here /\ page \in {"order", "profile"}
  BY <1>5, <1>10 DEF Read
<1>11. CASE ld.here /\ page \notin {"session", "order", "profile"}
  BY <1>6, <1>7, <1>11 DEF Read
<1> QED
  BY <1>8, <1>9, <1>10, <1>11

\* A load goes one step further, and the backend may find a hold that has ended.
LEMMA ProgressKeeps ==
    ASSUME IInv, NEW l \in Loads, NEW x \in LoadRec, Backend, Early,
           loads[l].pc # "idle", x.here = loads[l].here, x.for = loads[l].for,
           loads' = [loads EXCEPT ![l] = x], Behind(ticket', x.ticket),
           x.here /\ x.pc \in {"got1", "got2"} /\ page \in {"order", "profile"} => Tells(own, x.ticket),
           UNCHANGED <<tour, page, shown, acts, own, overlap>>
    PROVE  IInv'
<1> USE DEF IInv
<1>1. /\ tour' = tour /\ page' = page /\ seen' = seen /\ ui' = ui /\ selected' = selected
      /\ polls' = polls /\ acts' = acts /\ own' = own /\ overlap' = overlap
  BY DEF shown
<1>2. /\ loads' \in [Loads -> LoadRec] /\ loads'[l] = x
      /\ \A m \in Loads : m = l \/ loads'[m] = loads[m]
      /\ \A m \in Loads : loads'[m].here = loads[m].here /\ loads'[m].for = loads[m].for
  BY TypeParts
<1>3. TypeOK'
  BY <1>1, <1>2, TypeParts, TypeFrom DEF Backend
<1>4. OrderFirst' /\ PurchaseFirst'
  BY <1>1 DEF OrderFirst, Unordered, PurchaseFirst, OnePurchase, Early
<1>5. SelectionIsOffered'
  BY <1>1 DEF SelectionIsOffered
<1>6. Awaited'
  <2>1. \A m \in Loads : loads'[m].for = None => loads'[m] = NoLoad \/ loads'[m].here
    BY <1>2, NoLoadFacts DEF Awaited, Matched
  <2> QED
    BY <1>1, <1>2, <2>1 DEF Awaited, Matched
<1>7. Lagging'
  <2>1. /\ ticket \in [Seats -> TicketValues] /\ ticket' \in [Seats -> TicketValues]
        /\ Onward(ticket, ticket') /\ acts \in [Acts -> ActRec]
    BY TypeParts DEF Backend
  <2>2. Behind(ticket', seen.ticket) /\ Behind(ticket', own)
    BY <2>1, BehindOnward DEF Lagging
  <2>3. \A m \in Loads : Behind(ticket', loads[m].ticket)
    BY <2>1, BehindOnward DEF Lagging
  <2>4. \A i \in Acts : Knows(ticket', acts[i])
    BY <2>1, KnowsOnward DEF Lagging
  <2> QED
    BY <1>1, <1>2, <2>2, <2>3, <2>4 DEF Lagging
<1>8. Orderly'
  <2> SUFFICES ASSUME page \in {"order", "profile"}, ~overlap
               PROVE  InOrder(ui, seen, own, loads', acts)
    BY <1>1 DEF Orderly
  <2>1. OneHandler(acts) /\ OneLoad(loads) /\ LoadsLast(ui, loads, acts)
        /\ Informed(ui, seen, own, loads)
    BY DEF Orderly, InOrder
  <2>2. OneLoad(loads') /\ LoadsLast(ui, loads', acts)
    BY <1>2, <2>1 DEF OneLoad, LoadsLast
  <2>3. Informed(ui, seen, own, loads')
    BY <1>2, <2>1 DEF Informed
  <2> QED
    BY <2>1, <2>2, <2>3 DEF InOrder
<1> QED
  BY <1>3, <1>4, <1>5, <1>6, <1>7, <1>8

LEMMA AnswerLoadKeeps ==
    ASSUME IInv, NEW l \in Loads, AnswerLoad(l), UNCHANGED tour PROVE IInv'
<1> DEFINE ld == loads[l]
           r == Read(ld)
           pc == IF ld.pc = "first" THEN "got1" ELSE "got2"
           e == Query(ld.background, ld.here, ld.for)
<1>1. /\ TypeOK /\ ld \in LoadRec /\ ld.pc # "idle"
      /\ UNCHANGED <<tour, page, shown, acts, own, overlap>>
  BY TypeParts DEF IInv, AnswerLoad
<1>2. \/ loads' = [loads EXCEPT ![l] = [r EXCEPT !.pc = pc]] /\ Expire
      \/ loads' = [loads EXCEPT ![l] = [e EXCEPT !.pc = "error"]] /\ UNCHANGED backend
  BY DEF AnswerLoad
<1>3. pc \in {"got1", "got2"}
  OBVIOUS
<1>4. /\ r \in LoadRec /\ r.here = ld.here /\ r.for = ld.for
      /\ \/ r.ticket = ld.ticket \/ r.ticket = TicketNow
         \/ \A s \in Seats : r.ticket[s] \in {"taken", "free"}
      /\ ld.here /\ page \in {"order", "profile"} => r.ticket = TicketNow
  BY <1>1, ReadFacts
<1>5. /\ e \in LoadRec /\ e.here = ld.here /\ e.for = ld.for /\ e.ticket = Blank
  <2>1. ld.background \in BOOLEAN /\ ld.here \in BOOLEAN /\ ld.for \in Acts \cup {None}
    BY <1>1 DEF LoadRec
  <2> QED
    BY <2>1, QueryFacts
<1>6. CASE loads' = [loads EXCEPT ![l] = [r EXCEPT !.pc = pc]] /\ Expire
  <2> DEFINE x == [r EXCEPT !.pc = pc]
  <2> HIDE DEF r, pc
  <2>1. /\ x \in LoadRec /\ x.here = ld.here /\ x.for = ld.for /\ x.ticket = r.ticket
    BY <1>3, <1>4 DEF LoadRec
  <2>2. loads' = [loads EXCEPT ![l] = x]
    BY <1>6
  <2> HIDE DEF x
  <2>3. Backend /\ Early /\ ticket' = TicketNow
    BY <1>1, <1>6, ExpireMoves, ExpireEarly DEF Expire
  <2>4. /\ ticket \in [Seats -> TicketValues] /\ ticket' \in [Seats -> TicketValues]
        /\ Onward(ticket, ticket')
    BY <1>1, <2>3, TypeParts DEF Backend
  <2>5. Behind(ticket', x.ticket)
    <3>1. CASE r.ticket = ld.ticket
      BY <2>1, <2>4, <3>1, BehindOnward DEF IInv, Lagging
    <3>2. CASE r.ticket = TicketNow
      BY <2>1, <2>3, <2>4, <3>2, BehindReads
    <3>3. CASE \A s \in Seats : r.ticket[s] \in {"taken", "free"}
      BY <2>1, <2>4, <3>3 DEF Behind, AtLeast
    <3> QED
      BY <1>4, <3>1, <3>2, <3>3
  <2>6. x.here /\ page \in {"order", "profile"} => Tells(own, x.ticket)
    <3>1. Behind(ticket', own) /\ own \in [Seats -> {"none", "cancelled", "refunded"}]
      BY <1>1, <2>4, BehindOnward, TypeParts DEF IInv, Lagging
    <3> QED
      BY <1>4, <2>1, <2>3, <2>4, <3>1, TellsOfRead
  <2> HIDE DEF ld
  <2> QED
    BY <1>1, <2>1, <2>2, <2>3, <2>5, <2>6, ProgressKeeps DEF ld
<1>7. CASE loads' = [loads EXCEPT ![l] = [e EXCEPT !.pc = "error"]] /\ UNCHANGED backend
  <2> DEFINE x == [e EXCEPT !.pc = "error"]
  <2> HIDE DEF e
  <2>1. /\ x \in LoadRec /\ x.here = ld.here /\ x.for = ld.for /\ x.ticket = Blank /\ x.pc = "error"
    BY <1>5 DEF LoadRec
  <2>2. loads' = [loads EXCEPT ![l] = x]
    BY <1>7
  <2> HIDE DEF x
  <2>3. Backend /\ Early
    BY <1>1, <1>7, TypeParts DEF backend, Backend, Early, Onward
  <2>4. Behind(ticket', x.ticket)
    BY <2>1, <2>3, BehindReads DEF Backend
  <2> HIDE DEF ld
  <2> QED
    BY <1>1, <2>1, <2>2, <2>3, <2>4, ProgressKeeps DEF ld
<1> QED
  BY <1>2, <1>6, <1>7

\* The first of two answers changes what is shown of the order or the payment,
\* on a page that shows no tickets.
LEMMA FirstOfTwoKeeps ==
    ASSUME IInv, NEW l \in Loads, FirstOfTwo(l), UNCHANGED tour PROVE IInv'
<1> USE DEF IInv
<1> DEFINE ld == loads[l]
           x == [ld EXCEPT !.pc = "second", !.order = None, !.payment = None]
<1>1. /\ tour' = tour /\ order' = order /\ payment' = payment /\ ticket' = ticket
      /\ taken' = taken /\ due' = due /\ page' = page /\ ui' = ui /\ polls' = 0
      /\ selected' = selected /\ acts' = acts /\ own' = own /\ overlap' = overlap
      /\ ld.pc = "got1" /\ ld.here /\ page \in {"checkout", "return", "fake"}
  BY DEF FirstOfTwo, backend
<1>2. loads' = [loads EXCEPT ![l] = x]
  BY DEF FirstOfTwo
<1>3. ld \in LoadRec /\ seen \in View
  BY TypeParts
<1>4. seen' \in View /\ seen'.ticket = seen.ticket
  <2>1. seen' = [seen EXCEPT !.payment = ld.payment] \/ seen' = [seen EXCEPT !.order = ld.order]
    BY DEF FirstOfTwo
  <2> HIDE DEF ld
  <2> QED
    BY <1>3, <2>1 DEF View, LoadRec
<1>5. x \in LoadRec /\ x.here = ld.here /\ x.for = ld.for /\ x.ticket = ld.ticket
  <2> HIDE DEF ld
  <2> QED
    BY <1>3 DEF LoadRec, PaymentValues
<1> HIDE DEF x
<1>6. /\ loads' \in [Loads -> LoadRec]
      /\ \A m \in Loads : m = l \/ loads'[m] = loads[m]
      /\ \A m \in Loads : /\ loads'[m].here = loads[m].here /\ loads'[m].for = loads[m].for
                          /\ loads'[m].ticket = loads[m].ticket
  BY <1>2, <1>5, TypeParts
<1>7. TypeOK'
  <2>1. polls' \in 0..PollLimit
    BY <1>1, SiteAssumption
  <2> QED
    BY <1>1, <1>4, <1>6, <2>1, TypeParts, TypeFrom
<1>8. OrderFirst'
  BY <1>1 DEF OrderFirst
<1>9. PurchaseFirst'
  BY <1>1 DEF PurchaseFirst
<1>10. Awaited'
  <2>1. \A m \in Loads : loads'[m].for = None => loads'[m] = NoLoad \/ loads'[m].here
    BY <1>1, <1>6 DEF Awaited, Matched
  <2> QED
    BY <1>1, <1>6, <2>1 DEF Awaited, Matched
<1>11. Lagging'
  BY <1>1, <1>4, <1>6 DEF Lagging
<1>12. Orderly' /\ SelectionIsOffered'
  BY <1>1 DEF Orderly, SelectionIsOffered
<1> QED
  BY <1>7, <1>8, <1>9, <1>10, <1>11, <1>12

LEMMA DeliveredFacts ==
    ASSUME TypeOK, NEW ld \in LoadRec, NEW flags \in Flags, Delivered(ld, flags),
           SelectionIsOffered
    PROVE  /\ seen' \in View /\ ui' \in Flags /\ selected' \subseteq Seats /\ polls' = 0
           /\ seen'.ticket \in {seen.ticket, ld.ticket, Blank}
           /\ page \in {"order", "profile"} =>
                  \/ ui'.error
                  \/ ld.pc # "error" /\ seen'.ticket = ld.ticket
           /\ page = "session" => \A s \in selected' : seen'.ticket[s] = "free"
<1> DEFINE keeps == ld.pc = "error" /\ page = "session" /\ ld.background
           b == Brought(ld)
<1>1. /\ seen' = IF keeps THEN seen ELSE IF ld.pc = "error" THEN Nothing ELSE b
      /\ selected' = IF keeps THEN selected
                     ELSE {s \in selected : ld.pc # "error" /\ ld.ticket[s] = "free"}
      /\ ui' = [flags EXCEPT !.error = IF keeps THEN @ ELSE ld.pc = "error",
                             !.refreshing = IF ld.background THEN FALSE ELSE @,
                             !.loading = IF ld.background THEN @ ELSE FALSE]
      /\ polls' = 0
  BY DEF Delivered
<1>2. /\ b \in View
      /\ b.ticket = IF page \in {"session", "order", "profile"} THEN ld.ticket ELSE seen.ticket
  BY TypeParts DEF Brought, View, LoadRec, Shown
<1>3. ui' \in Flags /\ (~keeps /\ ld.pc = "error" => ui'.error)
  BY <1>1 DEF Flags, LoadRec
<1> HIDE DEF b
<1>4. seen' \in View /\ selected' \subseteq Seats /\ seen'.ticket \in {seen.ticket, ld.ticket, Blank}
  BY <1>1, <1>2, NothingFacts, TypeParts
<1>5. page \in {"order", "profile"} =>
          ui'.error \/ (ld.pc # "error" /\ seen'.ticket = ld.ticket)
  BY <1>1, <1>2, <1>3
<1>6. ASSUME page = "session", NEW s \in selected' PROVE seen'.ticket[s] = "free"
  <2>1. CASE keeps
    BY <1>1, <1>6, <2>1 DEF SelectionIsOffered
  <2>2. CASE ~keeps
    BY <1>1, <1>2, <1>6, <2>2
  <2> QED
    BY <2>1, <2>2
<1> QED
  BY <1>1, <1>3, <1>4, <1>5, <1>6

\* A load is over, with the handler that awaits it, if there is one.  What it
\* has brought is shown, unless its page has been left.
LEMMA EndKeeps ==
    ASSUME IInv, NEW l \in Loads, NEW flags \in Flags, Complete(loads[l]),
           loads' = [loads EXCEPT ![l] = NoLoad],
           acts' = IF loads[l].for = None THEN acts ELSE [acts EXCEPT ![loads[l].for] = NoAct],
           loads[l].here => Delivered(loads[l], flags), ~loads[l].here => UNCHANGED shown,
           UNCHANGED <<tour, backend, page, own, overlap>>
    PROVE  IInv'
<1> USE DEF IInv
<1> DEFINE ld == loads[l]
           i == ld.for
<1>1. /\ tour' = tour /\ order' = order /\ payment' = payment /\ ticket' = ticket
      /\ taken' = taken /\ due' = due /\ page' = page /\ own' = own /\ overlap' = overlap
  BY DEF backend
<1>2. /\ ld \in LoadRec /\ i \in Acts \cup {None} /\ acts \in [Acts -> ActRec]
      /\ loads \in [Loads -> LoadRec]
  BY TypeParts DEF LoadRec
<1>3. /\ loads' \in [Loads -> LoadRec] /\ loads'[l] = NoLoad
      /\ \A m \in Loads : m = l \/ loads'[m] = loads[m]
  BY <1>2, NoLoadFacts
<1>4. /\ acts' \in [Acts -> ActRec]
      /\ \A j \in Acts : IF j = i THEN acts'[j] = NoAct ELSE acts'[j] = acts[j]
  BY <1>2, NoActFacts, SiteAssumption
<1>5. i # None => acts[i].here = ld.here /\ acts[i].pc \in {"then", "else"}
  BY DEF Awaited, Matched
<1>6. IF ld.here
      THEN /\ seen' \in View /\ ui' \in Flags /\ selected' \subseteq Seats /\ polls' = 0
           /\ seen'.ticket \in {seen.ticket, ld.ticket, Blank}
           /\ page \in {"order", "profile"} =>
                  \/ ui'.error
                  \/ ld.pc # "error" /\ seen'.ticket = ld.ticket
           /\ page = "session" => \A s \in selected' : seen'.ticket[s] = "free"
      ELSE seen' = seen /\ ui' = ui /\ selected' = selected /\ polls' = polls
  <2>1. CASE ld.here
    BY <1>2, <2>1, DeliveredFacts
  <2>2. CASE ~ld.here
    BY <2>2 DEF shown
  <2> QED
    BY <2>1, <2>2
<1> HIDE DEF i, ld
<1>7. TypeOK'
  <2>1. seen' \in View /\ ui' \in Flags /\ selected' \subseteq Seats /\ polls' \in 0..PollLimit
    BY <1>6, TypeParts, SiteAssumption
  <2> QED
    BY <1>1, <1>3, <1>4, <2>1, TypeParts, TypeFrom
<1>8. OrderFirst'
  <2>1. ASSUME order = "none", NEW j \in Acts
        PROVE  acts'[j].kind = "none" \/ (acts'[j].kind = "purchase"
                                          /\ acts'[j].pc \in {"sent", "refused", "else"})
    BY <1>4, <2>1, NoActFacts DEF OrderFirst, Unordered
  <2> QED
    BY <1>1, <2>1 DEF OrderFirst, Unordered
<1>9. PurchaseFirst'
  <2>1. ASSUME NEW j \in Acts, acts'[j].kind = "purchase", acts'[j].pc = "sent"
        PROVE  order = "none" /\ \A k \in Acts \ {j} : acts'[k].kind = "none"
    <3>1. acts'[j] = acts[j]
      BY <1>4, <2>1, NoActFacts
    <3>2. order = "none" /\ \A k \in Acts \ {j} : acts[k].kind = "none"
      BY <2>1, <3>1 DEF PurchaseFirst, OnePurchase
    <3> QED
      BY <1>4, <3>2, NoActFacts
  <2> QED
    BY <1>1, <2>1 DEF PurchaseFirst, OnePurchase
<1>10. Awaited'
  <2>1. \A j \in Acts : acts'[j].kind = "none" => acts'[j] = NoAct
    BY <1>4 DEF Awaited, Matched
  <2>2. \A m \in Loads : loads'[m].for = None => loads'[m] = NoLoad \/ loads'[m].here
    BY <1>3 DEF Awaited, Matched
  <2>3. ASSUME NEW m \in Loads, loads'[m].for # None
        PROVE  /\ acts'[loads'[m].for].pc \in {"then", "else"}
               /\ acts'[loads'[m].for].here = loads'[m].here
               /\ \A k \in Loads \ {m} : loads'[k].for # loads'[m].for
    <3>1. m # l /\ loads'[m] = loads[m] /\ loads[m].for \in Acts
      BY <1>2, <1>3, <2>3, NoLoadFacts DEF LoadRec
    <3>2. /\ acts[loads[m].for].pc \in {"then", "else"}
          /\ acts[loads[m].for].here = loads[m].here
          /\ \A k \in Loads \ {m} : loads[k].for # loads[m].for
      BY <2>3, <3>1 DEF Awaited, Matched
    <3>3. acts'[loads[m].for] = acts[loads[m].for]
      BY <1>4, <3>1, <3>2 DEF i, ld
    <3>4. \A k \in Loads \ {m} : loads'[k].for # loads'[m].for
      BY <1>3, <2>3, <3>1, <3>2, NoLoadFacts
    <3> QED
      BY <3>1, <3>2, <3>3, <3>4
  <2> QED
    BY <2>1, <2>2, <2>3 DEF Awaited, Matched
<1>11. Lagging'
  <2>1. Behind(ticket, Blank)
    BY TypeParts, BehindReads
  <2>2. \A m \in Loads : Behind(ticket, loads'[m].ticket)
    BY <1>3, <2>1, NoLoadFacts DEF Lagging
  <2>3. Behind(ticket, seen'.ticket)
    <3>1. Behind(ticket, seen.ticket) /\ Behind(ticket, ld.ticket)
      BY DEF Lagging, ld
    <3> QED
      BY <1>6, <2>1, <3>1
  <2>4. \A j \in Acts : Knows(ticket, acts'[j])
    <3>1. Knows(ticket, NoAct)
      BY NoActFacts DEF Knows
    <3> QED
      BY <1>4, <3>1 DEF Lagging
  <2> QED
    BY <1>1, <2>2, <2>3, <2>4 DEF Lagging
<1>12. Orderly'
  <2> SUFFICES ASSUME page \in {"order", "profile"}, ~overlap
               PROVE  InOrder(ui', seen', own, loads', acts')
    BY <1>1 DEF Orderly
  <2>1. OneHandler(acts) /\ OneLoad(loads) /\ LoadsLast(ui, loads, acts)
        /\ Informed(ui, seen, own, loads)
    BY DEF Orderly, InOrder
  <2>2. \A j \in Acts : acts'[j].here => acts'[j] = acts[j] /\ j # i
    BY <1>4, NoActFacts
  <2>3. \A m \in Loads : loads'[m].here => loads'[m] = loads[m] /\ m # l
    BY <1>3, NoLoadFacts
  <2>4. OneHandler(acts') /\ OneLoad(loads')
    BY <2>1, <2>2, <2>3 DEF OneHandler, OneLoad
  <2>5. CASE ld.here
    <3>1. \A m \in Loads : ~loads'[m].here
      BY <2>1, <2>3, <2>5 DEF OneLoad, ld
    <3>2. \A j \in Acts : ~acts'[j].here
      <4>1. CASE i = None
        BY <2>1, <2>2, <2>5, <4>1 DEF LoadsLast, i, ld
      <4>2. CASE i # None
        BY <1>2, <1>5, <2>1, <2>2, <2>5, <4>2 DEF OneHandler
      <4> QED
        BY <4>1, <4>2
    <3>3. LoadsLast(ui', loads', acts')
      BY <3>1, <3>2 DEF LoadsLast
    <3>4. Tells(own, seen'.ticket) \/ ui'.error
      <4>1. CASE ui'.error
        BY <4>1
      <4>2. CASE ld.pc # "error" /\ seen'.ticket = ld.ticket
        <5>1. ld.pc \in {"got1", "got2"}
          BY <4>2 DEF Complete, ld
        <5>2. Tells(own, ld.ticket)
          BY <2>1, <2>5, <5>1 DEF Informed, ld
        <5> QED
          BY <4>2, <5>2
      <4> QED
        BY <1>6, <2>5, <4>1, <4>2
    <3>5. Informed(ui', seen', own, loads')
      BY <3>1, <3>4 DEF Informed
    <3> QED
      BY <2>4, <3>3, <3>5 DEF InOrder
  <2>6. CASE ~ld.here
    <3>1. seen' = seen /\ ui' = ui
      BY <1>6, <2>6
    <3>2. \A m \in Loads : loads[m].here => loads'[m] = loads[m]
      BY <1>3, <2>6 DEF ld
    <3>3. LoadsLast(ui', loads', acts')
      BY <2>1, <2>2, <2>3, <3>1 DEF LoadsLast
    <3>4. Informed(ui', seen', own, loads')
      BY <2>1, <2>3, <3>1, <3>2 DEF Informed
    <3> QED
      BY <2>4, <3>3, <3>4 DEF InOrder
  <2> QED
    BY <2>5, <2>6
<1>13. SelectionIsOffered'
  BY <1>1, <1>6 DEF SelectionIsOffered
<1> QED
  BY <1>7, <1>8, <1>9, <1>10, <1>11, <1>12, <1>13

LEMMA FinishLoadKeeps ==
    ASSUME IInv, NEW l \in Loads, FinishLoad(l), UNCHANGED tour PROVE IInv'
<1>1. loads[l].for = None /\ Complete(loads[l])
  BY DEF FinishLoad
<1>2. loads[l].here
  BY <1>1, NoLoadFacts DEF IInv, Awaited, Matched, Complete
<1>3. ui \in Flags
  BY TypeParts DEF IInv
<1>4. /\ Delivered(loads[l], ui) /\ loads' = [loads EXCEPT ![l] = NoLoad] /\ acts' = acts
      /\ UNCHANGED <<tour, backend, page, own, overlap>>
  BY DEF FinishLoad
<1> QED
  BY <1>1, <1>2, <1>3, <1>4, EndKeeps

LEMMA UnmarkedFacts ==
    ASSUME NEW u \in Flags, NEW kind
    PROVE  /\ Unmarked(u, kind) \in Flags /\ Unmarked(u, kind).loading = u.loading
           /\ Unmarked(u, kind).error = u.error
BY DEF Unmarked, Flags

LEMMA ResumeKeeps ==
    ASSUME IInv, NEW l \in Loads, Resume(l), UNCHANGED tour PROVE IInv'
<1> DEFINE i == loads[l].for
           ls == [loads EXCEPT ![l] = NoLoad]
           as == [acts EXCEPT ![i] = NoAct]
<1>1. Complete(loads[l]) /\ i # None /\ UNCHANGED <<tour, backend>>
  BY DEF Resume
<1>2. i \in Acts /\ loads \in [Loads -> LoadRec] /\ acts \in [Acts -> ActRec] /\ ui \in Flags
  BY <1>1, TypeParts DEF IInv, LoadRec
<1>3. CASE acts[i].kind = "purchase" /\ acts[i].pc = "then"
  <2>1. Mount("checkout", ls, as)
    BY <1>3 DEF Resume
  <2>2. order # "none"
    BY <1>2, <1>3 DEF IInv, OrderFirst, Unordered
  <2>3. /\ \A m \in Loads : ls[m] = loads[m] \/ ls[m] = NoLoad
        /\ \A j \in Acts : as[j] = acts[j] \/ as[j] = NoAct
        /\ "checkout" \in Pages
    BY <1>2 DEF Pages
  <2> HIDE DEF ls, as, i
  <2> QED
    BY <1>1, <2>1, <2>2, <2>3, MountKeeps
<1>4. CASE ~(acts[i].kind = "purchase" /\ acts[i].pc = "then")
  <2>1. /\ loads' = ls /\ acts' = as /\ UNCHANGED <<page, own, overlap>>
        /\ loads[l].here => Delivered(loads[l], Unmarked(ui, acts[i].kind))
        /\ ~loads[l].here => UNCHANGED shown
    BY <1>4 DEF Resume
  <2>2. Unmarked(ui, acts[i].kind) \in Flags
    BY <1>2, UnmarkedFacts
  <2>3. acts' = IF loads[l].for = None THEN acts ELSE [acts EXCEPT ![loads[l].for] = NoAct]
    BY <1>1, <2>1
  <2> DEFINE flags == Unmarked(ui, acts[i].kind)
  <2>4. flags \in Flags /\ (loads[l].here => Delivered(loads[l], flags))
    BY <2>1, <2>2
  <2> HIDE DEF flags
  <2> QED
    BY <1>1, <2>1, <2>3, <2>4, EndKeeps
<1> QED
  BY <1>3, <1>4

-----------------------------------------------------------------------------
(* Handlers.                                                               *)

LEMMA ToggleKeeps ==
    ASSUME IInv, NEW s \in Seats, Toggle(s), UNCHANGED tour PROVE IInv'
<1> USE DEF IInv
<1>1. /\ tour' = tour /\ order' = order /\ payment' = payment /\ ticket' = ticket
      /\ taken' = taken /\ due' = due /\ page' = page /\ seen' = seen /\ ui' = ui
      /\ polls' = polls /\ loads' = loads /\ acts' = acts /\ own' = own /\ overlap' = overlap
  BY DEF Toggle, backend
<1>2. seen.ticket[s] = "free" /\ \A t \in selected' : t = s \/ t \in selected
  BY DEF Toggle, CanToggle
<1>3. TypeOK'
  <2>1. selected' \subseteq Seats
    BY <1>2, TypeParts
  <2> QED
    BY <1>1, <2>1, TypeParts, TypeFrom
<1>4. OrderFirst'
  BY <1>1 DEF OrderFirst
<1>5. PurchaseFirst'
  BY <1>1 DEF PurchaseFirst
<1>6. Awaited'
  BY <1>1 DEF Awaited
<1>7. Lagging'
  BY <1>1 DEF Lagging
<1>8. Orderly'
  BY <1>1 DEF Orderly
<1>9. SelectionIsOffered'
  BY <1>1, <1>2 DEF SelectionIsOffered
<1> QED
  BY <1>3, <1>4, <1>5, <1>6, <1>7, <1>8, <1>9

Kinds == {"purchase", "initiate", "retry", "simulate", "cancel", "refund", "refundAll"}

LEMMA BeginKeeps ==
    ASSUME IInv, NEW kind \in Kinds, NEW on \in SUBSET Seats, NEW result \in Results \cup {None},
           Begin(kind, on, result), UNCHANGED tour,
           ui' \in Flags, ui'.loading = ui.loading, ui'.error = ui.error,
           kind = "purchase" <=> order = "none",
           kind = "purchase" => \A i \in Acts : acts[i] = NoAct,
           kind \in {"refund", "refundAll"} => \A s \in on : seen.ticket[s] = "cancelled",
           page \in {"order", "profile"} => kind \in Mutations /\ Ready
    PROVE  IInv'
<1> USE DEF IInv
<1> DEFINE i == CHOOSE j \in Acts : acts[j] = NoAct
           a == [kind |-> kind, on |-> on, result |-> result, pc |-> "sent", here |-> TRUE]
<1>1. /\ tour' = tour /\ order' = order /\ payment' = payment /\ ticket' = ticket
      /\ taken' = taken /\ due' = due /\ page' = page /\ seen' = seen
      /\ selected' = selected /\ polls' = polls /\ loads' = loads /\ own' = own
      /\ overlap' = (overlap \/ Submitting)
      /\ acts' = [acts EXCEPT ![i] = a]
  BY DEF Begin, backend
<1>2. i \in Acts /\ acts[i] = NoAct
  BY DEF Begin
<1>3. a \in ActRec /\ a.kind = kind /\ a.on = on /\ a.pc = "sent" /\ a.here
  BY DEF ActRec, Kinds
<1> HIDE DEF i, a
<1>4. /\ acts' \in [Acts -> ActRec] /\ acts'[i] = a
      /\ \A j \in Acts : j = i \/ acts'[j] = acts[j]
  BY <1>1, <1>2, <1>3, TypeParts
<1>5. TypeOK'
  <2>1. overlap' \in BOOLEAN
    BY <1>1
  <2> QED
    BY <1>1, <1>4, <2>1, TypeParts, TypeFrom
<1>6. OrderFirst'
  <2>1. ASSUME order = "none", NEW j \in Acts
        PROVE  acts'[j].kind = "none" \/ (acts'[j].kind = "purchase"
                                          /\ acts'[j].pc \in {"sent", "refused", "else"})
    BY <1>3, <1>4, <2>1 DEF OrderFirst, Unordered
  <2> QED
    BY <1>1, <2>1 DEF OrderFirst, Unordered
<1>7. PurchaseFirst'
  <2>1. ASSUME NEW j \in Acts, acts'[j].kind = "purchase", acts'[j].pc = "sent"
        PROVE  order = "none" /\ \A k \in Acts \ {j} : acts'[k].kind = "none"
    <3>1. CASE j = i
      BY <1>3, <1>4, <2>1, <3>1, NoActFacts
    <3>2. CASE j # i
      <4>1. acts[j].kind = "purchase" /\ acts[j].pc = "sent"
        BY <1>4, <2>1, <3>2
      <4>2. order = "none"
        BY <4>1 DEF PurchaseFirst, OnePurchase
      <4> QED
        BY <4>1, <4>2, NoActFacts
    <3> QED
      BY <3>1, <3>2
  <2> QED
    BY <1>1, <2>1 DEF PurchaseFirst, OnePurchase
<1>8. Awaited'
  <2>1. \A j \in Acts : acts'[j].kind = "none" => acts'[j] = NoAct
    BY <1>3, <1>4 DEF Awaited, Matched, Kinds
  <2>2. ASSUME NEW l \in Loads, loads[l].for # None
        PROVE  acts'[loads[l].for] = acts[loads[l].for]
    <3>1. loads[l].for \in Acts /\ loads[l].for # i
      BY <1>2, <2>2, TypeParts, NoActFacts DEF LoadRec, Awaited, Matched
    <3> QED
      BY <1>4, <3>1
  <2> QED
    BY <1>1, <2>1, <2>2 DEF Awaited, Matched
<1>9. Lagging'
  <2>1. Knows(ticket, a)
    <3> SUFFICES ASSUME kind \in {"refund", "refundAll"}, NEW s \in on
                 PROVE  ticket[s] \in {"cancelled", "refunded"}
      BY <1>3 DEF Knows
    <3>1. s \in Seats /\ seen.ticket[s] = "cancelled"
      OBVIOUS
    <3> QED
      BY <3>1 DEF Lagging, Behind, AtLeast
  <2> QED
    BY <1>1, <1>4, <2>1 DEF Lagging
<1>10. Orderly'
  <2> SUFFICES ASSUME page \in {"order", "profile"}, ~overlap, ~Submitting
               PROVE  InOrder(ui', seen, own, loads, acts')
    BY <1>1 DEF Orderly
  <2>1. Informed(ui, seen, own, loads) /\ kind \in Mutations /\ ~ui.loading /\ ~ui.error
    BY DEF Orderly, InOrder, Ready
  <2>2. \A j \in Acts : ~acts[j].here
    BY NoActFacts DEF Submitting, Awaited, Matched
  <2>3. \A l \in Loads : ~loads[l].here
    BY <2>1, <2>2, Quiet
  <2>4. OneHandler(acts')
    BY <1>4, <2>2 DEF OneHandler
  <2>5. OneLoad(loads)
    BY <2>3 DEF OneLoad
  <2>6. LoadsLast(ui', loads, acts')
    BY <1>3, <1>4, <2>1, <2>2, <2>3 DEF LoadsLast
  <2>7. Informed(ui', seen, own, loads)
    BY <2>1 DEF Informed
  <2> QED
    BY <2>4, <2>5, <2>6, <2>7 DEF InOrder
<1>11. SelectionIsOffered'
  BY <1>1 DEF SelectionIsOffered
<1> QED
  BY <1>5, <1>6, <1>7, <1>8, <1>9, <1>10, <1>11

LEMMA SubmitKeeps ==
    ASSUME IInv, Purchase \/ HandlePaymentAction
                 \/ (\E result \in Results : HandleSimulation(result)), UNCHANGED tour
    PROVE  IInv'
<1>1. ui \in Flags /\ selected \in SUBSET Seats
  BY TypeParts DEF IInv
<1>2. page # "session" => order # "none"
  BY DEF IInv, OrderFirst, Unordered
<1>3. CASE Purchase
  <2>1. /\ Begin("purchase", selected, None) /\ ui' = ui /\ order = "none" /\ page = "session"
        /\ \A i \in Acts : acts[i] = NoAct
    BY <1>3 DEF Purchase, CanPurchase, BeginAlone
  <2>2. "purchase" \in Kinds /\ None \in Results \cup {None}
    BY DEF Kinds
  <2> QED
    BY <1>1, <2>1, <2>2, BeginKeeps
<1>4. CASE HandlePaymentAction
  <2>1. PICK kind \in {CheckoutOffers, ReturnOffers} \ {None} : BeginAlone(kind, {}, None)
    BY <1>4 DEF HandlePaymentAction
  <2>2. kind \in {"initiate", "retry"} /\ page \in {"checkout", "return"}
    BY <2>1 DEF CheckoutOffers, ReturnOffers, PrimaryAction
  <2>3. Begin(kind, {}, None) /\ ui' = ui
    BY <2>1 DEF BeginAlone
  <2>4. kind \in Kinds /\ {} \in SUBSET Seats /\ None \in Results \cup {None}
    BY <2>2 DEF Kinds
  <2> QED
    BY <1>1, <1>2, <2>2, <2>3, <2>4, BeginKeeps
<1>5. ASSUME NEW result \in Results, HandleSimulation(result) PROVE IInv'
  <2>1. Begin("simulate", {}, result) /\ ui' = ui /\ page = "fake"
    BY <1>5 DEF HandleSimulation, CanSimulate, BeginAlone
  <2>2. "simulate" \in Kinds /\ {} \in SUBSET Seats /\ result \in Results \cup {None}
    BY DEF Kinds
  <2> QED
    BY <1>1, <1>2, <2>1, <2>2, BeginKeeps
<1> QED
  BY <1>3, <1>4, <1>5

LEMMA MutationsKeep ==
    ASSUME IInv, (\E s \in Seats : CancelTicket(s) \/ TicketRefund(s)) \/ FullRefund, UNCHANGED tour
    PROVE  IInv'
<1>1. ui \in Flags
  BY TypeParts DEF IInv
<1>2. page # "session" => order # "none"
  BY DEF IInv, OrderFirst, Unordered
<1>3. ASSUME NEW s \in Seats, CancelTicket(s) PROVE IInv'
  <2>1. /\ Begin("cancel", {s}, None) /\ page \in {"order", "profile"} /\ Ready
        /\ ui' = [ui EXCEPT !.cancel = {s}]
    BY <1>3 DEF CancelTicket, CanCancel
  <2>2. ui' \in Flags /\ ui'.loading = ui.loading /\ ui'.error = ui.error
    BY <1>1, <2>1 DEF Flags
  <2>3. /\ "cancel" \in Kinds /\ "cancel" \in Mutations /\ {s} \in SUBSET Seats
        /\ None \in Results \cup {None}
    BY DEF Kinds, Mutations
  <2> QED
    BY <1>2, <2>1, <2>2, <2>3, BeginKeeps
<1>4. ASSUME NEW s \in Seats, TicketRefund(s) PROVE IInv'
  <2>1. /\ Begin("refund", {s}, None) /\ page = "order" /\ Ready
        /\ seen.ticket[s] = "cancelled" /\ ui' = [ui EXCEPT !.refund = {s}]
    BY <1>4 DEF TicketRefund, CanRefund
  <2>2. ui' \in Flags /\ ui'.loading = ui.loading /\ ui'.error = ui.error
    BY <1>1, <2>1 DEF Flags
  <2>3. /\ "refund" \in Kinds /\ "refund" \in Mutations /\ {s} \in SUBSET Seats
        /\ None \in Results \cup {None} /\ \A t \in {s} : seen.ticket[t] = "cancelled"
    BY <2>1 DEF Kinds, Mutations
  <2> QED
    BY <1>2, <2>1, <2>2, <2>3, BeginKeeps
<1>5. CASE FullRefund
  <2>1. /\ Begin("refundAll", Refundable, None) /\ page = "order" /\ Ready
        /\ ui' = [ui EXCEPT !.refund = {"order"}]
    BY <1>5 DEF FullRefund, CanRefundAll
  <2>2. ui' \in Flags /\ ui'.loading = ui.loading /\ ui'.error = ui.error
    BY <1>1, <2>1 DEF Flags
  <2>3. /\ "refundAll" \in Kinds /\ "refundAll" \in Mutations /\ Refundable \in SUBSET Seats
        /\ None \in Results \cup {None} /\ \A t \in Refundable : seen.ticket[t] = "cancelled"
    BY DEF Kinds, Mutations, Refundable
  <2> QED
    BY <1>2, <2>1, <2>2, <2>3, BeginKeeps
<1> QED
  BY <1>3, <1>4, <1>5

LEMMA ReportKeeps ==
    ASSUME IInv, NEW i \in Acts, Report(i), UNCHANGED tour PROVE IInv'
<1> USE DEF IInv
<1>1. /\ tour' = tour /\ order' = order /\ payment' = payment /\ ticket' = ticket
      /\ taken' = taken /\ due' = due /\ page' = page /\ seen' = seen
      /\ selected' = selected /\ polls' = polls /\ loads' = loads /\ own' = own
      /\ overlap' = overlap /\ acts[i].pc = "refused"
      /\ acts' = [acts EXCEPT ![i] = NoAct] /\ ui' = Unmarked(ui, acts[i].kind)
  BY DEF Report, backend
<1>2. /\ acts' \in [Acts -> ActRec]
      /\ \A j \in Acts : IF j = i THEN acts'[j] = NoAct ELSE acts'[j] = acts[j]
  BY <1>1, TypeParts, NoActFacts
<1>3. ui' \in Flags /\ ui'.loading = ui.loading /\ ui'.error = ui.error
  BY <1>1, TypeParts, UnmarkedFacts
<1>4. TypeOK'
  BY <1>1, <1>2, <1>3, TypeParts, TypeFrom
<1>5. OrderFirst'
  <2>1. ASSUME order = "none", NEW j \in Acts
        PROVE  acts'[j].kind = "none" \/ (acts'[j].kind = "purchase"
                                          /\ acts'[j].pc \in {"sent", "refused", "else"})
    BY <1>2, <2>1, NoActFacts DEF OrderFirst, Unordered
  <2> QED
    BY <1>1, <2>1 DEF OrderFirst, Unordered
<1>6. PurchaseFirst'
  <2>1. ASSUME NEW j \in Acts, acts'[j].kind = "purchase", acts'[j].pc = "sent"
        PROVE  order = "none" /\ \A k \in Acts \ {j} : acts'[k].kind = "none"
    BY <1>2, <2>1, NoActFacts DEF PurchaseFirst, OnePurchase
  <2> QED
    BY <1>1, <2>1 DEF PurchaseFirst, OnePurchase
<1>7. Awaited'
  <2>1. \A j \in Acts : acts'[j].kind = "none" => acts'[j] = NoAct
    BY <1>2 DEF Awaited, Matched
  <2>2. ASSUME NEW l \in Loads, loads[l].for # None
        PROVE  acts'[loads[l].for] = acts[loads[l].for]
    BY <1>1, <1>2, <2>2, TypeParts DEF LoadRec, Awaited, Matched
  <2> QED
    BY <1>1, <2>1, <2>2 DEF Awaited, Matched
<1>8. Lagging'
  <2>1. Knows(ticket, NoAct)
    BY NoActFacts DEF Knows
  <2> QED
    BY <1>1, <1>2, <2>1 DEF Lagging
<1>9. Orderly'
  <2> SUFFICES ASSUME page \in {"order", "profile"}, ~overlap
               PROVE  InOrder(ui', seen, own, loads, acts')
    BY <1>1 DEF Orderly
  <2>1. OneHandler(acts) /\ OneLoad(loads) /\ LoadsLast(ui, loads, acts)
        /\ Informed(ui, seen, own, loads)
    BY DEF Orderly, InOrder
  <2>2. \A j \in Acts : acts'[j].here => acts'[j] = acts[j]
    BY <1>2, NoActFacts
  <2>3. OneHandler(acts')
    BY <2>1, <2>2 DEF OneHandler
  <2>4. LoadsLast(ui', loads, acts')
    BY <1>3, <2>1, <2>2 DEF LoadsLast
  <2>5. Informed(ui', seen, own, loads)
    BY <1>3, <2>1 DEF Informed
  <2> QED
    BY <2>1, <2>3, <2>4, <2>5 DEF InOrder
<1>10. SelectionIsOffered'
  BY <1>1 DEF SelectionIsOffered
<1> QED
  BY <1>4, <1>5, <1>6, <1>7, <1>8, <1>9, <1>10

\* What the page is told its mutation made of the tickets, it made of them.
LEMMA ToldFacts ==
    ASSUME IInv, NEW i \in Acts, ReloadAfter(i)
    PROVE  /\ own' \in [Seats -> {"none", "cancelled", "refunded"}]
           /\ Behind(ticket, own') /\ (~acts[i].here => own' = own)
<1> DEFINE a == acts[i]
           told == a.here /\ a.pc = "ok" /\ a.kind \in Mutations
           new == [s \in Seats |-> IF s \notin a.on THEN own[s]
                                   ELSE IF a.kind = "cancel" THEN "cancelled" ELSE "refunded"]
<1>1. own' = IF told THEN new ELSE own
  BY DEF ReloadAfter
<1>2. own \in [Seats -> {"none", "cancelled", "refunded"}] /\ Behind(ticket, own)
      /\ Knows(ticket, a) /\ ticket \in [Seats -> TicketValues]
  BY TypeParts DEF IInv, Lagging
<1>3. CASE told
  <2>1. new \in [Seats -> {"none", "cancelled", "refunded"}]
    BY <1>2
  <2>2. ASSUME NEW s \in Seats PROVE ticket[s] \in AtLeast(new[s])
    <3>1. CASE s \notin a.on
      BY <1>2, <3>1 DEF Behind
    <3>2. CASE s \in a.on /\ a.kind = "cancel"
      <4>1. ticket[s] \in {"cancelled", "refunded"} /\ new[s] = "cancelled"
        BY <1>2, <1>3, <3>2 DEF Knows
      <4> QED
        BY <4>1 DEF AtLeast
    <3>3. CASE s \in a.on /\ a.kind \in {"refund", "refundAll"}
      <4>1. ticket[s] = "refunded" /\ new[s] = "refunded"
        BY <1>2, <1>3, <3>3 DEF Knows
      <4> QED
        BY <4>1 DEF AtLeast
    <3> QED
      BY <1>3, <3>1, <3>2, <3>3 DEF Mutations
  <2> QED
    BY <1>1, <1>3, <2>1, <2>2 DEF Behind
<1>4. CASE ~told
  BY <1>1, <1>2, <1>4
<1> QED
  BY <1>1, <1>3, <1>4

LEMMA ReloadAfterKeeps ==
    ASSUME IInv, NEW i \in Acts, ReloadAfter(i), UNCHANGED tour PROVE IInv'
<1> USE DEF IInv
<1> DEFINE n == NextSlot(loads)
           background == acts[i].kind # "simulate"
           q == Query(background, acts[i].here, i)
           a == [acts[i] EXCEPT !.pc = IF @ = "ok" THEN "then" ELSE "else"]
<1>1. /\ tour' = tour /\ order' = order /\ payment' = payment /\ ticket' = ticket
      /\ taken' = taken /\ due' = due /\ page' = page /\ seen' = seen
      /\ selected' = selected /\ polls' = polls /\ overlap' = overlap
      /\ acts[i].pc \in {"ok", "refused"} /\ Reloads(acts[i]) /\ HasSlot(loads)
      /\ ui' = IF acts[i].here THEN Started(background) ELSE ui
  BY DEF ReloadAfter, backend
<1>2. loads' = [loads EXCEPT ![n] = q]
  BY DEF ReloadAfter
<1>3. acts' = [acts EXCEPT ![i] = a]
  BY DEF ReloadAfter
<1>4. n \in Loads /\ loads[n] = NoLoad
  BY <1>1, Slot
<1>5. /\ q \in LoadRec /\ q.here = acts[i].here /\ q.for = i /\ q.pc = "first" /\ q.ticket = Blank
  <2>1. background \in BOOLEAN /\ acts[i].here \in BOOLEAN /\ i \in Acts \cup {None}
    BY TypeParts DEF ActRec
  <2> HIDE DEF background
  <2> QED
    BY <2>1, QueryFacts
<1>6. /\ a \in ActRec /\ a.here = acts[i].here /\ a.kind = acts[i].kind
      /\ a.pc = IF acts[i].pc = "ok" THEN "then" ELSE "else"
  BY TypeParts DEF ActRec
<1>7. background \in BOOLEAN /\ (acts[i].kind \in Mutations => background)
  BY DEF Mutations
<1> HIDE DEF n, q, a, background
<1>8. /\ loads' \in [Loads -> LoadRec] /\ loads'[n] = q
      /\ \A l \in Loads : l = n \/ loads'[l] = loads[l]
  BY <1>2, <1>4, <1>5, TypeParts
<1>9. /\ acts' \in [Acts -> ActRec] /\ acts'[i] = a
      /\ \A j \in Acts : j = i \/ acts'[j] = acts[j]
  BY <1>3, <1>6, TypeParts
<1>10. /\ own' \in [Seats -> {"none", "cancelled", "refunded"}]
       /\ Behind(ticket, own') /\ (~acts[i].here => own' = own)
  BY ToldFacts
<1>11. TypeOK'
  <2>1. ui' \in Flags
    BY <1>1, <1>7, TypeParts, StartedFacts
  <2> QED
    BY <1>1, <1>8, <1>9, <1>10, <2>1, TypeParts, TypeFrom
<1>12. OrderFirst'
  <2>1. ASSUME order = "none", NEW j \in Acts
        PROVE  acts'[j].kind = "none" \/ (acts'[j].kind = "purchase"
                                          /\ acts'[j].pc \in {"sent", "refused", "else"})
    <3>1. CASE j = i
      BY <1>1, <1>6, <1>9, <2>1, <3>1, NoActFacts DEF OrderFirst, Unordered, Awaited, Matched
    <3>2. CASE j # i
      BY <1>9, <2>1, <3>2 DEF OrderFirst, Unordered
    <3> QED
      BY <3>1, <3>2
  <2> QED
    BY <1>1, <2>1 DEF OrderFirst, Unordered
<1>13. PurchaseFirst'
  <2>1. ASSUME NEW j \in Acts, acts'[j].kind = "purchase", acts'[j].pc = "sent"
        PROVE  order = "none" /\ \A k \in Acts \ {j} : acts'[k].kind = "none"
    <3>1. j # i /\ acts[j].kind = "purchase" /\ acts[j].pc = "sent"
      BY <1>6, <1>9, <2>1
    <3> QED
      BY <1>6, <1>9, <3>1 DEF PurchaseFirst, OnePurchase
  <2> QED
    BY <1>1, <2>1 DEF PurchaseFirst, OnePurchase
<1>14. Awaited'
  <2>1. \A j \in Acts : acts'[j].kind = "none" => acts'[j] = NoAct
    <3>1. acts[i].kind # "none"
      BY <1>1, NoActFacts DEF Awaited, Matched
    <3> QED
      BY <1>6, <1>9, <3>1 DEF Awaited, Matched
  <2>2. \A l \in Loads : loads'[l].for = None => loads'[l] = NoLoad \/ loads'[l].here
    BY <1>5, <1>8, SiteAssumption DEF Awaited, Matched
  <2>3. \A l \in Loads : loads[l].for # i
    BY <1>1, SiteAssumption DEF Awaited, Matched
  <2>4. ASSUME NEW l \in Loads, loads'[l].for # None
        PROVE  /\ acts'[loads'[l].for].pc \in {"then", "else"}
               /\ acts'[loads'[l].for].here = loads'[l].here
               /\ \A m \in Loads \ {l} : loads'[m].for # loads'[l].for
    <3>1. CASE l = n
      BY <1>5, <1>6, <1>8, <1>9, <2>3, <3>1
    <3>2. CASE l # n
      <4>1. loads'[l] = loads[l] /\ loads[l].for \in Acts
        BY <1>8, <2>4, <3>2, TypeParts DEF LoadRec
      <4>2. acts'[loads[l].for] = acts[loads[l].for]
        BY <1>9, <2>3, <4>1
      <4>3. \A m \in Loads \ {l} : loads'[m].for # loads[l].for
        BY <1>5, <1>8, <2>3, <2>4, <4>1 DEF Awaited, Matched
      <4> QED
        BY <2>4, <4>1, <4>2, <4>3 DEF Awaited, Matched
    <3> QED
      BY <3>1, <3>2
  <2> QED
    BY <2>1, <2>2, <2>4 DEF Awaited, Matched
<1>15. Lagging'
  <2>1. Behind(ticket, Blank)
    BY TypeParts, BehindReads
  <2>2. \A l \in Loads : Behind(ticket, loads'[l].ticket)
    BY <1>5, <1>8, <2>1 DEF Lagging
  <2>3. Knows(ticket, a)
    BY <1>6 DEF Knows
  <2> QED
    BY <1>1, <1>9, <1>10, <2>2, <2>3 DEF Lagging
<1>16. Orderly'
  <2> SUFFICES ASSUME page \in {"order", "profile"}, ~overlap
               PROVE  InOrder(ui', seen, own', loads', acts')
    BY <1>1 DEF Orderly
  <2>1. OneHandler(acts) /\ OneLoad(loads) /\ LoadsLast(ui, loads, acts)
        /\ Informed(ui, seen, own, loads)
    BY DEF Orderly, InOrder
  <2>2. \A j \in Acts : acts'[j].here = acts[j].here /\ acts'[j].kind = acts[j].kind
    BY <1>6, <1>9
  <2>3. OneHandler(acts')
    BY <2>1, <2>2 DEF OneHandler
  <2>4. CASE acts[i].here
    <3>1. /\ acts[i].kind \in Mutations /\ ~ui.loading /\ ~ui.error
          /\ \A l \in Loads : ~loads[l].here
      BY <1>1, <2>1, <2>4 DEF LoadsLast
    <3>2. ui' = Started(background) /\ background
      BY <1>1, <1>7, <2>4, <3>1
    <3>3. ~ui'.loading /\ ~ui'.error
      BY <1>7, <3>1, <3>2, StartedFacts
    <3>4. a.pc = "then"
      BY <1>1, <1>6, <3>1 DEF Reloads, Mutations
    <3>5. \A l \in Loads : loads'[l].here => l = n
      BY <1>8, <3>1
    <3>6. \A j \in Acts : acts[j].here => j = i
      BY <2>1, <2>4 DEF OneHandler
    <3>7. LoadsLast(ui', loads', acts')
      <4>1. \A j \in Acts : acts'[j].here =>
                /\ acts'[j].kind \in Mutations /\ ~ui'.loading /\ ~ui'.error
                /\ acts'[j].pc = "then"
        BY <1>9, <2>2, <3>1, <3>3, <3>4, <3>6
      <4>2. \A l \in Loads : loads'[l].here => loads'[l].for # None
        BY <1>5, <1>8, <3>5, SiteAssumption
      <4> QED
        BY <4>1, <4>2 DEF LoadsLast
    <3>8. OneLoad(loads')
      BY <3>5 DEF OneLoad
    <3>9. Informed(ui', seen, own', loads')
      BY <1>4, <1>5, <1>8, <2>4, <3>5 DEF Informed
    <3> QED
      BY <2>3, <3>7, <3>8, <3>9 DEF InOrder
  <2>5. CASE ~acts[i].here
    <3>1. ui' = ui /\ own' = own
      BY <1>1, <1>10, <2>5
    <3>2. \A l \in Loads : /\ loads'[l].here => l # n /\ loads'[l] = loads[l]
                           /\ loads[l].here => loads'[l] = loads[l]
      BY <1>4, <1>5, <1>8, <2>5, NoLoadFacts
    <3>3. \A j \in Acts : acts'[j].here => acts'[j] = acts[j] /\ acts[j].here
      BY <1>9, <2>2, <2>5
    <3>4. LoadsLast(ui', loads', acts')
      BY <2>1, <3>1, <3>2, <3>3 DEF LoadsLast
    <3>5. OneLoad(loads') /\ Informed(ui', seen, own', loads')
      BY <2>1, <3>1, <3>2 DEF OneLoad, Informed
    <3> QED
      BY <2>3, <3>4, <3>5 DEF InOrder
  <2> QED
    BY <2>4, <2>5
<1>17. SelectionIsOffered'
  BY <1>1 DEF SelectionIsOffered
<1> QED
  BY <1>11, <1>12, <1>13, <1>14, <1>15, <1>16, <1>17

-----------------------------------------------------------------------------
(* The theorems.                                                           *)

LEMMA InitInv == Init => IInv
<1> SUFFICES ASSUME Init PROVE IInv
  OBVIOUS
<1> DEFINE n == NextSlot([m \in Loads |-> NoLoad])
<1>1. /\ tour \in Tours /\ page \in tour /\ due = FALSE /\ taken \subseteq Seats
      /\ seen = Nothing /\ ui = Clear /\ selected = {} /\ polls = 0
      /\ acts = [i \in Acts |-> NoAct] /\ own = [s \in Seats |-> "none"] /\ overlap = FALSE
  BY DEF Init
<1>2. \/ page = "session" /\ order = "none" /\ payment = None /\ ticket = [s \in Seats |-> "none"]
      \/ page = "order" /\ order = "paid" /\ payment = "done" /\ ticket = [s \in Seats |-> "purchased"]
  BY DEF Init
<1>3. loads = [l \in Loads |-> IF l = n THEN Query(FALSE, TRUE, None) ELSE NoLoad]
  BY DEF Init
<1> HIDE DEF n
<1>4. /\ loads \in [Loads -> LoadRec]
      /\ \A l \in Loads : loads[l].for = None /\ loads[l].ticket = Blank
                          /\ loads[l].pc \in {"first", "idle"}
                          /\ (l # n => loads[l] = NoLoad) /\ (l = n => loads[l].here)
  <2>1. /\ Query(FALSE, TRUE, None) \in LoadRec /\ Query(FALSE, TRUE, None).pc = "first"
        /\ Query(FALSE, TRUE, None).for = None /\ Query(FALSE, TRUE, None).ticket = Blank
        /\ Query(FALSE, TRUE, None).here
    BY HereQuery
  <2> QED
    BY <1>3, <2>1, NoLoadFacts
<1>5. \A i \in Acts : acts[i] = NoAct
  BY <1>1
<1>6. ticket \in [Seats -> TicketValues] /\ own = Blank /\ seen.ticket = Blank
  BY <1>1, <1>2, NothingFacts DEF TicketValues, Blank
<1>7. TypeOK
  <2>1. page \in Pages
    BY <1>1, SiteAssumption
  <2>2. order \in OrderValues /\ payment \in PaymentValues
    BY <1>2 DEF OrderValues, PaymentValues
  <2>3. seen \in View /\ ui \in Flags /\ polls \in 0..PollLimit
    BY <1>1, NothingFacts, SiteAssumption DEF Clear, Flags
  <2>4. acts \in [Acts -> ActRec] /\ own \in [Seats -> {"none", "cancelled", "refunded"}]
    BY <1>1, NoActFacts
  <2> QED
    BY <1>1, <1>4, <1>6, <2>1, <2>2, <2>3, <2>4 DEF TypeOK, Flags, LoadRec, ActRec, Shown
<1>8. OrderFirst
  BY <1>2, <1>5, NoActFacts DEF OrderFirst, Unordered
<1>9. PurchaseFirst
  BY <1>5, NoActFacts DEF PurchaseFirst, OnePurchase
<1>10. Awaited
  BY <1>4, <1>5 DEF Awaited, Matched
<1>11. Lagging
  <2>1. Behind(ticket, Blank)
    BY <1>6, BehindReads
  <2> QED
    BY <1>4, <1>5, <1>6, <2>1, NoActFacts DEF Lagging, Knows
<1>12. Orderly
  <2>1. OneHandler(acts) /\ OneLoad(loads)
    BY <1>4, <1>5, NoActFacts, NoLoadFacts DEF OneHandler, OneLoad
  <2>2. LoadsLast(ui, loads, acts)
    BY <1>1, <1>5, NoActFacts DEF LoadsLast, Clear
  <2>3. Informed(ui, seen, own, loads)
    BY <1>1, <1>4 DEF Informed, Tells
  <2> QED
    BY <2>1, <2>2, <2>3 DEF Orderly, InOrder
<1>13. SelectionIsOffered
  BY <1>1 DEF SelectionIsOffered
<1> QED
  BY <1>7, <1>8, <1>9, <1>10, <1>11, <1>12, <1>13 DEF IInv

LEMMA StutterKeeps == ASSUME IInv, UNCHANGED vars PROVE IInv'
<1>1. Backend /\ Early /\ UNCHANGED <<tour, page, shown, loads, acts, own, overlap>>
  BY TypeParts DEF IInv, vars, backend, shown, Backend, Early, Onward
<1> QED
  BY <1>1, BackendKeeps

LEMMA NextInv == IInv /\ [Next]_vars => IInv'
<1> SUFFICES ASSUME IInv, [Next]_vars PROVE IInv'
  OBVIOUS
<1>1. CASE UNCHANGED vars
  BY <1>1, StutterKeeps
<1>2. CASE Next
  <2>0. UNCHANGED tour
    BY <1>2 DEF Next
  <2>1. CASE World
    BY <2>0, <2>1, WorldKeeps
  <2>2. CASE Customer
    <3>1. ASSUME NEW p \in Pages, Go(p) PROVE IInv'
      BY <2>0, <3>1, GoKeeps
    <3>2. CASE Reload
      BY <2>0, <3>2, ReloadKeeps
    <3>3. ASSUME NEW s \in Seats, Toggle(s) PROVE IInv'
      BY <2>0, <3>3, ToggleKeeps
    <3>4. CASE Purchase \/ HandlePaymentAction
               \/ (\E result \in Results : HandleSimulation(result))
      BY <2>0, <3>4, SubmitKeeps
    <3>5. CASE (\E s \in Seats : CancelTicket(s) \/ TicketRefund(s)) \/ FullRefund
      BY <2>0, <3>5, MutationsKeep
    <3> QED
      BY <2>2, <3>1, <3>2, <3>3, <3>4, <3>5 DEF Customer
  <2>3. CASE Poll
    BY <2>0, <2>3, PollKeeps
  <2>4. ASSUME NEW l \in Loads, Loading(l) PROVE IInv'
    <3>1. CASE AnswerLoad(l)
      BY <2>0, <3>1, AnswerLoadKeeps
    <3>2. CASE FirstOfTwo(l)
      BY <2>0, <3>2, FirstOfTwoKeeps
    <3>3. CASE FinishLoad(l)
      BY <2>0, <3>3, FinishLoadKeeps
    <3>4. CASE Resume(l)
      BY <2>0, <3>4, ResumeKeeps
    <3> QED
      BY <2>4, <3>1, <3>2, <3>3, <3>4 DEF Loading
  <2>5. ASSUME NEW i \in Acts, Handling(i) PROVE IInv'
    <3>1. CASE Serve(i)
      BY <2>0, <3>1, ServeKeeps
    <3>2. CASE ConnectionLost(i)
      BY <2>0, <3>2, LostKeeps
    <3>3. CASE Report(i)
      BY <2>0, <3>3, ReportKeeps
    <3>4. CASE Redirect(i)
      BY <2>0, <3>4, RedirectKeeps
    <3>5. CASE Return(i)
      BY <2>0, <3>5, ReturnKeeps
    <3>6. CASE ReloadAfter(i)
      BY <2>0, <3>6, ReloadAfterKeeps
    <3> QED
      BY <2>5, <3>1, <3>2, <3>3, <3>4, <3>5, <3>6 DEF Handling
  <2> QED
    BY <1>2, <2>1, <2>2, <2>3, <2>4, <2>5 DEF Next
<1> QED
  BY <1>1, <1>2

\* The invariant holds in every state.
THEOREM Invariance == Spec => []IInv
<1> QED
  BY InitInv, NextInv, PTL DEF Spec

\* Every variable has its type.
THEOREM TypeCorrect == Spec => []TypeOK
<1>1. IInv => TypeOK
  BY DEF IInv
<1> QED
  BY <1>1, Invariance, PTL

\* The order button never submits a seat that the map displays as taken.
THEOREM SelectionsAreOffered == Spec => []SelectionIsOffered
<1>1. IInv => SelectionIsOffered
  BY DEF IInv
<1> QED
  BY <1>1, Invariance, PTL

\* A checkout that shows the present state offers what the backend accepts.
THEOREM OffersMatch == Spec => []OfferMatchesServer
<1>1. IInv => OfferMatchesServer
  <2> SUFFICES ASSUME IInv, page = "checkout", seen.order = order, seen.payment = payment,
                      Ready, ~ui.refreshing, ~Submitting
               PROVE  /\ CheckoutOffers = "retry" <=> AcceptsRetry
                      /\ CheckoutStatus(seen) = "retryable" <=> AcceptsRetry
                      /\ CheckoutOffers = None <=> ~AcceptsInitiate
    BY DEF OfferMatchesServer
  <2>1. order \in OrderValues \ {"none"} /\ payment \in PaymentValues /\ due \in BOOLEAN
    BY TypeParts DEF IInv, OrderFirst, Unordered
  <2>2. CheckoutOffers = PrimaryAction(seen)
    BY DEF CheckoutOffers
  <2>3. CanRetry(seen) <=> AcceptsRetry
    BY <2>1, SiteAssumption DEF CanRetry, AcceptsRetry, AcceptsInitiate
  <2>4. CanRetry(seen) \/ CanInitiate(seen) <=> AcceptsInitiate
    BY <2>1, SiteAssumption DEF CanRetry, CanInitiate, AcceptsInitiate, PaymentValues
  <2>5. CheckoutStatus(seen) = "retryable" <=> AcceptsRetry
    <3>1. CASE IsPaid(order) \/ IsReleased(order)
      BY <3>1 DEF CheckoutStatus, IsPaid, IsReleased, AcceptsRetry, AcceptsInitiate
    <3>2. CASE order = "pending"
      BY <2>1, <3>2, SiteAssumption DEF CheckoutStatus, IsPaid, IsReleased, AcceptsRetry,
            AcceptsInitiate, PaymentValues
    <3> QED
      BY <2>1, <3>1, <3>2 DEF OrderValues, IsPaid, IsReleased
  <2> QED
    BY <2>2, <2>3, <2>4, <2>5, SiteAssumption DEF PrimaryAction
<1> QED
  BY <1>1, Invariance, PTL

\* The order page and the profile show what they made of the tickets, once
\* nothing is under way, if their own mutations did not overlap.
THEOREM OwnChangesAreShown == Spec => []OwnChangesShown
<1>1. IInv => OwnChangesShown
  BY DEF IInv, OwnChangesShown, Orderly, InOrder, Informed, Tells, Ready
<1> QED
  BY <1>1, Invariance, PTL

=============================================================================
