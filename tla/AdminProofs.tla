---------------------------- MODULE AdminProofs ----------------------------
(***************************************************************************)
(* Proofs about AdminDashboard, for any movies, sessions, days and number  *)
(* of changes.  The invariant says of each part of the page what the other *)
(* parts rely on, also before the effects of a render have run: a board    *)
(* that shows the edit form has a session selected, and it is the one that *)
(* is edited; what an answer carries fits the change it answers; and a     *)
(* movie that the form has created is in the form, or in the request that  *)
(* will put it there.                                                      *)
(***************************************************************************)
EXTENDS AdminDashboard, FunctionTheorems, FiniteSetTheorems, WellFoundedInduction, TLAPS

\* A copy of the data: the sessions that are listed have a movie and a day.
Sound(s) ==
    /\ s \in Servers
    /\ \A i \in Ids : s.hall[i].status \in {"scheduled", "cancelled"} =>
           s.hall[i].movie \in Movies /\ s.hall[i].day \in Days

DataSound ==
    /\ Sound(server) /\ Sound(lists)
    /\ act.pc = "read" => Sound(act.snap)
    /\ manual.pc = "read" => Sound(manual.snap)

Boards == [draft : Drafts \cup {None}, editing : Edits \cup {None}, selected : Ids \cup {None},
           view : {"none", "draft", "session", "edit"}, pinned : Movies \cup {None}]

\* A state of the Chronoboard.
BoardOK(b) ==
    /\ b \in Boards
    /\ b.draft # None /\ b.draft.mode = "timeline" => b.draft.day \notin b.draft.extras
    /\ b.view = "edit" => /\ b.editing # None /\ b.selected # None
                          /\ b.editing.session = b.selected

SessionKinds == {"update", "cancel", "delete"}
MovieKinds   == {"firstUpload", "save", "upload", "unposter", "deactivate", "replan", "remove"}
ActFields    == {"kind", "pc", "about", "got", "rejected", "snap", "seen"}

\* A change, by what it is: what it is about and what its answer carries.
AboutOK(kind, x) ==
    /\ kind \in {"create", "batch"} => x \in Drafts
    /\ kind = "update" => x \in Edits
    /\ kind \in {"cancel", "delete"} => x \in Ids
    /\ kind \in MovieKinds => x \in Movies
    /\ kind \in {"none", "booking", "add"} => x = None
GotOK(kind, x) ==
    /\ kind \in {"create"} \cup SessionKinds => x \in Ids
    /\ kind = "batch" => x \in Ids \cup {None}
    /\ kind \in MovieKinds \cup {"add"} => x \in Movies
    /\ kind \in {"none", "booking"} => x = None
ActOK(a) ==
    /\ a = [f \in ActFields |-> a[f]]
    /\ a.kind \in Kinds \cup {"none"}
    /\ a.pc \in {"idle", "sent", "refresh", "read", "done"}
    /\ a.pc = "idle" <=> a.kind = "none"
    /\ a.rejected \subseteq Days
    /\ AboutOK(a.kind, a.about)
    /\ IF a.pc \in {"idle", "sent"} THEN a.got = None ELSE GotOK(a.kind, a.got)

Forms == [editing : Movies \cup {None}, poster : {"none", "file", "remove"}]

\* Where the movie that the form has created is.
Made(f, a, m) ==
    m # None =>
        CASE a.kind = "firstUpload" -> a.about = m
          [] a.kind = "add" /\ a.pc \in {"refresh", "read", "done"} -> a.got = m
          [] OTHER -> f.editing = m

RestOK ==
    /\ manual.pc \in {"idle", "refresh", "read"} /\ refreshing \in BOOLEAN
    /\ form \in Forms /\ madeBy \in Movies \cup {None} /\ tour \in Tours

IInv == DataSound /\ BoardOK(board) /\ ActOK(act) /\ Made(form, act, madeBy) /\ RestOK

-----------------------------------------------------------------------------
(* What the helpers return.                                                *)

\* A nonempty set of days has a first one.
LEMMA FirstDay == ASSUME NEW D, D \subseteq Days, D # {} PROVE Min(D) \in D
<1>1. PICK x \in D : \A y \in D : ~ (<<y, x>> \in OpToRel(<, Nat))
  BY DashboardAssumption, NatLessThanWellFounded, WFMin
<1>2. D \subseteq Nat
  BY DashboardAssumption
<1>3. ASSUME NEW y \in D PROVE x <= y
  <2>1. x \in Nat /\ y \in Nat
    BY <1>2
  <2>2. ~(y < x)
    BY <1>1, <2>1 DEF OpToRel
  <2> QED
    BY <2>1, <2>2
<1> QED
  BY <1>3 DEF Min

\* As many spare sessions as days can be placed one on each day.
LEMMA Placeable ==
    ASSUME NEW D, D \subseteq Days, NEW S, S \subseteq Ids, Cardinality(D) <= Cardinality(S)
    PROVE  \E f \in [D -> S] : \A d, e \in D : f[d] = f[e] => d = e
<1>1. IsFiniteSet(D) /\ IsFiniteSet(S)
  BY FiniteAssumption, FS_Subset
<1>2. /\ Cardinality(D) \in Nat /\ Cardinality(S) \in Nat
      /\ ExistsBijection(1 .. Cardinality(D), D) /\ ExistsBijection(1 .. Cardinality(S), S)
  BY <1>1, FS_CardinalityType
<1>3. ExistsBijection(D, 1 .. Cardinality(D))
  BY <1>2, Fun_ExistsBijSymmetric
<1>4. PICK a \in Bijection(D, 1 .. Cardinality(D)) : TRUE
  BY <1>3 DEF ExistsBijection
<1>5. PICK b \in Bijection(1 .. Cardinality(S), S) : TRUE
  BY <1>2 DEF ExistsBijection
<1>6. a \in [D -> 1 .. Cardinality(D)] /\ \A d, e \in D : a[d] = a[e] => d = e
  BY <1>4 DEF Bijection, Injection, IsInjective
<1>7. /\ b \in [1 .. Cardinality(S) -> S]
      /\ \A m, n \in 1 .. Cardinality(S) : b[m] = b[n] => m = n
  BY <1>5 DEF Bijection, Injection, IsInjective
<1>8. \A d \in D : a[d] \in 1 .. Cardinality(S)
  BY <1>2, <1>6
<1> DEFINE f == [d \in D |-> b[a[d]]]
<1>9. f \in [D -> S]
  BY <1>7, <1>8
<1>10. \A d, e \in D : f[d] = f[e] => d = e
  BY <1>6, <1>7, <1>8
<1> QED
  BY <1>9, <1>10

LEMMA HallSound ==
    ASSUME Sound(server), NEW i \in Ids, NEW k,
           k \in [movie : Movies \cup {None}, day : Days \cup {None},
                  status : {"unused", "scheduled", "cancelled", "gone"}],
           k.status \in {"scheduled", "cancelled"} => k.movie \in Movies /\ k.day \in Days
    PROVE  Sound([server EXCEPT !.hall[i] = k])
BY DEF Sound, Servers

LEMMA CatalogSound ==
    ASSUME Sound(server), NEW m \in Movies, NEW k,
           k \in [status : {"unused", "planned", "deactivated", "gone"}, poster : BOOLEAN]
    PROVE  Sound([server EXCEPT !.catalog[m] = k])
<1> DEFINE cat == [server.catalog EXCEPT ![m] = k]
           s == [server EXCEPT !.catalog = cat]
<1>1. cat \in [Movies -> [status : {"unused", "planned", "deactivated", "gone"},
                          poster : BOOLEAN]]
  BY DEF Sound, Servers
<1>2. [server EXCEPT !.catalog[m] = k] = s
  OBVIOUS
<1> HIDE DEF cat
<1>3. s.hall = server.hall /\ s \in Servers
  BY <1>1 DEF Sound, Servers
<1> QED
  BY <1>2, <1>3 DEF Sound

LEMMA PutSound ==
    ASSUME Sound(server), NEW S, \A i \in DOMAIN S : S[i] \in Days, NEW m \in Movies
    PROVE  Sound(Put(S, m))
<1> DEFINE hall == [i \in Ids |-> IF i \in DOMAIN S THEN Session(m, S[i], "scheduled")
                                  ELSE server.hall[i]]
           s == [server EXCEPT !.hall = hall]
<1>1. Put(S, m) = s
  BY DEF Put
<1>2. hall \in [Ids -> [movie : Movies \cup {None}, day : Days \cup {None},
                       status : {"unused", "scheduled", "cancelled", "gone"}]]
  BY DEF Sound, Servers, Session
<1>3. \A i \in Ids : hall[i].status \in {"scheduled", "cancelled"} =>
          hall[i].movie \in Movies /\ hall[i].day \in Days
  BY DEF Sound, Servers, Session
<1> HIDE DEF hall
<1>4. s \in Servers /\ s.hall = hall
  BY <1>2 DEF Sound, Servers
<1> QED
  BY <1>1, <1>3, <1>4 DEF Sound

\* What is shown, and what is ready, exists.
LEMMA ListedSessions ==
    ASSUME NEW s, Sound(s), NEW i \in Ids \cup {None}, Listed(s, i)
    PROVE  i \in Ids /\ s.hall[i].movie \in Movies /\ s.hall[i].day \in Days
BY DEF Listed, Sound

LEMMA IdleOK == ActOK(Idle) /\ Idle.kind = "none" /\ Idle.pc = "idle"
<1>1. Idle = [f \in ActFields |-> Idle[f]]
  BY DEF Idle, ActFields
<1> QED
  BY <1>1 DEF ActOK, Idle, Kinds, AboutOK, GotOK, MovieKinds, SessionKinds

LEMMA RequestOK ==
    ASSUME NEW kind \in Kinds, NEW x, AboutOK(kind, x)
    PROVE  /\ ActOK(Request(kind, x))
           /\ Request(kind, x).kind = kind /\ Request(kind, x).about = x
           /\ Request(kind, x).pc = "sent"
<1> DEFINE seen == Seen(kind, x)
           a == [Idle EXCEPT !.kind = kind, !.pc = "sent", !.about = x, !.seen = seen]
<1>1. Request(kind, x) = a
  BY DEF Request
<1> HIDE DEF seen
<1>2. a = [f \in ActFields |-> a[f]]
  BY DEF Idle, ActFields
<1>3. a.kind = kind /\ a.pc = "sent" /\ a.about = x /\ a.got = None /\ a.rejected = {}
  BY DEF Idle
<1> HIDE DEF a
<1>4. ActOK(a)
  BY <1>2, <1>3 DEF ActOK, Kinds
<1> QED
  BY <1>1, <1>3, <1>4

LEMMA AcceptedOK ==
    ASSUME ActOK(act), act.pc = "sent", NEW x, GotOK(act.kind, x), NEW r, r \subseteq Days
    PROVE  /\ ActOK(Accepted(x, r))
           /\ Accepted(x, r).kind = act.kind /\ Accepted(x, r).about = act.about
           /\ Accepted(x, r).pc = "refresh" /\ Accepted(x, r).got = x
<1> DEFINE a == [act EXCEPT !.pc = "refresh", !.got = x, !.rejected = r]
<1>1. Accepted(x, r) = a
  BY DEF Accepted
<1>2. act = [f \in ActFields |-> act[f]]
  BY DEF ActOK
<1>3. a = [f \in ActFields |-> a[f]]
  BY <1>2 DEF ActFields
<1>4. /\ a.kind = act.kind /\ a.pc = "refresh" /\ a.about = act.about /\ a.got = x
      /\ a.rejected = r
  BY <1>2 DEF ActFields
<1> HIDE DEF a
<1>5. ActOK(a)
  BY <1>3, <1>4 DEF ActOK
<1> QED
  BY <1>1, <1>4, <1>5

\* The effects of a render leave a board in order.
LEMMA CleanedOK == ASSUME NEW b, BoardOK(b) PROVE BoardOK(Cleaned(b))
<1> DEFINE lost  == b.selected # None /\ ~Shown(b)
           gone  == b.draft # None /\ ~MovieListed(lists, b.draft.movie)
           stray == b.editing # None /\ ~MovieListed(lists, b.editing.movie)
           draft == IF gone THEN None ELSE b.draft
           editing == IF lost \/ stray THEN None ELSE b.editing
           selected == IF lost THEN None ELSE b.selected
           view == CASE stray -> IF Shown(b) THEN "session" ELSE DraftOr(b, "none")
                     [] gone /\ ~stray -> "none"
                     [] lost /\ ~gone /\ ~stray -> DraftOr(b, "none")
                     [] OTHER -> b.view
           pinned == IF MovieListed(lists, b.pinned) THEN b.pinned ELSE None
<1>1. Cleaned(b) = [draft |-> draft, editing |-> editing, selected |-> selected,
                    view |-> view, pinned |-> pinned]
  BY DEF Cleaned
<1>2. DraftOr(b, "none") \in {"draft", "none"}
  BY DEF DraftOr
<1>3. view \in {"none", "draft", "session", "edit"}
      /\ (view = "edit" => ~stray /\ ~gone /\ ~lost /\ b.view = "edit")
  <2> HIDE DEF lost, gone, stray
  <2>1. b.view \in {"none", "draft", "session", "edit"}
    BY DEF BoardOK, Boards
  <2> QED
    BY <1>2, <2>1
<1> HIDE DEF lost, gone, view
<1>4. Cleaned(b) \in Boards
  BY <1>1, <1>3 DEF BoardOK, Boards
<1> QED
  BY <1>1, <1>3, <1>4 DEF BoardOK

-----------------------------------------------------------------------------
(* The steps.                                                              *)

LEMMA InvariantFromParts ==
    ASSUME Sound(server'), Sound(lists'), act'.pc = "read" => Sound(act'.snap),
           manual'.pc = "read" => Sound(manual'.snap), BoardOK(board'), ActOK(act'),
           Made(form', act', madeBy'), manual'.pc \in {"idle", "refresh", "read"},
           refreshing' \in BOOLEAN, form' \in Forms, madeBy' \in Movies \cup {None},
           tour' \in Tours
    PROVE  IInv'
BY DEF IInv, DataSound, RestOK

LEMMA InitInv == Init => IInv
<1> SUFFICES ASSUME Init PROVE IInv
  OBVIOUS
<1>1. PICK m \in Movies, d \in Days, i \in Ids, poster \in BOOLEAN :
          /\ server = [hall |-> [j \in Ids |-> IF j = i THEN Session(m, d, "scheduled") ELSE Unused],
                       catalog |-> [n \in Movies |->
                           IF n = m THEN [status |-> "planned", poster |-> poster] ELSE NoFilm]]
          /\ lists = server /\ act = Idle /\ manual = NoRefresh /\ refreshing = FALSE
          /\ board = EmptyBoard /\ form = EmptyForm /\ madeBy = None
          /\ tour \in Tours
  BY DEF Init
<1> DEFINE hall == [j \in Ids |-> IF j = i THEN Session(m, d, "scheduled") ELSE Unused]
           cat == [n \in Movies |->
                       IF n = m THEN [status |-> "planned", poster |-> poster] ELSE NoFilm]
<1>2. /\ hall \in [Ids -> [movie : Movies \cup {None}, day : Days \cup {None},
                           status : {"unused", "scheduled", "cancelled", "gone"}]]
      /\ \A j \in Ids : hall[j].status \in {"scheduled", "cancelled"} =>
             hall[j].movie \in Movies /\ hall[j].day \in Days
  BY DEF Session, Unused
<1>3. cat \in [Movies -> [status : {"unused", "planned", "deactivated", "gone"},
                          poster : BOOLEAN]]
  BY DEF NoFilm
<1>4. server = [hall |-> hall, catalog |-> cat]
  BY <1>1
<1> HIDE DEF hall, cat
<1>5. Sound(server)
  BY <1>2, <1>3, <1>4 DEF Sound, Servers
<1>6. BoardOK(board)
  BY <1>1 DEF BoardOK, Boards, EmptyBoard
<1>7. form \in Forms
  BY <1>1 DEF Forms, EmptyForm
<1> QED
  BY <1>1, <1>5, <1>6, <1>7, IdleOK DEF IInv, DataSound, RestOK, Made, NoRefresh

LEMMA BoardStep == ASSUME IInv, NEW b, BoardOK(b), BoardOnly(b) PROVE IInv'
BY DEF BoardOnly, IInv, DataSound, RestOK

LEMMA RenderKeeps == ASSUME IInv, Render PROVE IInv'
<1>1. BoardOK(Cleaned(board))
  BY CleanedOK DEF IInv
<1>2. BoardOnly(Cleaned(board))
  BY DEF Render, BoardOnly
<1> QED
  BY <1>1, <1>2, BoardStep

LEMMA AskStep ==
    ASSUME IInv, ~Busy, NEW kind \in Kinds \ {"firstUpload"}, NEW x, AboutOK(kind, x),
           Ask(kind, x)
    PROVE  IInv'
<1>1. /\ ActOK(act') /\ act'.kind = kind /\ act'.pc = "sent"
      /\ UNCHANGED <<server, lists, manual, refreshing, board, form, madeBy, tour>>
  BY RequestOK DEF Ask
<1>2. madeBy # None => form.editing = madeBy
  BY DEF IInv, Made, ActOK, Busy
<1>3. Made(form', act', madeBy')
  BY <1>1, <1>2 DEF Made
<1> QED
  BY <1>1, <1>3 DEF IInv, DataSound, RestOK

LEMMA FormStep == ASSUME IInv, ~Busy, NEW f \in Forms, FormOnly(f) PROVE IInv'
<1>1. madeBy # None => form.editing = madeBy
  BY DEF IInv, Made, ActOK, Busy
<1>2. act.kind = "none"
  BY DEF IInv, ActOK, Busy
<1>3. Made(form', act', madeBy') /\ madeBy' \in Movies \cup {None}
  BY <1>1, <1>2 DEF FormOnly, Made, IInv, RestOK
<1> QED
  BY <1>3 DEF FormOnly, IInv, DataSound, RestOK

\* The moves of the draft.
LEMMA PlaceKeeps ==
    ASSUME IInv, NEW m \in Movies, NEW d \in Days, Place(m, d) PROVE IInv'
<1> DEFINE b == [draft |-> [movie |-> m, day |-> d, mode |-> "timeline", extras |-> {}],
                 editing |-> None, selected |-> None, view |-> "draft", pinned |-> m]
<1>1. BoardOK(b)
  BY DEF BoardOK, Boards, Drafts
<1>2. BoardOnly(b)
  BY DEF Place
<1> QED
  BY <1>1, <1>2, BoardStep

LEMMA MoveKeeps == ASSUME IInv, OnTimeline, NEW d \in Days, Move(d) PROVE IInv'
<1> DEFINE draft == [board.draft EXCEPT !.day = d, !.extras = @ \ {d}]
           b == [draft |-> draft, editing |-> None, selected |-> None, view |-> "draft",
                 pinned |-> board.draft.movie]
<1>1. board.draft \in Drafts
  BY DEF IInv, BoardOK, Boards, OnTimeline
<1>2. draft \in Drafts /\ d \notin draft.extras /\ draft.day = d
  BY <1>1 DEF Drafts
<1>3. board.draft.movie \in Movies \cup {None}
  BY <1>1 DEF Drafts
<1>4. BoardOnly(b)
  BY DEF Move
<1> HIDE DEF draft
<1>5. BoardOK(b)
  BY <1>2, <1>3 DEF BoardOK, Boards
<1> QED
  BY <1>4, <1>5, BoardStep

LEMMA SlotClickKeeps == ASSUME IInv, NEW d \in Days, SlotClick(d) PROVE IInv'
<1>1. board.pinned \in Movies
  BY DEF SlotClick, IInv, BoardOK, Boards
<1> QED
  BY <1>1, PlaceKeeps, MoveKeeps DEF SlotClick

LEMMA DropKeeps == ASSUME IInv, NEW d \in Days, Drop(d) PROVE IInv'
BY PlaceKeeps, MoveKeeps DEF Drop

LEMMA PlanningKeeps ==
    ASSUME IInv, (\E m \in Movies : Pin(m)) \/ ClearPlanning PROVE IInv'
<1>1. PICK m \in Movies \cup {None} : BoardOnly([board EXCEPT !.pinned = m])
  BY DEF Pin, ClearPlanning
<1>2. BoardOK([board EXCEPT !.pinned = m])
  BY DEF IInv, BoardOK, Boards
<1> QED
  BY <1>1, <1>2, BoardStep

LEMMA SelectKeeps ==
    ASSUME IInv, DraftSelect \/ \E i \in Ids : SessionSelect(i) PROVE IInv'
<1>1. PICK i \in Ids \cup {None}, v \in {"draft", "session"} :
          BoardOnly([board EXCEPT !.selected = i, !.editing = None, !.view = v])
  BY DEF DraftSelect, SessionSelect
<1>2. BoardOK([board EXCEPT !.selected = i, !.editing = None, !.view = v])
  BY DEF IInv, BoardOK, Boards
<1> QED
  BY <1>1, <1>2, BoardStep

LEMMA DiscardKeeps == ASSUME IInv, Discard PROVE IInv'
<1> DEFINE v == IF board.view # "draft" THEN board.view
                ELSE IF Shown(board) THEN "session" ELSE "none"
           b == [board EXCEPT !.draft = None, !.pinned = None, !.view = v]
<1>1. BoardOnly(b)
  BY DEF Discard, IInv, BoardOK, Boards
<1>2. v \in {"none", "draft", "session", "edit"} /\ (v = "edit" => board.view = "edit")
  BY DEF IInv, BoardOK, Boards
<1> HIDE DEF v
<1>3. BoardOK(b)
  BY <1>2 DEF IInv, BoardOK, Boards
<1> QED
  BY <1>1, <1>3, BoardStep

\* The forms offer movies, or no movie.
LEMMA OptionsAreMovies == ASSUME IInv, NEW m \in Options PROVE m \in Movies \cup {None}
<1>1. board.draft # None => board.draft.movie \in Movies \cup {None}
  BY DEF IInv, BoardOK, Boards, Drafts
<1>2. board.editing # None => board.editing.movie \in Movies \cup {None}
  BY DEF IInv, BoardOK, Boards, Edits
<1>3. Shown(board) => lists.hall[board.selected].movie \in Movies \cup {None}
  BY ListedSessions DEF IInv, BoardOK, Boards, DataSound, Shown
<1> QED
  BY <1>1, <1>2, <1>3 DEF Options

\* A draft that changes stays on the board.
LEMMA DraftStep ==
    ASSUME IInv, NEW k \in Drafts, k.mode = "timeline" => k.day \notin k.extras,
           BoardOnly([board EXCEPT !.draft = k])
    PROVE  IInv'
<1>1. BoardOK([board EXCEPT !.draft = k])
  BY DEF IInv, BoardOK, Boards
<1> QED
  BY <1>1, BoardStep

LEMMA ToggleKeeps == ASSUME IInv, NEW d \in Days, ToggleDate(d) PROVE IInv'
<1> DEFINE extras == IF d \in board.draft.extras THEN board.draft.extras \ {d}
                     ELSE board.draft.extras \cup {d}
           k == [board.draft EXCEPT !.extras = extras]
<1>1. board.draft \in Drafts /\ (board.draft.mode = "timeline" =>
          d # board.draft.day /\ board.draft.day \notin board.draft.extras)
  BY DEF ToggleDate, DraftForm, Locked, OnTimeline, IInv, BoardOK, Boards
<1>2. k \in Drafts /\ (k.mode = "timeline" => k.day \notin k.extras)
  BY <1>1 DEF Drafts
<1>3. [board EXCEPT !.draft.extras = IF d \in @ THEN @ \ {d} ELSE @ \cup {d}]
      = [board EXCEPT !.draft = k]
  BY DEF IInv, BoardOK, Boards
<1>4. BoardOnly([board EXCEPT !.draft = k])
  BY <1>3 DEF ToggleDate
<1> HIDE DEF k
<1> QED
  BY <1>2, <1>4, DraftStep

LEMMA UpdateDraftKeeps ==
    ASSUME IInv, NEW m \in Movies \cup {None}, NEW d \in Days, UpdateDraft(m, d) PROVE IInv'
<1>1. board.draft \in Drafts /\ (board.draft.mode = "timeline" =>
          board.draft.day \notin board.draft.extras)
  BY DEF UpdateDraft, DraftForm, IInv, BoardOK, Boards
<1>2. CASE BoardOnly([board EXCEPT !.draft.day = d, !.draft.extras = @ \ {d}])
  <2> DEFINE k == [board.draft EXCEPT !.day = d, !.extras = @ \ {d}]
  <2>1. k \in Drafts /\ (k.mode = "timeline" => k.day \notin k.extras)
    BY <1>1 DEF Drafts
  <2>2. [board EXCEPT !.draft.day = d, !.draft.extras = @ \ {d}] = [board EXCEPT !.draft = k]
    BY DEF IInv, BoardOK, Boards
  <2>3. BoardOnly([board EXCEPT !.draft = k])
    BY <1>2, <2>2
  <2> HIDE DEF k
  <2> QED
    BY <2>1, <2>3, DraftStep
<1>3. CASE BoardOnly([board EXCEPT !.draft.movie = m])
  <2> DEFINE k == [board.draft EXCEPT !.movie = m]
  <2>1. k \in Drafts /\ (k.mode = "timeline" => k.day \notin k.extras)
    BY <1>1 DEF Drafts
  <2>2. [board EXCEPT !.draft.movie = m] = [board EXCEPT !.draft = k]
    BY DEF IInv, BoardOK, Boards
  <2>3. BoardOnly([board EXCEPT !.draft = k])
    BY <1>3, <2>2
  <2> HIDE DEF k
  <2> QED
    BY <2>1, <2>3, DraftStep
<1> QED
  BY <1>2, <1>3 DEF UpdateDraft

\* The session on the card has a movie and a day to edit and to copy.
LEMMA CardSession ==
    ASSUME IInv, SessionCard
    PROVE  /\ board.selected \in Ids
           /\ lists.hall[board.selected].movie \in Movies
           /\ lists.hall[board.selected].day \in Days
BY ListedSessions DEF SessionCard, Shown, IInv, BoardOK, Boards, DataSound

LEMMA OpenEditKeeps == ASSUME IInv, OpenEdit PROVE IInv'
<1> DEFINE k == [session |-> board.selected, movie |-> lists.hall[board.selected].movie,
                 day |-> lists.hall[board.selected].day]
           b == [board EXCEPT !.editing = k, !.view = "edit"]
<1>1. board.selected \in Ids /\ k \in Edits /\ k.session = board.selected
  BY CardSession DEF OpenEdit, Edits
<1>2. k # None /\ board.selected # None
  BY <1>1, DraftsAssumption, DashboardAssumption
<1>3. BoardOnly(b)
  BY DEF OpenEdit
<1> HIDE DEF k
<1>4. BoardOK(b)
  BY <1>1, <1>2 DEF IInv, BoardOK, Boards
<1> QED
  BY <1>3, <1>4, BoardStep

LEMMA OpenDuplicateKeeps == ASSUME IInv, OpenDuplicate PROVE IInv'
<1> DEFINE k == [movie |-> lists.hall[board.selected].movie,
                 day |-> lists.hall[board.selected].day, mode |-> "duplicate", extras |-> {}]
           b == [board EXCEPT !.draft = k, !.editing = None, !.view = "draft"]
<1>1. k \in Drafts /\ k.mode = "duplicate"
  BY CardSession DEF OpenDuplicate, Drafts
<1>2. BoardOnly(b)
  BY DEF OpenDuplicate
<1> HIDE DEF k
<1>3. BoardOK(b)
  BY <1>1 DEF IInv, BoardOK, Boards
<1> QED
  BY <1>2, <1>3, BoardStep

LEMMA UpdateEditKeeps ==
    ASSUME IInv, NEW m \in Movies \cup {None}, NEW d \in Days, UpdateEdit(m, d) PROVE IInv'
<1> DEFINE k == [board.editing EXCEPT !.movie = m, !.day = d]
           b == [board EXCEPT !.editing = k]
<1>1. board.editing \in Edits /\ board.selected # None /\ board.editing.session = board.selected
  BY DEF UpdateEdit, EditForm, IInv, BoardOK, Boards
<1>2. k \in Edits /\ k.session = board.selected
  BY <1>1 DEF Edits
<1>3. k # None
  BY <1>2, DraftsAssumption
<1>4. [board EXCEPT !.editing.movie = m, !.editing.day = d] = b
  BY DEF IInv, BoardOK, Boards
<1>5. BoardOnly(b)
  BY <1>4 DEF UpdateEdit
<1> HIDE DEF k
<1>6. BoardOK(b)
  BY <1>1, <1>2, <1>3 DEF IInv, BoardOK, Boards
<1> QED
  BY <1>5, <1>6, BoardStep

LEMMA BackKeeps == ASSUME IInv, BackToSession PROVE IInv'
<1>1. BoardOK([board EXCEPT !.view = "session"])
  BY DEF IInv, BoardOK, Boards
<1> QED
  BY <1>1, BoardStep DEF BackToSession

LEMMA SubmitsKeep ==
    ASSUME IInv, SubmitDraft \/ SubmitEdit \/ CancelSelected \/ DeleteSelected \/ CancelBooking
    PROVE  IInv'
<1> USE DEF AboutOK, Kinds, MovieKinds, Busy
<1>1. CASE SubmitDraft
  <2>1. ~Busy /\ board.draft \in Drafts
    BY <1>1 DEF SubmitDraft, DraftForm, IInv, BoardOK, Boards
  <2>2. PICK kind \in {"create", "batch"} : Ask(kind, board.draft)
    BY <1>1 DEF SubmitDraft
  <2> QED
    BY <2>1, <2>2, AskStep
<1>2. CASE SubmitEdit
  <2>1. ~Busy /\ board.editing \in Edits /\ Ask("update", board.editing)
    BY <1>2 DEF SubmitEdit, EditForm, IInv, BoardOK, Boards
  <2> QED
    BY <2>1, AskStep
<1>3. CASE CancelSelected
  <2>1. ~Busy /\ board.selected \in Ids /\ Ask("cancel", board.selected)
    BY <1>3, CardSession DEF CancelSelected, SessionCard
  <2> QED
    BY <2>1, AskStep
<1>4. CASE DeleteSelected
  <2>1. ~Busy /\ board.selected \in Ids /\ Ask("delete", board.selected)
    BY <1>4, CardSession DEF DeleteSelected, SessionCard
  <2> QED
    BY <2>1, AskStep
<1>5. CASE CancelBooking
  <2>1. ~Busy /\ Ask("booking", None)
    BY <1>5 DEF CancelBooking, CanCancelBooking
  <2> QED
    BY <2>1, AskStep
<1> QED
  BY <1>1, <1>2, <1>3, <1>4, <1>5

LEMMA FormKeeps ==
    ASSUME IInv, \/ ResetForm \/ \E m \in Movies : EditMovie(m)
                 \/ \E p \in {"none", "file", "remove"} : ChoosePoster(p)
    PROVE  IInv'
<1>1. EmptyForm \in Forms /\ form \in Forms
  BY DEF EmptyForm, Forms, IInv, RestOK
<1>2. CASE ResetForm
  BY <1>1, <1>2, FormStep DEF ResetForm, OnForm
<1>3. ASSUME NEW m \in Movies, EditMovie(m) PROVE IInv'
  <2>1. [EmptyForm EXCEPT !.editing = m] \in Forms
    BY DEF EmptyForm, Forms
  <2> QED
    BY <1>3, <2>1, FormStep DEF EditMovie, InCatalog, OnForm
<1>4. ASSUME NEW p \in {"none", "file", "remove"}, ChoosePoster(p) PROVE IInv'
  <2>1. [form EXCEPT !.poster = p] \in Forms
    BY <1>1 DEF Forms
  <2> QED
    BY <1>4, <2>1, FormStep DEF ChoosePoster, OnForm
<1> QED
  BY <1>2, <1>3, <1>4

LEMMA MovieAsksKeep ==
    ASSUME IInv, SubmitForm \/ \E m \in Movies, kind \in {"deactivate", "replan", "remove"} :
                                   ChangeMovie(m, kind)
    PROVE  IInv'
<1> USE DEF AboutOK, Kinds, MovieKinds, Busy
<1>1. CASE SubmitForm
  <2>1. ~Busy /\ form.editing \in Movies \cup {None}
    BY <1>1 DEF SubmitForm, OnForm, IInv, RestOK, Forms
  <2>2. CASE form.editing # None
    BY <1>1, <2>1, <2>2, AskStep DEF SubmitForm
  <2>3. CASE form.editing = None
    BY <1>1, <2>1, <2>3, AskStep DEF SubmitForm
  <2> QED
    BY <2>2, <2>3
<1>2. ASSUME NEW m \in Movies, NEW kind \in {"deactivate", "replan", "remove"},
             ChangeMovie(m, kind)
      PROVE  IInv'
  BY <1>2, AskStep DEF ChangeMovie, InCatalog, OnForm
<1> QED
  BY <1>1, <1>2

-----------------------------------------------------------------------------
(* The answers of the backend.                                             *)

\* A change that is granted leaves the backend's data in order, and its answer
\* names what the change was about.
Answered ==
    /\ Sound(server')
    /\ \E x, r : /\ GotOK(act.kind, x) /\ r \subseteq Days
                 /\ act' \in {Idle, Accepted(x, r)}

LEMMA CreateGranted == ASSUME IInv, act.pc = "sent", GrantCreate PROVE Answered
<1> DEFINE i == CHOOSE j \in Spare : TRUE
           S == [j \in {i} |-> act.about.day]
<1>1. act.about \in Drafts
  BY DEF GrantCreate, IInv, ActOK, AboutOK
<1>2. act.about.movie \in Movies /\ act.about.day \in Days
  BY <1>1 DEF GrantCreate, Ready, Drafts
<1>3. i \in Ids
  BY DEF GrantCreate, Spare
<1>4. server' = Put(S, act.about.movie) /\ act' \in {Idle, Accepted(i, {})}
  BY DEF GrantCreate
<1>5. \A j \in DOMAIN S : S[j] \in Days
  BY <1>2
<1> HIDE DEF i, S
<1>6. Sound(Put(S, act.about.movie))
  BY <1>2, <1>5, PutSound DEF IInv, DataSound
<1>7. GotOK(act.kind, i)
  BY <1>3 DEF GrantCreate, GotOK, MovieKinds, SessionKinds
<1> QED
  BY <1>4, <1>6, <1>7 DEF Answered

LEMMA TargetsAreDays == ASSUME NEW k \in Drafts PROVE Targets(k) \subseteq Days
BY DEF Drafts, Targets

LEMMA BatchGranted == ASSUME IInv, act.pc = "sent", GrantBatch PROVE Answered
<1>1. act.about \in Drafts /\ act.kind = "batch" /\ Ready(server, act.about.movie)
  BY DEF GrantBatch, IInv, ActOK, AboutOK
<1>2. act.about.movie \in Movies /\ Targets(act.about) \subseteq Days
  BY <1>1, TargetsAreDays DEF Ready, Drafts
<1>3. PICK days \in SUBSET {d \in Targets(act.about) : ~Taken(server, d, None)} :
          /\ Cardinality(days) <= Cardinality(Spare)
          /\ LET place == CHOOSE f \in [days -> Spare] :
                              \A d, e \in days : f[d] = f[e] => d = e
                 at    == [i \in {place[d] : d \in days} |-> CHOOSE d \in days : place[d] = i]
             IN  /\ server' = Put(at, act.about.movie)
                 /\ act' \in {Idle, Accepted(IF days = {} THEN None ELSE place[Min(days)],
                                             Targets(act.about) \ days)}
  BY DEF GrantBatch
<1> DEFINE place == CHOOSE f \in [days -> Spare] :
                        \A d, e \in days : f[d] = f[e] => d = e
           at    == [i \in {place[d] : d \in days} |-> CHOOSE d \in days : place[d] = i]
           first == IF days = {} THEN None ELSE place[Min(days)]
           rest  == Targets(act.about) \ days
<1>4. days \subseteq Days /\ Spare \subseteq Ids /\ rest \subseteq Days
  BY <1>2 DEF Spare
<1>5. \E f \in [days -> Spare] : \A d, e \in days : f[d] = f[e] => d = e
  BY <1>3, <1>4, Placeable
<1>6. place \in [days -> Spare]
  BY <1>5
<1>7. server' = Put(at, act.about.movie) /\ act' \in {Idle, Accepted(first, rest)}
  BY <1>3
<1> HIDE DEF place, rest
<1>8. \A i \in DOMAIN at : at[i] \in Days
  BY <1>4
<1>9. first \in Ids \cup {None}
  BY <1>4, <1>6, FirstDay
<1> HIDE DEF at, first
<1>10. Sound(Put(at, act.about.movie))
  BY <1>2, <1>8, PutSound DEF IInv, DataSound
<1>11. GotOK(act.kind, first)
  BY <1>1, <1>9 DEF GotOK, MovieKinds, SessionKinds
<1> QED
  BY <1>4, <1>7, <1>10, <1>11 DEF Answered

LEMMA SessionGranted == ASSUME IInv, act.pc = "sent", GrantSession PROVE Answered
<1> DEFINE i == IF act.kind = "update" THEN act.about.session ELSE act.about
           k == CASE act.kind = "update" -> Session(act.about.movie, act.about.day, "scheduled")
                  [] act.kind = "cancel" -> [server.hall[i] EXCEPT !.status = "cancelled"]
                  [] OTHER -> Gone
<1>1. /\ act.kind \in {"update", "cancel", "delete"}
      /\ act.kind = "update" => act.about \in Edits
      /\ act.kind \in {"cancel", "delete"} => act.about \in Ids
  BY DEF GrantSession, IInv, ActOK, AboutOK
<1>2. i \in Ids
  BY <1>1 DEF Edits
<1>3. /\ Listed(server, i) /\ server' = [server EXCEPT !.hall[i] = k]
      /\ act' \in {Idle, Accepted(i, {})}
      /\ act.kind = "update" => /\ Ready(server, act.about.movie)
                                       \/ act.about.movie = server.hall[i].movie
  BY DEF GrantSession
<1> HIDE DEF i
<1>4. server.hall[i].movie \in Movies /\ server.hall[i].day \in Days
  BY <1>2, <1>3, ListedSessions DEF IInv, DataSound
<1>5. /\ k \in [movie : Movies \cup {None}, day : Days \cup {None},
                status : {"unused", "scheduled", "cancelled", "gone"}]
      /\ k.status \in {"scheduled", "cancelled"} => k.movie \in Movies /\ k.day \in Days
  <2>1. CASE act.kind = "update"
    <3>1. act.about.movie \in Movies /\ act.about.day \in Days
      BY <1>1, <1>3, <1>4, <2>1 DEF Edits, Ready
    <3> QED
      BY <2>1, <3>1 DEF Session
  <2>2. CASE act.kind = "cancel"
    <3>1. server.hall[i] \in [movie : Movies \cup {None}, day : Days \cup {None},
                              status : {"unused", "scheduled", "cancelled", "gone"}]
      BY <1>2 DEF IInv, DataSound, Sound, Servers
    <3> QED
      BY <1>4, <2>2, <3>1
  <2>3. CASE act.kind = "delete"
    BY <2>3 DEF Gone
  <2> QED
    BY <1>1, <2>1, <2>2, <2>3
<1> HIDE DEF k
<1>6. Sound([server EXCEPT !.hall[i] = k])
  BY <1>2, <1>5, HallSound DEF IInv, DataSound
<1>7. GotOK(act.kind, i)
  BY <1>1, <1>2 DEF GotOK, MovieKinds, SessionKinds
<1> QED
  BY <1>3, <1>6, <1>7 DEF Answered

LEMMA MovieGranted == ASSUME IInv, act.pc = "sent", GrantMovie PROVE Answered
<1> DEFINE Films == [status : {"unused", "planned", "deactivated", "gone"}, poster : BOOLEAN]
<1>1. PICK m \in Movies :
          /\ \/ /\ act.kind = "add" /\ server.catalog[m] = NoFilm
                /\ server' = [server EXCEPT !.catalog[m].status = "planned"]
             \/ /\ act.about = m /\ MovieListed(server, m)
                /\ \E film \in MovieAfter(m) : server' = [server EXCEPT !.catalog[m] = film]
          /\ act' \in {Idle, Accepted(m, {})}
  BY DEF GrantMovie
<1>2. server.catalog[m] \in Films
  BY DEF IInv, DataSound, Sound, Servers
<1>3. PICK film \in Films : server' = [server EXCEPT !.catalog[m] = film]
  <2>1. CASE server' = [server EXCEPT !.catalog[m].status = "planned"]
    <3>1. [server.catalog[m] EXCEPT !.status = "planned"] \in Films
      BY <1>2
    <3>2. [server EXCEPT !.catalog[m].status = "planned"]
          = [server EXCEPT !.catalog[m] = [server.catalog[m] EXCEPT !.status = "planned"]]
      BY DEF IInv, DataSound, Sound, Servers
    <3> QED
      BY <2>1, <3>1, <3>2
  <2>2. \A film \in MovieAfter(m) : film \in Films
    BY <1>2 DEF MovieAfter
  <2> QED
    BY <1>1, <2>1, <2>2
<1>4. Sound([server EXCEPT !.catalog[m] = film])
  BY <1>3, CatalogSound DEF IInv, DataSound
<1>5. act.kind \in MovieKinds \cup {"add"}
  <2>1. CASE act.about = m /\ \E f \in MovieAfter(m) : TRUE
    BY <2>1 DEF MovieAfter, MovieKinds
  <2> QED
    BY <1>1, <2>1
<1>6. GotOK(act.kind, m)
  BY <1>5 DEF GotOK, MovieKinds, SessionKinds
<1> QED
  BY <1>1, <1>3, <1>4, <1>6 DEF Answered

LEMMA BookingGranted == ASSUME IInv, act.pc = "sent", GrantBooking PROVE Answered
<1>1. GotOK(act.kind, None)
  BY DEF GrantBooking, GotOK, MovieKinds, SessionKinds
<1> QED
  BY <1>1 DEF GrantBooking, Answered, IInv, DataSound

\* A refusal, and an answer that is lost, leave the movie that a form has
\* created in the form.
LEMMA ForgottenMade ==
    ASSUME IInv, act.pc = "sent"
    PROVE  OnRefused \in Forms /\ Made(OnRefused, Idle, madeBy)
<1>1. form \in Forms /\ (act.kind = "firstUpload" => act.about \in Movies)
  BY DEF IInv, RestOK, ActOK, AboutOK, MovieKinds
<1>2. OnRefused \in Forms
  BY <1>1 DEF OnRefused, Forms
<1>3. OnRefused.editing = IF act.kind = "firstUpload" THEN act.about ELSE form.editing
  BY <1>1 DEF OnRefused, Forms
<1>4. madeBy # None => OnRefused.editing = madeBy
  BY <1>3 DEF IInv, Made
<1> QED
  BY <1>2, <1>4, IdleOK DEF Made

LEMMA GrantedKeeps == ASSUME IInv, Granted PROVE IInv'
<1>1. /\ act.pc = "sent" /\ ActOK(act)
      /\ form' = IF act' = Idle THEN OnRefused ELSE form
      /\ madeBy' = IF act.kind = "add" /\ act' # Idle THEN act'.got ELSE madeBy
      /\ refreshing' = (refreshing \/ act' # Idle)
      /\ UNCHANGED <<lists, manual, board, tour>>
  BY DEF Granted, IInv
<1>2. Answered
  BY <1>1, CreateGranted, BatchGranted, SessionGranted, MovieGranted, BookingGranted DEF Granted
<1>3. PICK x, r : GotOK(act.kind, x) /\ r \subseteq Days /\ act' \in {Idle, Accepted(x, r)}
  BY <1>2 DEF Answered
<1>4. /\ ActOK(act') /\ act'.pc \in {"idle", "refresh"}
      /\ Made(form', act', madeBy') /\ form' \in Forms /\ madeBy' \in Movies \cup {None}
  <2>1. CASE act' = Idle
    BY <1>1, <2>1, IdleOK, ForgottenMade DEF IInv, RestOK
  <2>2. CASE act' # Idle
    <3>1. act' = Accepted(x, r)
      BY <1>3, <2>2
    <3>2. /\ ActOK(act') /\ act'.kind = act.kind /\ act'.about = act.about
          /\ act'.pc = "refresh" /\ act'.got = x
      BY <1>1, <1>3, <3>1, AcceptedOK
    <3>3. Made(form', act', madeBy')
      BY <1>1, <2>2, <3>2 DEF IInv, Made
    <3>4. act.kind = "add" => x \in Movies
      BY <1>3 DEF GotOK
    <3> QED
      BY <1>1, <2>2, <3>2, <3>3, <3>4 DEF IInv, RestOK
  <2> QED
    BY <2>1, <2>2
<1>5. refreshing' \in BOOLEAN
  BY <1>1
<1> QED
  BY <1>1, <1>2, <1>4, <1>5 DEF Answered, IInv, DataSound, RestOK

LEMMA RefusedKeeps == ASSUME IInv, Refused PROVE IInv'
<1>1. OnRefused \in Forms /\ Made(OnRefused, Idle, madeBy)
  BY ForgottenMade DEF Refused
<1> QED
  BY <1>1, IdleOK DEF Refused, IInv, DataSound, RestOK

LEMMA ElsewhereKeeps == ASSUME IInv, Elsewhere PROVE IInv'
<1>1. UNCHANGED <<lists, act, manual, refreshing, board, form, madeBy, tour>>
  BY DEF Elsewhere
<1>2. Sound(server')
  <2>1. ASSUME NEW i \in Spare, NEW m \in Movies, NEW d \in Days,
               server' = Put([j \in {i} |-> d], m)
        PROVE  Sound(server')
    <3>1. \A j \in DOMAIN [k \in {i} |-> d] : [k \in {i} |-> d][j] \in Days
      OBVIOUS
    <3> QED
      BY <2>1, <3>1, PutSound DEF IInv, DataSound
  <2>2. ASSUME NEW i \in Ids, Listed(server, i), NEW s \in {"cancelled", "gone"},
               server' = [server EXCEPT !.hall[i] =
                              IF s = "gone" THEN Gone ELSE [@ EXCEPT !.status = s]]
        PROVE  Sound(server')
    <3> DEFINE k == IF s = "gone" THEN Gone ELSE [server.hall[i] EXCEPT !.status = s]
    <3>1. server.hall[i].movie \in Movies /\ server.hall[i].day \in Days
      BY <2>2, ListedSessions DEF IInv, DataSound
    <3>2. server.hall[i] \in [movie : Movies \cup {None}, day : Days \cup {None},
                              status : {"unused", "scheduled", "cancelled", "gone"}]
      BY DEF IInv, DataSound, Sound, Servers
    <3>3. /\ k \in [movie : Movies \cup {None}, day : Days \cup {None},
                    status : {"unused", "scheduled", "cancelled", "gone"}]
          /\ k.status \in {"scheduled", "cancelled"} => k.movie \in Movies /\ k.day \in Days
      BY <3>1, <3>2 DEF Gone
    <3>4. server' = [server EXCEPT !.hall[i] = k]
      BY <2>2
    <3> HIDE DEF k
    <3> QED
      BY <3>3, <3>4, HallSound DEF IInv, DataSound
  <2>3. ASSUME NEW m \in Movies, server' = [server EXCEPT !.catalog[m].status = "gone"]
        PROVE  Sound(server')
    <3> DEFINE k == [server.catalog[m] EXCEPT !.status = "gone"]
    <3>1. k \in [status : {"unused", "planned", "deactivated", "gone"}, poster : BOOLEAN]
      BY DEF IInv, DataSound, Sound, Servers
    <3>2. server' = [server EXCEPT !.catalog[m] = k]
      BY <2>3 DEF IInv, DataSound, Sound, Servers
    <3> HIDE DEF k
    <3> QED
      BY <3>1, <3>2, CatalogSound DEF IInv, DataSound
  <2> QED
    BY <2>1, <2>2, <2>3 DEF Elsewhere
<1> QED
  BY <1>1, <1>2 DEF IInv, DataSound, RestOK

-----------------------------------------------------------------------------
(* The refreshes, and what the handlers do after theirs.                   *)

LEMMA ManualKeeps == ASSUME IInv, RefreshData \/ ReadManual \/ ManualEnds PROVE IInv'
<1>1. CASE RefreshData
  BY <1>1 DEF RefreshData, NoRefresh, IInv, DataSound, RestOK
<1>2. CASE ReadManual
  BY <1>2 DEF ReadManual, IInv, DataSound, RestOK
<1>3. CASE ManualEnds
  BY <1>3 DEF ManualEnds, NoRefresh, IInv, DataSound, RestOK
<1> QED
  BY <1>1, <1>2, <1>3

\* A change that goes on with its refresh stays what it is.
LEMMA SnapStep ==
    ASSUME ActOK(act), act.pc \in {"refresh", "read"}, NEW s, NEW pc \in {"read", "done"}
    PROVE  LET a == [act EXCEPT !.pc = pc, !.snap = s]
           IN  /\ ActOK(a) /\ a.pc = pc /\ a.snap = s
               /\ a.kind = act.kind /\ a.about = act.about /\ a.got = act.got
<1> DEFINE a == [act EXCEPT !.pc = pc, !.snap = s]
<1>1. act = [f \in ActFields |-> act[f]]
  BY DEF ActOK
<1>2. a = [f \in ActFields |-> a[f]]
  BY <1>1 DEF ActFields
<1>3. /\ a.pc = pc /\ a.snap = s /\ a.rejected = act.rejected
      /\ a.kind = act.kind /\ a.about = act.about /\ a.got = act.got
  BY <1>1 DEF ActFields
<1> HIDE DEF a
<1>4. ActOK(a)
  BY <1>2, <1>3 DEF ActOK
<1>5. /\ ActOK(a) /\ a.pc = pc /\ a.snap = s
      /\ a.kind = act.kind /\ a.about = act.about /\ a.got = act.got
  BY <1>3, <1>4
<1> QED
  BY <1>5 DEF a

LEMMA ReadListsKeeps == ASSUME IInv, ReadLists PROVE IInv'
<1>1. /\ ActOK(act') /\ act'.pc = "read" /\ act'.snap = server
      /\ act'.kind = act.kind /\ act'.about = act.about /\ act'.got = act.got
  BY SnapStep DEF ReadLists, IInv
<1>2. Made(form', act', madeBy')
  BY <1>1 DEF ReadLists, IInv, Made
<1> QED
  BY <1>1, <1>2 DEF ReadLists, IInv, DataSound, RestOK

LEMMA RefreshEndsKeeps == ASSUME IInv, RefreshEnds PROVE IInv'
<1>1. /\ ActOK(act') /\ act'.pc = "done"
      /\ act'.kind = act.kind /\ act'.about = act.about /\ act'.got = act.got
  BY SnapStep DEF RefreshEnds, IInv
<1>2. Made(form', act', madeBy')
  BY <1>1 DEF RefreshEnds, IInv, Made
<1> QED
  BY <1>1, <1>2 DEF RefreshEnds, IInv, DataSound, RestOK

\* The rejected dates are what a draft keeps.
LEMMA RewrittenDraft ==
    ASSUME NEW k \in Drafts, act.rejected \subseteq Days
    PROVE  /\ Rewritten(k) \in Drafts
           /\ Rewritten(k).mode = "timeline" => Rewritten(k).day \notin Rewritten(k).extras
           /\ Targets(Rewritten(k)) = act.rejected
<1>1. CASE k.mode = "timeline" /\ k.day \in act.rejected
  <2> DEFINE rest == act.rejected \ {k.day}
             a == [k EXCEPT !.extras = rest]
  <2>1. Rewritten(k) = a
    BY <1>1 DEF Rewritten
  <2>2. a \in Drafts /\ a.mode = "timeline" /\ a.day = k.day /\ a.extras = rest
    BY <1>1 DEF Drafts
  <2>3. {k.day} \cup rest = act.rejected
    BY <1>1
  <2> HIDE DEF a, rest
  <2>4. Targets(a) = act.rejected
    BY <2>2, <2>3 DEF Targets
  <2>5. k.day \notin rest
    BY DEF rest
  <2> QED
    BY <2>1, <2>2, <2>4, <2>5
<1>2. CASE ~(k.mode = "timeline" /\ k.day \in act.rejected)
  <2> DEFINE a == [k EXCEPT !.mode = "duplicate", !.extras = act.rejected]
  <2>1. Rewritten(k) = a
    BY <1>2 DEF Rewritten
  <2>2. a \in Drafts /\ a.mode = "duplicate" /\ a.extras = act.rejected
    BY DEF Drafts
  <2> HIDE DEF a
  <2> QED
    BY <2>1, <2>2 DEF Targets
<1> QED
  BY <1>1, <1>2

LEMMA BoardAfterOK == ASSUME IInv, act.pc = "done" PROVE BoardOK(BoardAfter)
<1>1. /\ act.kind \in Kinds /\ GotOK(act.kind, act.got) /\ act.rejected \subseteq Days
      /\ act.kind = "batch" => act.about \in Drafts
  BY DEF IInv, ActOK, AboutOK
<1>2. board \in Boards
  BY DEF IInv, BoardOK
<1> USE DEF GotOK, SessionKinds, MovieKinds
<1>3. CASE act.kind = "create"
  <2>1. BoardAfter = [board EXCEPT !.draft = None, !.pinned = None, !.selected = act.got,
                                   !.view = "session"]
    BY <1>3 DEF BoardAfter
  <2> QED
    BY <1>1, <1>2, <1>3, <2>1 DEF BoardOK, Boards
<1>4. CASE act.kind = "batch" /\ act.rejected = {}
  <2>1. CASE act.about.mode = "timeline"
    <3>1. BoardAfter = [board EXCEPT !.draft = None, !.pinned = None, !.selected = act.got,
                                     !.view = "session"]
      BY <1>4, <2>1 DEF BoardAfter
    <3> QED
      BY <1>1, <1>2, <1>4, <3>1 DEF BoardOK, Boards
  <2>2. CASE act.about.mode = "duplicate"
    <3> DEFINE v == IF act.seen THEN "session" ELSE "none"
    <3>1. BoardAfter = [board EXCEPT !.draft = None, !.view = v]
      BY <1>4, <2>2 DEF BoardAfter
    <3>2. v \in {"session", "none"}
      OBVIOUS
    <3> HIDE DEF v
    <3> QED
      BY <1>2, <3>1, <3>2 DEF BoardOK, Boards
  <2> QED
    BY <1>1, <1>4, <2>1, <2>2 DEF Drafts
<1>5. CASE act.kind = "batch" /\ act.rejected # {}
  <2> DEFINE k == IF board.draft = None THEN None ELSE Rewritten(board.draft)
  <2>1. BoardAfter = [board EXCEPT !.draft = k, !.view = "draft"]
    BY <1>2, <1>5 DEF BoardAfter, Boards
  <2>2. k \in Drafts \cup {None}
        /\ (k # None /\ k.mode = "timeline" => k.day \notin k.extras)
    BY <1>1, <1>2, RewrittenDraft DEF Boards
  <2> HIDE DEF k
  <2> QED
    BY <1>2, <2>1, <2>2 DEF BoardOK, Boards
<1>6. CASE act.kind = "update"
  <2>1. BoardAfter = [board EXCEPT !.editing = None, !.selected = act.got, !.view = "session"]
    BY <1>6 DEF BoardAfter
  <2> QED
    BY <1>1, <1>6, <2>1 DEF IInv, BoardOK, Boards
<1>7. CASE act.kind = "cancel"
  <2>1. BoardAfter = [board EXCEPT !.view = "session"]
    BY <1>7 DEF BoardAfter
  <2> QED
    BY <2>1 DEF IInv, BoardOK, Boards
<1>8. CASE act.kind = "delete"
  <2> DEFINE v == IF act.seen THEN "draft" ELSE "none"
  <2>1. BoardAfter = [board EXCEPT !.selected = None, !.editing = None, !.view = v]
    BY <1>8 DEF BoardAfter
  <2>2. v \in {"draft", "none"}
    OBVIOUS
  <2> HIDE DEF v
  <2> QED
    BY <2>1, <2>2 DEF IInv, BoardOK, Boards
<1>9. CASE act.kind \in Kinds \ {"create", "batch", "update", "cancel", "delete"}
  <2>1. \E m \in Movies \cup {None} : BoardAfter = [board EXCEPT !.pinned = m] \/ BoardAfter = board
    BY <1>1, <1>9 DEF BoardAfter
  <2> QED
    BY <2>1 DEF IInv, BoardOK, Boards
<1> QED
  BY <1>1, <1>3, <1>4, <1>5, <1>6, <1>7, <1>8, <1>9

\* The second request of a form that uploads or removes a poster.
LEMMA NextRequestOK ==
    ASSUME IInv, act.pc = "done"
    PROVE  /\ ActOK(NextRequest) /\ NextRequest.pc \in {"idle", "sent"}
           /\ ~FormIsDone => Made(form, NextRequest, madeBy)
<1>1. /\ act.kind \in Kinds /\ AboutOK(act.kind, act.about) /\ GotOK(act.kind, act.got)
      /\ act.kind # "none"
  BY DEF IInv, ActOK
<1>2. madeBy # None => CASE act.kind = "firstUpload" -> act.about = madeBy
                         [] act.kind = "add" -> act.got = madeBy
                         [] OTHER -> form.editing = madeBy
  BY DEF IInv, Made
<1>3. CASE act.kind = "add" /\ form.poster = "file"
  <2>1. NextRequest = Request("firstUpload", act.got)
    BY <1>3 DEF NextRequest
  <2>2. AboutOK("firstUpload", act.got)
    BY <1>1, <1>3 DEF GotOK, AboutOK, MovieKinds
  <2> QED
    BY <1>2, <1>3, <2>1, <2>2, RequestOK DEF Made, Kinds
<1>4. CASE act.kind = "save" /\ form.poster = "file"
  <2>1. NextRequest = Request("upload", act.got)
    BY <1>4 DEF NextRequest
  <2>2. AboutOK("upload", act.got)
    BY <1>1, <1>4 DEF GotOK, AboutOK, MovieKinds
  <2> QED
    BY <1>2, <1>4, <2>1, <2>2, RequestOK DEF Made, Kinds
<1>5. CASE act.kind = "save" /\ form.poster = "remove" /\ act.seen
  <2>1. NextRequest = Request("unposter", act.about)
    BY <1>5 DEF NextRequest
  <2>2. AboutOK("unposter", act.about)
    BY <1>1, <1>5 DEF AboutOK, MovieKinds
  <2> QED
    BY <1>2, <1>5, <2>1, <2>2, RequestOK DEF Made, Kinds
<1>6. CASE /\ ~(act.kind \in {"save", "add"} /\ form.poster = "file")
           /\ ~(act.kind = "save" /\ form.poster = "remove" /\ act.seen)
  <2>1. NextRequest = Idle
    BY <1>6 DEF NextRequest
  <2>2. ~FormIsDone => act.kind \notin {"save", "add", "upload", "firstUpload", "unposter"}
    BY <2>1 DEF FormIsDone
  <2>3. ~FormIsDone => Made(form, Idle, madeBy)
    BY <1>2, <2>2, IdleOK DEF Made
  <2> QED
    BY <2>1, <2>3, IdleOK
<1> QED
  BY <1>3, <1>4, <1>5, <1>6

LEMMA ContinueKeeps == ASSUME IInv, Continue PROVE IInv'
<1>1. act.pc = "done" /\ act' = NextRequest /\ board' = BoardAfter
  BY DEF Continue
<1>2. /\ BoardOK(board') /\ ActOK(act') /\ act'.pc \in {"idle", "sent"}
      /\ ~FormIsDone => Made(form, act', madeBy)
  BY <1>1, BoardAfterOK, NextRequestOK
<1>3. /\ form' \in Forms /\ madeBy' \in Movies \cup {None}
      /\ Made(form', act', madeBy')
  <2>1. CASE FormIsDone
    BY <2>1 DEF Continue, EmptyForm, Forms, Made
  <2>2. CASE ~FormIsDone
    BY <1>2, <2>2 DEF Continue, IInv, RestOK
  <2> QED
    BY <2>1, <2>2
<1> QED
  BY <1>2, <1>3 DEF Continue, IInv, DataSound, RestOK

-----------------------------------------------------------------------------
(* The theorems.                                                           *)

LEMMA NextInv == IInv /\ [Next]_vars => IInv'
<1> SUFFICES ASSUME IInv, [Next]_vars PROVE IInv'
  OBVIOUS
<1>1. CASE Render
  BY <1>1, RenderKeeps
<1>2. CASE \/ \E m \in Movies : Pin(m) \/ EditMovie(m)
           \/ ClearPlanning \/ ResetForm \/ SubmitForm
           \/ \E p \in {"none", "file", "remove"} : ChoosePoster(p)
           \/ \E m \in Movies, kind \in {"deactivate", "replan", "remove"} : ChangeMovie(m, kind)
  BY <1>2, PlanningKeeps, FormKeeps, MovieAsksKeep
<1>3. CASE \E d \in Days : SlotClick(d) \/ Drop(d) \/ ToggleDate(d)
  BY <1>3, SlotClickKeeps, DropKeeps, ToggleKeeps
<1>4. CASE \E m \in Movies \cup {None}, d \in Days : UpdateDraft(m, d) \/ UpdateEdit(m, d)
  BY <1>4, UpdateDraftKeeps, UpdateEditKeeps
<1>5. CASE DraftSelect \/ Discard \/ \E i \in Ids : SessionSelect(i)
  BY <1>5, SelectKeeps, DiscardKeeps
<1>6. CASE OpenEdit \/ OpenDuplicate \/ BackToSession
  BY <1>6, OpenEditKeeps, OpenDuplicateKeeps, BackKeeps
<1>7. CASE SubmitDraft \/ SubmitEdit \/ CancelSelected \/ DeleteSelected \/ CancelBooking
  BY <1>7, SubmitsKeep
<1>8. CASE Elsewhere
  BY <1>8, ElsewhereKeeps
<1>9. CASE RefreshData \/ ReadManual \/ ManualEnds
  BY <1>9, ManualKeeps
<1>10. CASE Answer
  BY <1>10, GrantedKeeps, RefusedKeeps, ReadListsKeeps, RefreshEndsKeeps, ContinueKeeps DEF Answer
<1>11. CASE UNCHANGED vars
  BY <1>11 DEF vars, IInv, DataSound, RestOK
<1> QED
  BY <1>1, <1>2, <1>3, <1>4, <1>5, <1>6, <1>7, <1>8, <1>9, <1>10, <1>11 DEF Next

\* Every reachable state of the page satisfies the invariant.
THEOREM Invariance == Spec => []IInv
BY InitInv, NextInv, PTL DEF Spec

LEMMA TypesFromInv == IInv => TypeOK
<1> SUFFICES ASSUME IInv PROVE TypeOK
  OBVIOUS
<1>1. /\ act.about \in Drafts \cup Edits \cup Ids \cup Movies \cup {None}
      /\ act.got \in Ids \cup Movies \cup {None}
      /\ act.kind \in Kinds \cup {"none"} /\ act.rejected \subseteq Days
      /\ act.pc \in {"idle", "sent", "refresh", "read", "done"}
  BY DEF IInv, ActOK, AboutOK, GotOK, Kinds, SessionKinds, MovieKinds
<1>2. /\ board.draft \in Drafts \cup {None} /\ board.editing \in Edits \cup {None}
      /\ board.selected \in Ids \cup {None} /\ board.view \in {"none", "draft", "session", "edit"}
      /\ board.pinned \in Movies \cup {None}
      /\ OnTimeline => board.draft.day \notin board.draft.extras
  BY DEF IInv, BoardOK, Boards, OnTimeline
<1>3. /\ server \in Servers /\ lists \in Servers
      /\ manual.pc \in {"idle", "refresh", "read"} /\ refreshing \in BOOLEAN
      /\ form \in [editing : Movies \cup {None}, poster : {"none", "file", "remove"}]
      /\ madeBy \in Movies \cup {None} /\ tour \in Tours
  BY DEF IInv, DataSound, Sound, RestOK, Forms
<1> QED
  BY <1>1, <1>2, <1>3 DEF TypeOK

\* The state of the dashboard keeps its types: in particular the days and the
\* movies that its forms send to the backend are days and movies.
THEOREM TypeCorrect == Spec => []TypeOK
BY Invariance, TypesFromInv, PTL

LEMMA SubjectFromInv == IInv => EditFormSubject
<1> SUFFICES ASSUME IInv, Rendered, board.view = "edit"
             PROVE  /\ board.editing # None /\ board.editing.session = board.selected
                    /\ Listed(lists, board.selected)
  BY DEF EditFormSubject
<1>1. /\ board.editing # None /\ board.selected # None
      /\ board.editing.session = board.selected
  BY DEF IInv, BoardOK
<1>2. Cleaned(board).selected = board.selected
  BY DEF Rendered
<1>3. ~Shown(board) => Cleaned(board).selected = None
  BY <1>1 DEF Cleaned
<1> QED
  BY <1>1, <1>2, <1>3 DEF Shown

\* No interleaving of clicks, drops, refreshes and late answers leaves the edit
\* form on another session than the selected one, or on one that is gone.
THEOREM EditFormKeepsSubject == Spec => []EditFormSubject
BY Invariance, SubjectFromInv, PTL

\* Between two submissions a form that has been told of its movie is on it.
LEMMA MadeFromInv == IInv => (~Busy /\ madeBy # None => form.editing = madeBy)
BY DEF IInv, ActOK, Made, Busy

\* Only a form without a movie asks for one to be created.
LEMMA AddsWhenEmpty ==
    ASSUME IInv, Next, ~Busy, act'.kind = "add"
    PROVE  form.editing = None
<1>0. act.kind # "add" /\ act.pc = "idle"
  BY DEF IInv, ActOK, Busy
<1>1. \A b : BoardOnly(b) => act' = act
  BY DEF BoardOnly
<1>2. \A f : FormOnly(f) => act' = act
  BY DEF FormOnly
<1>3. \A kind, about : Ask(kind, about) => act'.kind = kind
  BY DEF Ask, Request
<1>4. CASE \/ \E m \in Movies : Pin(m)
           \/ ClearPlanning \/ DraftSelect \/ Discard \/ \E i \in Ids : SessionSelect(i)
           \/ OpenEdit \/ OpenDuplicate \/ BackToSession
  BY <1>0, <1>1, <1>4
     DEF Pin, ClearPlanning, DraftSelect, Discard, SessionSelect, OpenEdit, OpenDuplicate,
         BackToSession
<1>5. CASE \/ \E d \in Days : SlotClick(d) \/ Drop(d) \/ ToggleDate(d)
           \/ \E m \in Movies \cup {None}, d \in Days : UpdateDraft(m, d) \/ UpdateEdit(m, d)
  BY <1>0, <1>1, <1>5
     DEF SlotClick, Drop, Move, Place, ToggleDate, UpdateDraft, UpdateEdit
<1>6. CASE \/ Render \/ Elsewhere \/ RefreshData \/ ReadManual \/ ManualEnds
  BY <1>0, <1>6 DEF Render, Elsewhere, RefreshData, ReadManual, ManualEnds
<1>7. CASE \/ ResetForm \/ \E m \in Movies : EditMovie(m)
           \/ \E p \in {"none", "file", "remove"} : ChoosePoster(p)
  BY <1>0, <1>2, <1>7 DEF ResetForm, EditMovie, ChoosePoster
<1>8. CASE Answer
  BY <1>0, <1>8 DEF Answer, Granted, Refused, ReadLists, RefreshEnds, Continue
<1>9. CASE SubmitDraft \/ SubmitEdit \/ CancelSelected \/ DeleteSelected \/ CancelBooking
  <2>1. Ask("create", board.draft) \/ Ask("batch", board.draft) \/ Ask("update", board.editing)
          \/ Ask("cancel", board.selected) \/ Ask("delete", board.selected) \/ Ask("booking", None)
    BY <1>9 DEF SubmitDraft, SubmitEdit, CancelSelected, DeleteSelected, CancelBooking
  <2>. QED  BY <1>3, <2>1
<1>10. CASE \E m \in Movies, kind \in {"deactivate", "replan", "remove"} : ChangeMovie(m, kind)
  BY <1>3, <1>10 DEF ChangeMovie
<1>11. CASE SubmitForm
  BY <1>3, <1>11 DEF SubmitForm
<1>. QED
  BY <1>4, <1>5, <1>6, <1>7, <1>8, <1>9, <1>10, <1>11 DEF Next

\* Once its create was answered, a movie form creates no second movie,
\* whichever of its later requests fails or is lost.
THEOREM MovieFormCreatesOnce == Spec => FormCreatesOnce
<1>1. IInv /\ [Next]_vars => [~Busy /\ act'.kind = "add" => madeBy = None]_vars
  BY AddsWhenEmpty, MadeFromInv
<1>. QED  BY <1>1, Invariance, PTL DEF Spec, FormCreatesOnce

LEMMA RejectedAreKept ==
    IInv => [/\ act.kind = "batch" /\ act.rejected # {} /\ Continue
             /\ board'.draft # None
             => Targets(board'.draft) = act.rejected]_vars
<1> SUFFICES ASSUME IInv, act.kind = "batch", act.rejected # {}, Continue, board'.draft # None
             PROVE  Targets(board'.draft) = act.rejected
  OBVIOUS
<1> DEFINE k == IF board.draft = None THEN None ELSE Rewritten(board.draft)
<1>1. board' = [board EXCEPT !.draft = k, !.view = "draft"]
  BY DEF Continue, BoardAfter, IInv, BoardOK, Boards
<1>2. board'.draft = k
  BY <1>1 DEF IInv, BoardOK, Boards
<1>3. board.draft \in Drafts /\ board'.draft = Rewritten(board.draft)
  BY <1>2 DEF IInv, BoardOK, Boards
<1> QED
  BY <1>3, RewrittenDraft DEF IInv, ActOK

\* After a batch that was granted in part exactly the rejected dates are asked
\* for again, whatever draft is on the board by then.
THEOREM PartialBatchesKeepRejected == Spec => PartialKeepsRejected
BY Invariance, RejectedAreKept, PTL DEF PartialKeepsRejected

=============================================================================
