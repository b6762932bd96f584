--------------------------- MODULE AdminDashboard ---------------------------
(***************************************************************************)
(* The administrator's dashboard of the web client: the lists it shows,    *)
(* runAdminAction with the refresh that follows every change, the          *)
(* Chronoboard, on which sessions are drafted and edited, and the movie    *)
(* form.  Handlers run between awaits; an answer is an action of its own,  *)
(* and what a handler does after its await uses the values of the render   *)
(* it was called in (seen) and writes the state of now.                    *)
(*                                                                         *)
(* A day has one slot: sessions of one day overlap.  A slot in the past,   *)
(* or beyond the opening hours, is a date the backend rejects for its own  *)
(* reasons.  The movies and the sessions of a refresh are read together,   *)
(* and the page is modelled from its first successful load on.             *)
(***************************************************************************)
EXTENDS Naturals, FiniteSets, FiniteSetsExt

CONSTANTS
    Movies, Ids,     \* the movies and sessions there can ever be (a bound)
    Days,            \* the days the administrator plans for (a bound)
    MaxChanges,      \* bound: the changes of the backend's data
    Tours,           \* bound: the parts of the page one visit uses
    None

ASSUME DashboardAssumption ==
    /\ Days \subseteq Nat /\ MaxChanges \in Nat
    /\ Tours \subseteq SUBSET {"board", "movies", "bookings"}
    /\ None \notin Movies \cup Ids \cup Days

\* The bounds are finite: the backend counts the dates it accepts.
ASSUME FiniteAssumption == IsFiniteSet(Ids) /\ IsFiniteSet(Days)

VARIABLES
    server,      \* the backend's sessions (hall) and movies (catalog)
    changes,     \* how often they have changed
    lists,       \* the copy of them the page shows
    act,         \* the change under way: pendingActionLabel, its await, its closure
    manual,      \* the refresh the button has started
    refreshing,  \* isRefreshing
    board,       \* the Chronoboard's state
    form,        \* the movie form: the movie it edits and what becomes of its poster
    madeBy,      \* history: the movie that the present content of the form created
    tour         \* the parts of the page this visit uses

vars == <<server, changes, lists, act, manual, refreshing, board, form, madeBy, tour>>

Gone       == [movie |-> None, day |-> None, status |-> "gone"]
Unused     == [movie |-> None, day |-> None, status |-> "unused"]
NoFilm     == [status |-> "unused", poster |-> FALSE]
EmptyForm  == [editing |-> None, poster |-> "none"]
EmptyBoard == [draft |-> None, editing |-> None, selected |-> None,
               view |-> "none", pinned |-> None]
Idle       == [kind |-> "none", pc |-> "idle", about |-> None, got |-> None,
               rejected |-> {}, snap |-> None, seen |-> FALSE]
NoRefresh  == [pc |-> "idle", snap |-> None]

Session(m, d, s)  == [movie |-> m, day |-> d, status |-> s]
Listed(l, i)      == i # None /\ l.hall[i].status \in {"scheduled", "cancelled"}
MovieListed(l, m) == m # None /\ l.catalog[m].status \in {"planned", "deactivated"}
\* isMovieScheduleReady, and the backend's own condition ("active" is a
\* planned movie with sessions to come).
Ready(l, m)       == m # None /\ l.catalog[m].status = "planned"
HasPoster(m)      == MovieListed(lists, m) /\ lists.catalog[m].poster
Taken(l, d, but)  == \E i \in Ids \ {but} :
                         l.hall[i].status = "scheduled" /\ l.hall[i].day = d
Scheduled(l, m)   == \E i \in Ids : l.hall[i].status = "scheduled" /\ l.hall[i].movie = m

\* getSlotConflict, over the sessions the page shows.
Blocked(m, d) == ~MovieListed(lists, m) \/ Taken(lists, d, None)

\* getDraftTargetDateKeys: a duplicate does not repeat the day it copies.
Targets(draft) == IF draft.mode = "timeline" THEN {draft.day} \cup draft.extras
                  ELSE draft.extras

Busy         == act.pc # "idle"
Shown(b)     == Listed(lists, b.selected)
DraftOr(b, v) == IF b.draft # None THEN "draft" ELSE v

CleanedKeepingEdit(b) ==
    LET lost == b.selected # None /\ ~Shown(b)
    IN  [b EXCEPT !.selected = IF lost THEN None ELSE @,
                  !.view = IF lost /\ @ = "session" THEN DraftOr(b, "none") ELSE @]

\* The four cleanup effects.  They read one render; the last view set wins.
Cleaned(b) ==
    LET lost  == b.selected # None /\ ~Shown(b)
        gone  == b.draft # None /\ ~MovieListed(lists, b.draft.movie)
        stray == b.editing # None /\ ~MovieListed(lists, b.editing.movie)
    IN  [draft    |-> IF gone THEN None ELSE b.draft,
         editing  |-> IF lost \/ stray THEN None ELSE b.editing,
         selected |-> IF lost THEN None ELSE b.selected,
         view     |-> CASE stray -> IF Shown(b) THEN "session" ELSE DraftOr(b, "none")
                        [] gone /\ ~stray -> "none"
                        [] lost /\ ~gone /\ ~stray -> DraftOr(b, "none")
                        [] OTHER -> b.view,
         pinned   |-> IF MovieListed(lists, b.pinned) THEN b.pinned ELSE None]

\* React has rendered and run the effects; it has, before the user's next event.
Rendered == board = Cleaned(board)

Init ==
    \E m \in Movies, d \in Days, i \in Ids, poster \in BOOLEAN :
        /\ server = [hall |-> [j \in Ids |-> IF j = i THEN Session(m, d, "scheduled") ELSE Unused],
                     catalog |-> [n \in Movies |->
                         IF n = m THEN [status |-> "planned", poster |-> poster] ELSE NoFilm]]
        /\ m = CHOOSE n \in Movies : TRUE
        /\ i = CHOOSE j \in Ids : TRUE
        /\ lists = server /\ changes = 0
        /\ act = Idle /\ manual = NoRefresh /\ refreshing = FALSE
        /\ board = EmptyBoard /\ form = EmptyForm /\ madeBy = None
        /\ tour \in Tours
        /\ poster => "movies" \in tour

Render ==
    /\ ~Rendered
    /\ board' = Cleaned(board)
    /\ UNCHANGED <<server, changes, lists, act, manual, refreshing, form, madeBy, tour>>

-----------------------------------------------------------------------------
(* The Chronoboard.  Slots, sessions and the discard button stay enabled   *)
(* while a change is under way; the forms and their buttons do not.        *)

OnBoard == Rendered /\ "board" \in tour

BoardOnly(b) ==
    /\ board' = b
    /\ UNCHANGED <<server, changes, lists, act, manual, refreshing, form, madeBy, tour>>

\* The movies of the planning shelf.
Shelved(m) == Ready(lists, m)

\* handlePlanningMovieSelect and the catalog's queue button.
Pin(m) ==
    /\ Rendered /\ ~Busy /\ Shelved(m)
    /\ BoardOnly([board EXCEPT !.pinned = m])

ClearPlanning == OnBoard /\ BoardOnly([board EXCEPT !.pinned = None])

\* handleSlotPlacement with openDraftPlacement; a blocked slot is a notice.
Place(m, d) ==
    /\ ~Blocked(m, d)
    /\ BoardOnly([draft |-> [movie |-> m, day |-> d, mode |-> "timeline", extras |-> {}],
                  editing |-> None, selected |-> None, view |-> "draft", pinned |-> m])

MoveKeepingDates(d) ==
    /\ ~Blocked(board.draft.movie, d)
    /\ BoardOnly([board EXCEPT !.draft.day = d, !.editing = None, !.selected = None,
                               !.view = "draft", !.pinned = board.draft.movie])

\* moveDraftPlacement.
Move(d) ==
    /\ ~Blocked(board.draft.movie, d)
    /\ BoardOnly([draft |-> [board.draft EXCEPT !.day = d, !.extras = @ \ {d}],
                  editing |-> None, selected |-> None, view |-> "draft",
                  pinned |-> board.draft.movie])

OnTimeline == board.draft # None /\ board.draft.mode = "timeline"

\* handleBoardSlotClick.
SlotClick(d) ==
    /\ OnBoard /\ board.pinned # None
    /\ IF OnTimeline /\ board.draft.movie = board.pinned THEN Move(d) ELSE Place(board.pinned, d)

\* handleBoardSlotDrop of a movie of the shelf, or of the draft itself.
Drop(d) ==
    /\ OnBoard
    /\ \/ OnTimeline /\ Move(d)
       \/ \E m \in Movies : Shelved(m) /\ Place(m, d)

DraftSelect ==
    /\ OnBoard /\ OnTimeline
    /\ BoardOnly([board EXCEPT !.selected = None, !.editing = None, !.view = "draft"])

SessionSelect(i) ==
    /\ OnBoard /\ Listed(lists, i)
    /\ BoardOnly([board EXCEPT !.selected = i, !.editing = None, !.view = "session"])

\* clearDraftPlacement.
Discard ==
    /\ OnBoard /\ board.draft # None
    /\ BoardOnly([board EXCEPT !.draft = None, !.pinned = None,
                               !.view = IF @ # "draft" THEN @
                                        ELSE IF Shown(board) THEN "session" ELSE "none"])

DraftForm   == OnBoard /\ ~Busy /\ board.view = "draft" /\ board.draft # None
EditForm    == OnBoard /\ ~Busy /\ board.view = "edit" /\ board.editing # None
SessionCard == OnBoard /\ ~Busy /\ board.view = "session" /\ Shown(board)

\* The day of a draft that stands on the timeline cannot be deselected.
Locked(d)  == OnTimeline /\ d = board.draft.day
\* The dates of the draft that the page expects the backend to accept.
ReadyDates == {d \in Targets(board.draft) : ~Blocked(board.draft.movie, d)}
\* The movies the two forms offer, the blank option among them.
Options ==
    {m \in Movies : Ready(lists, m)} \cup {None}
    \cup (IF board.draft # None THEN {board.draft.movie} ELSE {})
    \cup (IF board.editing # None THEN {board.editing.movie} ELSE {})
    \cup (IF Shown(board) THEN {lists.hall[board.selected].movie} ELSE {})

\* toggleDraftDate.
ToggleDate(d) ==
    /\ DraftForm /\ ~Locked(d)
    /\ BoardOnly([board EXCEPT !.draft.extras =
                      IF d \in @ THEN @ \ {d} ELSE @ \cup {d}])

\* updateDraftField: the start, which takes its day out of the extra ones (of
\* a duplicate too), and the movie, which may be set to no movie.
UpdateDraft(m, d) ==
    /\ DraftForm
    /\ m \in Options
    /\ \/ m = board.draft.movie /\ BoardOnly([board EXCEPT !.draft.day = d, !.draft.extras = @ \ {d}])
       \/ d = board.draft.day /\ BoardOnly([board EXCEPT !.draft.movie = m])

OpenEdit ==
    /\ SessionCard
    /\ BoardOnly([board EXCEPT
           !.editing = [session |-> board.selected, movie |-> lists.hall[board.selected].movie,
                        day |-> lists.hall[board.selected].day],
           !.view = "edit"])

OpenDuplicate ==
    /\ SessionCard
    /\ BoardOnly([board EXCEPT
           !.draft = [movie |-> lists.hall[board.selected].movie,
                      day |-> lists.hall[board.selected].day,
                      mode |-> "duplicate", extras |-> {}],
           !.editing = None, !.view = "draft"])

UpdateEdit(m, d) ==
    /\ EditForm
    /\ m \in Options
    /\ m = board.editing.movie \/ d = board.editing.day
    /\ BoardOnly([board EXCEPT !.editing.movie = m, !.editing.day = d])

BackToSession == EditForm /\ BoardOnly([board EXCEPT !.view = "session"])

-----------------------------------------------------------------------------
(* Changes: what the page asks for.                                        *)

Kinds == {"create", "batch", "update", "cancel", "delete", "booking", "add", "firstUpload",
          "save", "upload", "unposter", "deactivate", "replan", "remove"}

\* What the continuation of a handler reads of the render it was called in.
Seen(kind, about) ==
    CASE kind = "batch"  -> Shown(board)
      [] kind = "delete" -> board.draft # None
      [] kind = "save"   -> HasPoster(about)
      [] kind \in {"deactivate", "remove"} -> board.pinned = about
      [] OTHER           -> FALSE

Request(kind, about) ==
    [Idle EXCEPT !.kind = kind, !.pc = "sent", !.about = about, !.seen = Seen(kind, about)]

Ask(kind, about) ==
    /\ act' = Request(kind, about)
    /\ UNCHANGED <<server, changes, lists, manual, refreshing, board, form, madeBy, tour>>

\* handleCreateDraftSession: the blocked days of a batch are sent as well.
SubmitDraft ==
    /\ DraftForm /\ ReadyDates # {}
    /\ Ask(IF OnTimeline /\ board.draft.extras = {} THEN "create" ELSE "batch", board.draft)

SubmitEdit == EditForm /\ board.editing.movie # None /\ Ask("update", board.editing)

CancelSelected ==
    /\ SessionCard /\ lists.hall[board.selected].status = "scheduled"
    /\ Ask("cancel", board.selected)

DeleteSelected == SessionCard /\ Ask("delete", board.selected)

\* Cancelling a ticket or an order in the attendance panel.
CanCancelBooking == Rendered /\ "bookings" \in tour /\ ~Busy /\ ~refreshing
CancelBooking    == CanCancelBooking /\ Ask("booking", None)

OnForm == Rendered /\ "movies" \in tour /\ ~Busy
\* The movies of the catalog and their buttons.
InCatalog(m) == OnForm /\ MovieListed(lists, m)

FormOnly(f) ==
    /\ form' = f
    /\ madeBy' = IF f.editing = form.editing /\ f # EmptyForm THEN madeBy ELSE None
    /\ UNCHANGED <<server, changes, lists, act, manual, refreshing, board, tour>>

EditMovie(m)  == InCatalog(m) /\ FormOnly([EmptyForm EXCEPT !.editing = m])
ResetForm     == OnForm /\ form # EmptyForm /\ FormOnly(EmptyForm)

\* The file input, and the checkbox that a displayed poster has.
ChoosePoster(p) ==
    /\ OnForm
    /\ p = "remove" => HasPoster(form.editing)
    /\ FormOnly([form EXCEPT !.poster = p])

SubmitForm ==
    /\ OnForm
    /\ IF form.editing # None THEN Ask("save", form.editing) ELSE Ask("add", None)

ChangeMovie(m, kind) ==
    /\ InCatalog(m)
    /\ kind = "deactivate" => Ready(lists, m)
    /\ kind = "replan" => ~Ready(lists, m)
    /\ Ask(kind, m)

-----------------------------------------------------------------------------
(* The backend's answers.  It may refuse anything; it grants what its own  *)
(* rules allow, and its answer may be lost, which the page takes for a     *)
(* refusal.                                                                *)

Spare == {i \in Ids : server.hall[i].status = "unused"}

Put(S, m) ==   \* the hall with sessions of m on the days S[i], i \in DOMAIN S
    [server EXCEPT !.hall = [i \in Ids |->
        IF i \in DOMAIN S THEN Session(m, S[i], "scheduled") ELSE @[i]]]

Accepted(got, rejected) == [act EXCEPT !.pc = "refresh", !.got = got, !.rejected = rejected]

GrantCreate ==
    /\ act.kind = "create" /\ Spare # {}
    /\ Ready(server, act.about.movie) /\ ~Taken(server, act.about.day, None)
    /\ LET i == CHOOSE j \in Spare : TRUE
       IN  /\ server' = Put([j \in {i} |-> act.about.day], act.about.movie)
           /\ act' \in {Idle, Accepted(i, {})}

\* create_sessions_batch decides on each date by itself.
GrantBatch ==
    /\ act.kind = "batch" /\ Ready(server, act.about.movie)
    /\ \E days \in SUBSET {d \in Targets(act.about) : ~Taken(server, d, None)} :
           /\ Cardinality(days) <= Cardinality(Spare)
           /\ LET place == CHOOSE f \in [days -> Spare] :
                               \A d, e \in days : f[d] = f[e] => d = e
                  at    == [i \in {place[d] : d \in days} |-> CHOOSE d \in days : place[d] = i]
              IN  /\ server' = Put(at, act.about.movie)
                  /\ act' \in {Idle, Accepted(IF days = {} THEN None ELSE place[Min(days)],
                                              Targets(act.about) \ days)}

GrantSession ==
    /\ act.kind \in {"update", "cancel", "delete"}
    /\ LET i == IF act.kind = "update" THEN act.about.session ELSE act.about
       IN  /\ Listed(server, i)
           /\ act.kind # "delete" => server.hall[i].status = "scheduled"
           /\ act.kind = "update" =>
                  /\ Ready(server, act.about.movie)
                         \/ act.about.movie = server.hall[i].movie
                  /\ ~Taken(server, act.about.day, i)
           /\ server' = [server EXCEPT !.hall[i] =
                  CASE act.kind = "update" -> Session(act.about.movie, act.about.day, "scheduled")
                    [] act.kind = "cancel" -> [@ EXCEPT !.status = "cancelled"]
                    [] OTHER -> Gone]
           /\ act' \in {Idle, Accepted(i, {})}

\* A movie that sessions refer to is not deleted, nor deactivated while one is to come.
MovieAfter(m) ==
    LET film == server.catalog[m]
    IN  CASE act.kind = "deactivate" /\ ~Scheduled(server, m) -> {[film EXCEPT !.status = "deactivated"]}
          [] act.kind = "replan" -> {[film EXCEPT !.status = "planned"]}
          [] act.kind = "remove" /\ (\A i \in Ids : Listed(server, i) => server.hall[i].movie # m)
                                 -> {[film EXCEPT !.status = "gone"]}
          [] act.kind \in {"upload", "firstUpload"} -> {[film EXCEPT !.poster = TRUE]}
          [] act.kind = "unposter" -> {[film EXCEPT !.poster = FALSE]}
          [] act.kind = "save" -> {film}
          [] OTHER -> {}

GrantMovie ==
    \E m \in Movies :
        /\ \/ /\ act.kind = "add" /\ server.catalog[m] = NoFilm
              /\ server' = [server EXCEPT !.catalog[m].status = "planned"]
           \/ /\ act.about = m /\ MovieListed(server, m)
              /\ \E film \in MovieAfter(m) : server' = [server EXCEPT !.catalog[m] = film]
        /\ act' \in {Idle, Accepted(m, {})}

GrantBooking == act.kind = "booking" /\ act' \in {Idle, Accepted(None, {})} /\ UNCHANGED server

OnRefusedForgets == form

\* A failed upload leaves the form on the movie that the submit has created.
OnRefused == IF act.kind = "firstUpload" THEN [form EXCEPT !.editing = act.about] ELSE form

Granted ==
    /\ act.pc = "sent" /\ changes < MaxChanges
    /\ changes' = changes + 1
    /\ GrantCreate \/ GrantBatch \/ GrantSession \/ GrantMovie \/ GrantBooking
    /\ form' = IF act' = Idle THEN OnRefused ELSE form
    /\ madeBy' = IF act.kind = "add" /\ act' # Idle THEN act'.got ELSE madeBy
    /\ refreshing' = (refreshing \/ act' # Idle)
    /\ UNCHANGED <<lists, manual, board, tour>>

RefusedNoFinally ==
    /\ act.pc = "sent"
    /\ act' = [act EXCEPT !.pc = "kept"] /\ form' = OnRefused
    /\ UNCHANGED <<server, changes, lists, manual, refreshing, board, madeBy, tour>>

Refused ==
    /\ act.pc = "sent"
    /\ act' = Idle /\ form' = OnRefused
    /\ UNCHANGED <<server, changes, lists, manual, refreshing, board, madeBy, tour>>

\* Another administrator creates, cancels or deletes sessions and movies.
Elsewhere ==
    /\ changes < MaxChanges
    /\ changes' = changes + 1
    /\ \/ \E i \in Spare, m \in Movies, d \in Days :
              /\ i = CHOOSE j \in Spare : TRUE
              /\ Ready(server, m) /\ ~Taken(server, d, None)
              /\ server' = Put([j \in {i} |-> d], m)
       \/ \E i \in Ids : Listed(server, i) /\ \E s \in {"cancelled", "gone"} :
              /\ s # server.hall[i].status
              /\ server' = [server EXCEPT !.hall[i] =
                     IF s = "gone" THEN Gone ELSE [@ EXCEPT !.status = s]]
       \/ \E m \in Movies :
              /\ MovieListed(server, m)
              /\ \A i \in Ids : Listed(server, i) => server.hall[i].movie # m
              /\ server' = [server EXCEPT !.catalog[m].status = "gone"]
    /\ UNCHANGED <<lists, act, manual, refreshing, board, form, madeBy, tour>>

-----------------------------------------------------------------------------
(* refreshDashboard, by the button or after a change.  Each one that ends  *)
(* clears isRefreshing, whichever began it; one that fails keeps the lists.*)

RefreshData ==
    /\ Rendered /\ ~Busy /\ ~refreshing /\ manual = NoRefresh
    /\ manual' = [NoRefresh EXCEPT !.pc = "refresh"] /\ refreshing' = TRUE
    /\ UNCHANGED <<server, changes, lists, act, board, form, madeBy, tour>>

ReadManual ==
    /\ manual.pc = "refresh"
    /\ manual' = [pc |-> "read", snap |-> server]
    /\ UNCHANGED <<server, changes, lists, act, refreshing, board, form, madeBy, tour>>

ManualEnds ==
    /\ manual.pc = "read"
    /\ lists' \in {lists, manual.snap}
    /\ manual' = NoRefresh /\ refreshing' = FALSE
    /\ UNCHANGED <<server, changes, act, board, form, madeBy, tour>>

ReadLists ==
    /\ act.pc = "refresh"
    /\ act' = [act EXCEPT !.pc = "read", !.snap = server]
    /\ UNCHANGED <<server, changes, lists, manual, refreshing, board, form, madeBy, tour>>

RefreshEnds ==
    /\ act.pc = "read"
    /\ lists' \in {lists, act.snap}
    /\ act' = [act EXCEPT !.pc = "done", !.snap = None] /\ refreshing' = FALSE
    /\ UNCHANGED <<server, changes, manual, board, form, madeBy, tour>>

-----------------------------------------------------------------------------
(* What the handlers do once their change has been made and the refresh    *)
(* has ended, well or not.                                                 *)

RewrittenInPlace(draft) == [draft EXCEPT !.extras = act.rejected \ {draft.day}]

\* A batch of which some dates were rejected: those stay selected, whichever
\* draft is on the board by now.
Rewritten(draft) ==
    IF draft.mode = "timeline" /\ draft.day \in act.rejected
    THEN [draft EXCEPT !.extras = act.rejected \ {draft.day}]
    ELSE [draft EXCEPT !.mode = "duplicate", !.extras = act.rejected]

\* A file is uploaded, and a poster removed, by a second request.
NextRequest ==
    CASE act.kind \in {"save", "add"} /\ form.poster = "file" ->
           Request(IF act.kind = "add" THEN "firstUpload" ELSE "upload", act.got)
      [] act.kind = "save" /\ form.poster = "remove" /\ act.seen ->
           Request("unposter", act.about)
      [] OTHER -> Idle

\* resetMovieForm.
FormIsDone ==
    \/ act.kind \in {"save", "add", "upload", "firstUpload", "unposter"} /\ NextRequest = Idle
    \/ act.kind = "remove" /\ form.editing = act.about

BoardAfter ==
    CASE act.kind = "create" ->
           [board EXCEPT !.draft = None, !.pinned = None, !.selected = act.got, !.view = "session"]
      [] act.kind = "batch" /\ act.rejected = {} /\ act.about.mode = "timeline" ->
           [board EXCEPT !.draft = None, !.pinned = None, !.selected = act.got, !.view = "session"]
      [] act.kind = "batch" /\ act.rejected = {} /\ act.about.mode = "duplicate" ->
           [board EXCEPT !.draft = None, !.view = IF act.seen THEN "session" ELSE "none"]
      [] act.kind = "batch" /\ act.rejected # {} ->
           [board EXCEPT !.draft = IF @ = None THEN None ELSE Rewritten(@), !.view = "draft"]
      [] act.kind = "update" ->
           [board EXCEPT !.editing = None, !.selected = act.got, !.view = "session"]
      [] act.kind = "cancel" -> [board EXCEPT !.view = "session"]
      [] act.kind = "delete" ->
           [board EXCEPT !.selected = None, !.editing = None,
                         !.view = IF act.seen THEN "draft" ELSE "none"]
      [] act.kind \in {"add", "firstUpload"} /\ NextRequest = Idle ->
           [board EXCEPT !.pinned = act.got]
      [] act.kind \in {"deactivate", "remove"} /\ act.seen ->
           [board EXCEPT !.pinned = None]
      [] OTHER -> board

Continue ==
    /\ act.pc = "done"
    /\ act' = NextRequest
    /\ board' = BoardAfter
    /\ IF FormIsDone THEN form' = EmptyForm /\ madeBy' = None ELSE UNCHANGED <<form, madeBy>>
    /\ UNCHANGED <<server, changes, lists, manual, refreshing, tour>>

-----------------------------------------------------------------------------
Answer == Granted \/ Refused \/ ReadLists \/ RefreshEnds \/ Continue

Next ==
    \/ Render
    \/ \E m \in Movies : Pin(m) \/ EditMovie(m)
    \/ \E d \in Days : SlotClick(d) \/ Drop(d) \/ ToggleDate(d)
    \/ \E m \in Movies \cup {None}, d \in Days : UpdateDraft(m, d) \/ UpdateEdit(m, d)
    \/ \E i \in Ids : SessionSelect(i)
    \/ ClearPlanning \/ DraftSelect \/ Discard
    \/ OpenEdit \/ OpenDuplicate \/ BackToSession
    \/ SubmitDraft \/ SubmitEdit \/ CancelSelected \/ DeleteSelected \/ CancelBooking
    \/ ResetForm \/ SubmitForm
    \/ \E p \in {"none", "file", "remove"} : ChoosePoster(p)
    \/ \E m \in Movies, kind \in {"deactivate", "replan", "remove"} : ChangeMovie(m, kind)
    \/ Elsewhere
    \/ RefreshData \/ ReadManual \/ ManualEnds
    \/ Answer

Spec == Init /\ [][Next]_vars

\* A request and a refresh are answered or fail.
FairSpec == Spec /\ WF_vars(Answer)

-----------------------------------------------------------------------------
(* Properties.                                                             *)

Drafts == [movie : Movies \cup {None}, day : Days, mode : {"timeline", "duplicate"},
           extras : SUBSET Days]
Edits  == [session : Ids, movie : Movies \cup {None}, day : Days]
\* No draft is mistaken for "no draft".
ASSUME DraftsAssumption == None \notin Drafts \cup Edits

Servers ==
    [hall : [Ids -> [movie : Movies \cup {None}, day : Days \cup {None},
                     status : {"unused", "scheduled", "cancelled", "gone"}]],
     catalog : [Movies -> [status : {"unused", "planned", "deactivated", "gone"},
                           poster : BOOLEAN]]]

\* Every variable has its type; a timeline draft does not name its own day twice.
TypeOK ==
    /\ server \in Servers /\ lists \in Servers
    /\ act.kind \in Kinds \cup {"none"}
    /\ act.pc \in {"idle", "sent", "refresh", "read", "done"}
    /\ act.about \in Drafts \cup Edits \cup Ids \cup Movies \cup {None}
    /\ act.got \in Ids \cup Movies \cup {None}
    /\ act.rejected \subseteq Days
    /\ manual.pc \in {"idle", "refresh", "read"}
    /\ refreshing \in BOOLEAN
    /\ board.draft \in Drafts \cup {None}
    /\ board.editing \in Edits \cup {None}
    /\ board.selected \in Ids \cup {None}
    /\ board.view \in {"none", "draft", "session", "edit"}
    /\ board.pinned \in Movies \cup {None}
    /\ OnTimeline => board.draft.day \notin board.draft.extras
    /\ form \in [editing : Movies \cup {None}, poster : {"none", "file", "remove"}]
    /\ madeBy \in Movies \cup {None}
    /\ tour \in Tours

\* The form with "save session changes" stands for the selected session, and
\* for one that the lists still have: no answer, refresh, click or drop that
\* comes between leaves it on another session, or on one that is gone.
EditFormSubject ==
    Rendered /\ board.view = "edit" =>
        /\ board.editing # None
        /\ board.editing.session = board.selected
        /\ Listed(lists, board.selected)

\* When a batch is granted in part, the dates that remain selected are the
\* rejected ones: none that was created is sent again, and none is forgotten,
\* although the draft may have been moved or placed anew while it was awaited.
PartialKeepsRejected ==
    [][/\ act.kind = "batch" /\ act.rejected # {} /\ Continue
       /\ board'.draft # None
       => Targets(board'.draft) = act.rejected]_vars

\* A movie form that was told of the movie it has created never asks for it to
\* be created again: when the poster's upload is refused, when its answer or the
\* refresh is lost, or when another administrator deletes the movie meanwhile,
\* submitting again saves that movie (handleMovieSubmit).  A create whose own
\* answer is lost tells the form nothing, and is not covered: the form stays
\* without a movie, and submitting it again creates a second one.
FormCreatesOnce == [][~Busy /\ act'.kind = "add" => madeBy = None]_vars

\* The page does not stay locked: pendingActionLabel is cleared again, whatever
\* the request, the refresh and a chain of requests come to.
BusyEnds == Busy ~> ~Busy
=============================================================================
