--------------------------- MODULE ScheduleBrowse ---------------------------
(***************************************************************************)
(* The public schedule page of the web client, and the movie catalogue a   *)
(* customer comes to it from.  The schedule's filters live in the address, *)
(* so every render reads them from there, and effects that run             *)
(* after a render rewrite the address (a day the board does not offer, a   *)
(* list day nobody plays on), move the pager and close the quick menu.     *)
(* Each rewrite starts another render: the page is a loop that has to come *)
(* to rest between two acts of the customer.  Loads of the schedule are    *)
(* not numbered: a late answer replaces a newer one.                       *)
(*                                                                         *)
(* One action is one event with the render that follows it; Effects is the *)
(* flush of the effects of the last render, before any further event.      *)
(***************************************************************************)
EXTENDS Integers, Sequences, FiniteSets

CONSTANTS
    Sessions,    \* what the server may list
    Movies, Genres, Days,
    MovieOf, DayOf, StartOf, OccupiedOf,   \* of each session
    GenresOf, StatusOf, TitleRank,   \* of each movie; movies of the same title are
                                     \*  ranked as the server lists them
    Queries,     \* what the customer types, beside nothing
    TitlesWith,  \* the movies whose title contains a query
    Schedules,   \* the answers of the server
    Links,       \* addresses of this page that other pages link to
    PageSize,    \* bound: 2 here, 6 in the page
    MaxLoads,    \* bound: loads of the schedule in flight at once
    None         \* an absent parameter, or a filter that admits all

ASSUME ShapeAssumption ==
    /\ MovieOf \in [Sessions -> Movies] /\ DayOf \in [Sessions -> Days]
    /\ Days \subseteq Nat /\ PageSize \in Nat \ {0} /\ MaxLoads \in Nat \ {0}
    /\ StartOf \in [Sessions -> Nat] /\ OccupiedOf \in [Sessions -> Nat]
    /\ GenresOf \in [Movies -> SUBSET Genres] /\ TitleRank \in [Movies -> Nat]
    /\ StatusOf \in [Movies -> {"active", "planned", "deactivated"}]
    /\ TitlesWith \in [Queries -> SUBSET Movies]
    /\ Schedules \subseteq SUBSET Sessions
    /\ None \notin Sessions \cup Movies \cup Genres \cup Queries
ASSUME FiniteAssumption == IsFiniteSet(Sessions) /\ IsFiniteSet(Movies)
\* Two movies have two ranks.
ASSUME RanksAssumption == \A m, n \in Movies : TitleRank[m] = TitleRank[n] => m = n
\* The hall is one: no two sessions start at the same time.
ASSUME OneHall == \A s, t \in Sessions : StartOf[s] = StartOf[t] => s = t

NoDay == 0   \* a day parameter that is absent
DateSorts == {"nearest", "farthest"}
SeatSorts == {"", "most_occupied", "least_occupied"}

Addresses ==
    [day : Days \cup {NoDay}, movieId : Movies \cup {None}, genre : Genres \cup {None},
     sessionId : Sessions \cup {None}, listDay : Days \cup {NoDay},
     query : Queries \cup {None}, dateSort : DateSorts, seatSort : SeatSorts]

\* The parameters of an address without a query string.
Defaults ==
    [day |-> NoDay, movieId |-> None, genre |-> None, sessionId |-> None,
     listDay |-> NoDay, query |-> None, dateSort |-> "nearest", seatSort |-> ""]

ASSUME LinkAssumption == Links \subseteq Addresses

VARIABLES
    place,     \* the page shown: "schedule" or "movies"
    url,       \* the parameters of the address, on the schedule
    pick,      \* the catalogue's filters, which it keeps in its own state
    items,     \* the sessions the page holds
    films,     \* the movies the page holds
    loads,     \* loads of the schedule in flight
    loading, failed,
    page,      \* the pager's state, and the key it was last reset for
    lastKey,
    active,    \* the session whose quick menu is open
    due,       \* a render has committed and its effects have not run
    turned,    \* history: the customer turned the page since the key changed
    asked      \* history: the session clicked, while the board has shown it

vars == <<place, url, pick, items, films, loads, loading, failed, page, lastKey, active, due,
          turned, asked>>

-----------------------------------------------------------------------------
(* What a render computes.                                                 *)

DayOptions(S) == {DayOf[s] : s \in S}
First(D) == CHOOSE d \in D : \A e \in D : d <= e

\* What the board's two menus offer: whatever the loaded sessions have.
MovieOptions == {MovieOf[s] : s \in items}
GenreOptions == UNION {GenresOf[m] : m \in MovieOptions}

BoardBase ==
    {s \in items : /\ url.movieId \in {None, MovieOf[s]}
                   /\ url.genre \in GenresOf[MovieOf[s]] \cup {None}}
BoardDays == DayOptions(BoardBase)
SelectedDay ==
    IF url.day \in BoardDays THEN url.day
    ELSE IF BoardDays = {} THEN NoDay ELSE First(BoardDays)
BoardItems == {s \in BoardBase : DayOf[s] = SelectedDay}

Matching(q, d) ==
    {s \in items : /\ d \in {NoDay, DayOf[s]}
                   /\ q = None \/ MovieOf[s] \in TitlesWith[q]}
ListDays == DayOptions(Matching(url.query, NoDay))

\* A finite set as a sequence, in a strict total order: each element comes after
\* as many others as are before it.
Sorted(S, Op(_, _)) ==
    [i \in 1..Cardinality(S) |-> CHOOSE s \in S : Cardinality({t \in S : Op(t, s)}) = i - 1]

\* Days first, then the seats taken, then the time; "farthest" turns days and
\* times round, and leaves the order of the seats.
Before(s, t) ==
    LET Earlier(x, y) == IF url.dateSort = "farthest" THEN x > y ELSE x < y
        Taken(x, y) == CASE url.seatSort = "most_occupied"  -> x > y
                         [] url.seatSort = "least_occupied" -> x < y
                         [] OTHER -> FALSE
    IN  \/ Earlier(DayOf[s], DayOf[t])
        \/ /\ DayOf[s] = DayOf[t]
           /\ \/ Taken(OccupiedOf[s], OccupiedOf[t])
              \/ /\ ~ Taken(OccupiedOf[t], OccupiedOf[s])
                 /\ Earlier(StartOf[s], StartOf[t])
ListItems == Sorted(Matching(url.query, url.listDay), Before)

\* The catalogue: movies now showing, then planned ones, then the rest, each
\* by title.
NoPick == [query |-> None, genre |-> None, status |-> None]
StatusPriority(m) ==
    CASE StatusOf[m] = "active" -> 0 [] StatusOf[m] = "planned" -> 1 [] OTHER -> 2
Filtered ==
    {m \in films : /\ pick.status \in {None, StatusOf[m]}
                   /\ pick.genre \in GenresOf[m] \cup {None}
                   /\ pick.query = None \/ m \in TitlesWith[pick.query]}
FilmItems ==
    Sorted(Filtered,
        LAMBDA m, n : \/ StatusPriority(m) < StatusPriority(n)
                      \/ /\ StatusPriority(m) = StatusPriority(n)
                         /\ TitleRank[m] < TitleRank[n])

\* The list under the pager, and the filters it was made with: the pager goes
\* back to its first page when any of them changes.
Listed == IF place = "schedule" THEN ListItems ELSE FilmItems
Key == IF place = "schedule"
       THEN <<url.dateSort, url.listDay, url.query, url.seatSort>>
       ELSE <<pick.genre, pick.query, pick.status>>
TotalPages(n) == IF n = 0 THEN 1 ELSE (n + PageSize - 1) \div PageSize
Clamp(p, total) == IF p < 1 THEN 1 ELSE IF p > total THEN total ELSE p
Total == TotalPages(Len(Listed))
\* Mutant: the render trusts the page its effects are about to correct.
SafePageUnclamped == IF Key # lastKey THEN 1 ELSE page
SafePage == IF Key # lastKey THEN 1 ELSE Clamp(page, Total)
PageItems ==
    SubSeq(Listed, (SafePage - 1) * PageSize + 1,
           IF SafePage * PageSize < Len(Listed) THEN SafePage * PageSize ELSE Len(Listed))
\* The numbered buttons, beside "previous" and "next".
PageButtons(p, total) ==
    (1..total) \cap
        (IF total <= 7 THEN 1..total
         ELSE {1, total, p - 1, p, p + 1}
              \cup (IF p <= 3 THEN 2..4 ELSE {})
              \cup (IF p >= total - 2 THEN (total - 3)..(total - 1) ELSE {}))

PageShown == place = "schedule" /\ ~ loading /\ ~ failed /\ items # {}
CatalogShown == place = "movies" /\ ~ loading /\ ~ failed /\ Filtered # {}
BoardShown == PageShown /\ BoardItems # {}
\* The session whose quick menu the board draws.
MenuItem == IF BoardShown /\ active \in BoardItems THEN active ELSE None

-----------------------------------------------------------------------------
(* The effects of a render.                                                *)

\* Mutant: the day effect offers the first day of the whole schedule.
WithAnyDay(u) ==
    [u EXCEPT !.day = IF items = {} THEN NoDay
                      ELSE IF u.day \in BoardDays THEN u.day ELSE First(DayOptions(items))]
\* The board's day effect: what it writes over the address, if it writes.
WithOfferedDay(u) ==
    [u EXCEPT !.day = IF BoardDays = {} THEN NoDay
                      ELSE IF u.day \in BoardDays THEN u.day ELSE First(BoardDays)]
\* The list's day effect.
WithOfferedListDay(u) ==
    [u EXCEPT !.listDay = IF u.listDay \in ListDays THEN u.listDay ELSE NoDay]
\* Both start from the address of the render: when both write, the second
\* rewrites the whole query string and the first one's day is lost.
Rewrite ==
    IF place = "movies" THEN url
    ELSE IF WithOfferedListDay(url) # url THEN WithOfferedListDay(url)
    ELSE WithOfferedDay(url)

SettledPage == IF Key # lastKey THEN 1 ELSE Clamp(page, Total)

\* Mutant: the board hides the menu of a session it no longer shows.
ClosedNever(s) == s
\* The board closes the menu of a session it no longer shows.
Closed(s) == IF s \in BoardItems THEN s ELSE None

-----------------------------------------------------------------------------
(* The render every event is followed by: a board that goes away takes its *)
(* menu with it.                                                           *)
Rendered(menu) ==
    /\ active' = IF BoardShown' THEN menu ELSE None
    /\ due' = TRUE
    /\ turned' = (turned /\ Key' = Key)

\* History: a click is forgotten once the board has not shown its session.
Remembered(s) == asked' = IF BoardShown' /\ s \in BoardItems' THEN s ELSE None

Init ==
    /\ place = "schedule" /\ url \in Links /\ pick = NoPick
    /\ items = {} /\ films = {} /\ loads = 1 /\ loading = TRUE /\ failed = FALSE
    /\ page = 1 /\ lastKey = Key
    /\ active = None /\ due = TRUE
    /\ turned = FALSE /\ asked = None

Effects ==
    /\ due
    /\ UNCHANGED <<place, pick, items, films, loads, loading, failed>>
    /\ url' = Rewrite
    /\ page' = SettledPage
    /\ lastKey' = Key
    /\ active' = IF BoardShown' THEN Closed(active) ELSE None
    /\ due' = (<<url', page', active'>> # <<url, page, active>>)
    /\ turned' = (turned /\ Key' = Key)
    /\ Remembered(asked)

-----------------------------------------------------------------------------
(* Loads.                                                                  *)

\* At mount, on the retry button, and again when the language changes.
Load ==
    /\ ~ due /\ loads < MaxLoads
    /\ loads' = loads + 1
    /\ loading' = TRUE
    /\ UNCHANGED <<place, url, pick, items, films, failed, page, lastKey>>
    /\ Rendered(active) /\ Remembered(asked)
LoadSchedule == place = "schedule" /\ Load
LoadMoviesCatalog == place = "movies" /\ Load

\* Whichever load answers, its answer is shown and the loading panel goes.
Loaded ==
    /\ ~ due /\ loads > 0
    /\ loads' = loads - 1
    /\ loading' = FALSE
    /\ \/ items' \in Schedules /\ films' = Movies /\ failed' = FALSE
       \/ items' = {} /\ films' = {} /\ failed' = TRUE
    /\ UNCHANGED <<place, url, pick, page, lastKey>>
    /\ Rendered(active) /\ Remembered(asked)

-----------------------------------------------------------------------------
(* The customer.                                                           *)

Navigate(u) ==
    /\ url' = u
    /\ UNCHANGED <<place, pick, items, films, loads, loading, failed, page, lastKey>>
    /\ Rendered(active) /\ Remembered(asked)

\* A link to this page while it is shown keeps the page and changes the address.
FollowLink == ~ due /\ place = "schedule" /\ \E u \in Links : Navigate(u)

\* A page that mounts starts afresh and loads; the answers that its
\* predecessor still waits for reach nobody.
Mount(p, u) ==
    /\ place' = p /\ url' = u /\ pick' = NoPick
    /\ items' = {} /\ films' = {} /\ loads' = 1 /\ loading' = TRUE /\ failed' = FALSE
    /\ page' = 1 /\ lastKey' = Key'
    /\ active' = None /\ due' = TRUE /\ turned' = FALSE /\ asked' = None

OpenMovies == ~ due /\ place = "schedule" /\ Mount("movies", Defaults)

\* By the menu, or by a card of the page shown whose movie has a session.
OpenSchedule ==
    /\ ~ due /\ place = "movies"
    /\ \/ Mount("schedule", Defaults)
       \/ /\ CatalogShown
          /\ \E m \in {PageItems[i] : i \in DOMAIN PageItems} :
                 /\ \E s \in items : MovieOf[s] = m
                 /\ Mount("schedule", [Defaults EXCEPT !.movieId = m])

ChangeCatalog ==
    /\ ~ due /\ place = "movies" /\ ~ loading
    /\ \/ \E q \in Queries \cup {None} : pick' = [pick EXCEPT !.query = q]
       \/ \E g \in (UNION {GenresOf[m] : m \in films}) \cup {None} :
              pick' = [pick EXCEPT !.genre = g]
       \/ \E t \in {"planned", "active", "deactivated", None} :
              pick' = [pick EXCEPT !.status = t]
       \/ pick' = NoPick
    /\ UNCHANGED <<place, url, items, films, loads, loading, failed, page, lastKey>>
    /\ Rendered(active) /\ Remembered(asked)

ChooseDay ==
    /\ ~ due /\ PageShown
    /\ \E d \in BoardDays : Navigate([url EXCEPT !.day = d, !.sessionId = None])

ChooseFilter ==
    /\ ~ due /\ PageShown
    /\ \/ \E m \in MovieOptions \cup {None} :
              Navigate([url EXCEPT !.movieId = m, !.sessionId = None])
       \/ \E g \in GenreOptions \cup {None} :
              Navigate([url EXCEPT !.genre = g, !.sessionId = None])

ResetBoardFilters ==
    /\ ~ due /\ PageShown
    /\ Navigate([url EXCEPT !.day = NoDay, !.genre = None, !.movieId = None,
                            !.sessionId = None])

ChangeList ==
    /\ ~ due /\ PageShown
    /\ \/ \E q \in Queries \cup {None} : Navigate([url EXCEPT !.query = q])
       \/ \E d \in ListDays \cup {NoDay} : Navigate([url EXCEPT !.listDay = d])
       \/ \E o \in DateSorts : Navigate([url EXCEPT !.dateSort = o])
       \/ \E o \in SeatSorts : Navigate([url EXCEPT !.seatSort = o])

ResetListFilters ==
    /\ ~ due /\ PageShown
    /\ Navigate([url EXCEPT !.listDay = NoDay, !.query = None,
                            !.dateSort = "nearest", !.seatSort = ""])

\* Mutant: "next" is not disabled on the last page.
TurnPageUnbounded ==
    /\ ~ due /\ (PageShown \/ CatalogShown) /\ Total > 1
    /\ page' \in {SafePage - 1, SafePage + 1} \cap (1..(Total + 1))
    /\ UNCHANGED <<place, url, pick, items, films, loads, loading, failed, lastKey,
                   active, asked>>
    /\ turned' = TRUE /\ due' = TRUE
TurnPage ==
    /\ ~ due /\ (PageShown \/ CatalogShown) /\ Total > 1
    /\ page' \in PageButtons(SafePage, Total)
                     \cup ({SafePage - 1, SafePage + 1} \cap (1..Total))
    /\ UNCHANGED <<place, url, pick, items, films, loads, loading, failed, lastKey,
                   active, asked>>
    /\ turned' = TRUE /\ due' = TRUE

ClickSession ==
    /\ ~ due /\ BoardShown
    /\ \E s \in BoardItems : active' = IF active = s THEN None ELSE s
    /\ asked' = active'
    /\ due' = TRUE
    /\ UNCHANGED <<place, url, pick, items, films, loads, loading, failed, page,
                   lastKey, turned>>

\* The menu's button, Escape, a press elsewhere, an anchor that scrolled away.
CloseMenu ==
    /\ ~ due /\ active # None
    /\ active' = None /\ asked' = None /\ due' = TRUE
    /\ UNCHANGED <<place, url, pick, items, films, loads, loading, failed, page,
                   lastKey, turned>>

Next ==
    \/ Effects \/ LoadSchedule \/ LoadMoviesCatalog \/ Loaded
    \/ OpenMovies \/ OpenSchedule \/ ChangeCatalog
    \/ FollowLink \/ ChooseDay \/ ChooseFilter \/ ResetBoardFilters
    \/ ChangeList \/ ResetListFilters \/ TurnPage \/ ClickSession \/ CloseMenu

\* React runs the effects of a render without being asked; nothing makes the
\* server answer or the customer act.
Spec == Init /\ [][Next]_vars /\ WF_vars(Effects)

-----------------------------------------------------------------------------
(* Properties.                                                             *)

TypeOK ==
    /\ place \in {"schedule", "movies"}
    /\ url \in Addresses
    /\ pick \in [query : Queries \cup {None}, genre : Genres \cup {None},
                 status : {"planned", "active", "deactivated", None}]
    /\ films \in {{}, Movies}
    /\ items \in SUBSET Sessions
    /\ loads \in 0..MaxLoads
    /\ {loading, failed, due, turned} \subseteq BOOLEAN
    /\ page \in 1..TotalPages(Cardinality(IF place = "schedule" THEN Sessions ELSE Movies))
    /\ Len(lastKey) = Len(Key)
    /\ {active, asked} \subseteq Sessions \cup {None}

\* A day in the address is the day the board draws and one it offers; a list
\* day in the address is one the list's day menu offers.
AddressAgrees ==
    /\ place = "schedule" => url.day = SelectedDay
    /\ place = "schedule" => url.listDay \in ListDays \cup {NoDay}

\* After every event the page comes to rest, although two effects rewrite the
\* whole query string from the same address and the second one undoes the
\* first: they do not rewrite each other's address for ever, and where they
\* stop, the address names the day the board draws and a day the list offers
\* (SchedulePage's two day effects, usePagination's two effects, the board's
\* closing effect).  Whether that is the day a link asked for is another
\* matter: before the first load answers no day is offered, and the day effect
\* erases the link's.
AddressSettles == due ~> (~ due /\ AddressAgrees)

\* The page shown is not empty while the list is not, even in a render that
\* the pager's effects have not caught up with, and it is the first page until
\* the customer turns it: a list that shrank and grew again, or new filters, do
\* not lead into the middle of the list (usePagination).
PageAsAsked ==
    /\ Listed # <<>> => PageItems # <<>>
    /\ SafePage # 1 => turned

\* The quick menu that is drawn was opened by a click on that session, and the
\* board has shown the session ever since: a session that left the board, by
\* filters, by a reload or by another day, does not bring its menu back when it
\* returns (ScheduleChronoboard's closing effect and its unmounting).
MenuAsAsked == MenuItem \in {None, asked}

=============================================================================
