------------------------------ MODULE MCBrowse ------------------------------
(***************************************************************************)
(* Four sessions of two movies on two days: the list has two pages of two, *)
(* the first movie plays on both days and the second on the second only.   *)
(* The catalogue lists a third movie, without sessions, on its second page. *)
(***************************************************************************)
EXTENDS ScheduleBrowse, TLC

CONSTANTS m1, m2, m3, g1, g2, q1, s1, s2, s3, s4

MCMovieOf == s1 :> m1 @@ s2 :> m1 @@ s3 :> m1 @@ s4 :> m2
MCDayOf == s1 :> 1 @@ s2 :> 1 @@ s3 :> 2 @@ s4 :> 2
MCStartOf == s1 :> 1 @@ s2 :> 2 @@ s3 :> 3 @@ s4 :> 4
MCOccupiedOf == s1 :> 0 @@ s2 :> 1 @@ s3 :> 1 @@ s4 :> 0
MCGenresOf == m1 :> {g1} @@ m2 :> {g1, g2} @@ m3 :> {g2}
MCStatusOf == m1 :> "active" @@ m2 :> "active" @@ m3 :> "planned"
MCTitleRank == m1 :> 2 @@ m2 :> 1 @@ m3 :> 3
MCTitlesWith == q1 :> {m1, m3}
MCSchedules == {{s1, s2, s3, s4}, {s3, s4}, {}}
\* The menu's link, a movie card's link, and the link of a session page.
MCLinks == {Defaults,
            [Defaults EXCEPT !.movieId = m2],
            [Defaults EXCEPT !.day = 2, !.movieId = m1, !.sessionId = s3],
            [Defaults EXCEPT !.day = 2, !.listDay = 1]}

=============================================================================
