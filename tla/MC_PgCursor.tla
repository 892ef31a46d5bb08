---------------------------- MODULE MC_PgCursor ----------------------------
(***************************************************************************)
(* Instance of PgCursor for TLC: two cursors, one pooled connection and    *)
(* one lent connection, and four queries covering the four shapes of an   *)
(* answer: prepared with rows, prepared without rows (NoData), simple     *)
(* with rows, and simple without rows (INSERT: only CommandComplete).     *)
(***************************************************************************)
EXTENDS PgCursor

CONSTANTS k1, k2, c1, c2, q1, q2, q3, q4

MCCursors == {k1, k2}
MCConns == {c1, c2}
MCPoolConns == {c1}
MCQueries == {q1, q2, q3, q4}
(* The queries whose answer describe() accepts: all but the INSERT q4.     *)
MCQueriesAnswered == {q1, q2, q3}
MCPrepared == {q1, q2}
MCFallible == {c1}
MCNoFallible == {}

MCNames == {"id", "name"}

(* q1 names "id" twice (the later field wins) and has an unnamed field.    *)
D1 == << [name |-> "id", format |-> "Binary"],
         [name |-> NoName, format |-> "Text"],
         [name |-> "id", format |-> "Text"] >>
D2 == << [name |-> "name", format |-> "Text"] >>

MCDesc == (q1 :> D1) @@ (q2 :> NoRows) @@ (q3 :> D2) @@ (q4 :> NoRows)
MCRows == (q1 :> 2) @@ (q2 :> 0) @@ (q3 :> 1) @@ (q4 :> 0)

=============================================================================
