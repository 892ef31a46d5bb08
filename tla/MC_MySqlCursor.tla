--------------------------- MODULE MC_MySqlCursor ---------------------------
(* Three cursors, a pool of one connection and one lent connection, a     *)
(* query run with and without arguments.                                   *)
EXTENDS MySqlCursor

MCCursors == {"k1", "k2", "k3"}
MCConns == {"c1", "c2"}
MCPoolConns == {"c1"}
MCArgs == {"NoArgs", "a1"}
=============================================================================
