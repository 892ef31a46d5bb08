----------------------------- MODULE MC_MySqlRow -----------------------------
(* Rows of up to two cells, column names a and b, one call per row.        *)
EXTENDS MySqlRow

MCNames == {"a", "b"}
==============================================================================
