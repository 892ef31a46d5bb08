---------------------------- MODULE MC_PgRecord -----------------------------
(***************************************************************************)
(* Instance of PgRecord for the tuple (bool, i32, i64, f64, &str) of      *)
(* record.rs: the oids of bool, int4, int8, float8 and text, the fixed    *)
(* widths of the first four and a text of 0 to 2 bytes.  Payload bytes   *)
(* are 0 or 255, so a misread payload word is 0 or negative.              *)
(***************************************************************************)
EXTENDS PgRecord

MCOids == <<16, 23, 20, 701, 25>>
MCWidths == <<{1}, {4}, {8}, {8}, {0, 1, 2}>>
MCByteVals == {0, 255}
MCArgPrefixes == {<<>>, <<0, 0, 0, 1>>}
MCNullable == {5}
MCNoAltOids == <<{}, {}, {}, {}, {}>>
(* A float8 column where the tuple's i64 is expected. *)
MCAltOids == <<{}, {}, {701}, {}, {}>>
=============================================================================
