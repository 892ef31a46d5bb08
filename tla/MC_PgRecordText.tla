-------------------------- MODULE MC_PgRecordText ---------------------------
(***************************************************************************)
(* Instance of PgRecordText for the tuple (bool, i32, i64, f64,           *)
(* Option<&str>): the scalars print as one or two plain characters, the   *)
(* text field is any text of up to two characters over "a", comma and    *)
(* quote, and another column's text is empty, one character or a"a.       *)
(***************************************************************************)
EXTENDS PgRecordText

Texts == UNION {[1..n -> {"a", ",", QQ}] : n \in 0..2}
Scalar == {<<"a">>, <<"a", "a">>}
MCValues == <<Scalar, Scalar, Scalar, Scalar, Texts>>
MCNullable == {5}
MCOtherTexts == {<<>>, <<"a">>, <<"a", QQ, "a">>}
=============================================================================
