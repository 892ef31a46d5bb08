---------------------------- MODULE PgRecordText ----------------------------
(***************************************************************************)
(* The text form of PgRecordDecoder (src/sqlx-core/src/postgres/types/    *)
(* record.rs): PgRecordDecoder::new on PgValue::Text strips the outer     *)
(* parentheses, and each of the tuple's five decode() calls scans the     *)
(* text up to the field's end, hands a slice of it to T::decode and       *)
(* advances past the comma.                                                 *)
(*                                                                         *)
(* A text is a sequence of one-character strings over a small alphabet:   *)
(* "a" stands for any character with no meaning to the record syntax, and *)
(* "," QQ "(" ")" for themselves.  The text comes from a Postgres         *)
(* server's record_out of the tuple (spec 4.6), which quotes a field that *)
(* is empty or holds a comma or a quote and doubles the quotes inside it; *)
(* a NULL field is empty.  The decoder does not check the column's type   *)
(* (the TODO of lines 117-119), so it may also be given the text of a     *)
(* column of another type (OtherTexts).                                    *)
(***************************************************************************)
EXTENDS Integers, Sequences, SequencesExt

CONSTANTS
  N,          \* the arity of the tuple
  Values,     \* Values[i]: the texts a non-NULL field i can have
  Nullable,   \* the fields whose target type is an Option
  OtherTexts, \* texts of columns of another type decoded as the tuple
  Null        \* a NULL field

QQ == "\""
NUL == "NUL"     \* prev_ch's initial '\0'

ASSUME Nullable \subseteq 1..N

VARIABLES
  phase,    \* "new", "decode", "done", "failed" or "panicked"
  origin,   \* "record": a record_out text; "other": another column's text
  input,    \* the tuple the server sent
  s,        \* the decoder's PgValue::Text slice
  fi,       \* the decode() call the tuple's Decode is at
  out       \* the values T::decode received (a slice, or Null)

vars == <<phase, origin, input, s, fi, out>>

-----------------------------------------------------------------------------
(* The server's record_out of tuple t.                                     *)
NeedsQuotes(v) == v = <<>> \/ \E i \in DOMAIN v : v[i] \in {",", QQ}
Escaped(v) == FlattenSeq([i \in DOMAIN v |-> IF v[i] = QQ THEN <<QQ, QQ>> ELSE <<v[i]>>])
FieldText(v) ==
  CASE v = Null       -> <<>>
    [] NeedsQuotes(v) -> <<QQ>> \o Escaped(v) \o <<QQ>>
    [] OTHER          -> v
RecordOut(t) ==
  <<"(">> \o FlattenSeq([i \in 1..N |-> IF i = 1 THEN FieldText(t[1])
                                        ELSE <<",">> \o FieldText(t[i])])
          \o <<")">>

RECURSIVE TuplesFrom(_)
TuplesFrom(i) ==
  IF i > N THEN {<<>>}
  ELSE {<<v>> \o t : v \in Values[i] \cup {Null}, t \in TuplesFrom(i + 1)}

(* &s[a..b] with 0-based a and exclusive b; defined only for a <= b <= len. *)
Slice(str, a, b) == SubSeq(str, a + 1, b)

-----------------------------------------------------------------------------
(***************************************************************************)
(* The scan of lines 136-185 over s from 0-based position pos, with the    *)
(* loop's locals in st.  The result is the field's end index (idx, or     *)
(* None for NULL) and is_quoted.  The arms are tried in the code's      *)
(* order; every character but a breaking comma updates prev_ch and        *)
(* prev_index.  none is the None of the result; idx its Some.             *)
(***************************************************************************)
(* Mutant: the NULL arm of line 146 is missing, so a leading comma ends   *)
(* an empty field.                                                          *)
RECURSIVE ScanNoNullArm(_, _, _)
ScanNoNullArm(str, pos, st) ==
  IF pos >= Len(str)
  THEN [none |-> st.prev = NUL, idx |-> st.prevIdx, isq |-> st.isq]
  ELSE
    LET ch   == str[pos + 1]
        goOn(inq, isq) ==
          ScanNoNullArm(str, pos + 1, [inq |-> inq, isq |-> isq, prev |-> ch, prevIdx |-> pos])
    IN CASE ch = "," /\ ~st.inq       -> [none |-> FALSE, idx |-> pos, isq |-> st.isq]
         [] ch = QQ /\ st.inq         -> goOn(FALSE, st.isq)
         [] ch = QQ /\ st.prev = QQ   -> goOn(FALSE, st.isq)
         [] ch = QQ                   -> goOn(TRUE, TRUE)
         [] OTHER                     -> goOn(st.inq, st.isq)

RECURSIVE Scan(_, _, _)
Scan(str, pos, st) ==
  IF pos >= Len(str)
  THEN [none |-> st.prev = NUL, idx |-> st.prevIdx, isq |-> st.isq]
  ELSE
    LET ch   == str[pos + 1]
        goOn(inq, isq) ==
          Scan(str, pos + 1, [inq |-> inq, isq |-> isq, prev |-> ch, prevIdx |-> pos])
    IN CASE ch = "," /\ st.prev = NUL -> [none |-> TRUE, idx |-> 0, isq |-> st.isq]
         [] ch = "," /\ ~st.inq       -> [none |-> FALSE, idx |-> pos, isq |-> st.isq]
         [] ch = QQ /\ st.inq         -> goOn(FALSE, st.isq)
         [] ch = QQ /\ st.prev = QQ   -> goOn(FALSE, st.isq)
         [] ch = QQ                   -> goOn(TRUE, TRUE)
         [] OTHER                     -> goOn(st.inq, st.isq)

ScanStart == [inq |-> FALSE, isq |-> FALSE, prev |-> NUL, prevIdx |-> 0]

(* Lines 187-195: the slice handed to T::decode.                           *)
FieldValue(str, r) ==
  IF r.none THEN Null
  ELSE IF r.isq THEN Slice(Slice(str, 0, r.idx), 1, r.idx)
  ELSE Slice(str, 0, r.idx)

(* Line 191: &s[1..s.len()] of an empty slice panics.                      *)
SlicePanics(r) == ~r.none /\ r.isq /\ r.idx < 1

(* Mutant: the comma and the character after it are skipped.               *)
NextStartPastTwo(r) == IF r.none THEN 1 ELSE r.idx + 2

(* Line 198: where s starts after the field.                               *)
NextStart(r) == IF r.none THEN 1 ELSE r.idx + 1

-----------------------------------------------------------------------------
Init ==
  /\ \/ /\ origin = "record"
        /\ input \in TuplesFrom(1)
        /\ s = RecordOut(input)
     \/ /\ origin = "other"
        /\ input = Null
        /\ s \in OtherTexts
  /\ phase = "new"
  /\ fi = 1
  /\ out = <<>>

(* PgRecordDecoder::new, lines 102-105: s = &s[1..s.len() - 1], which     *)
(* panics for a text shorter than two characters.                          *)
TextNew ==
  /\ phase = "new"
  /\ IF Len(s) < 2
     THEN /\ phase' = "panicked"
          /\ UNCHANGED s
     ELSE /\ s' = Slice(s, 1, Len(s) - 1)
          /\ phase' = "decode"
  /\ UNCHANGED <<origin, input, fi, out>>

(***************************************************************************)
(* PgRecordDecoder::decode, lines 135-201, for the fi-th of the five      *)
(* decode()? calls (lines 214-218): scan, T::decode the slice (NULL into  *)
(* a non-Option target is an error, line 197), then s = &s[idx + 1..],    *)
(* which panics when that start is past the end of s.                      *)
(***************************************************************************)
TextDecodeField ==
  LET r == Scan(s, 0, ScanStart)
      v == FieldValue(s, r)
  IN /\ phase = "decode"
     /\ fi <= N
     /\ CASE SlicePanics(r) ->
               /\ phase' = "panicked"
               /\ UNCHANGED <<s, fi, out>>
          [] v = Null /\ fi \notin Nullable ->
               /\ phase' = "failed"
               /\ UNCHANGED <<s, fi, out>>
          [] NextStart(r) > Len(s) ->
               /\ phase' = "panicked"
               /\ UNCHANGED <<s, fi, out>>
          [] OTHER ->
               /\ out' = Append(out, v)
               /\ s' = Slice(s, NextStart(r), Len(s))
               /\ fi' = fi + 1
               /\ UNCHANGED phase
     /\ UNCHANGED <<origin, input>>

(* Line 220: Ok(tuple).                                                    *)
TextDone ==
  /\ phase = "decode"
  /\ fi > N
  /\ phase' = "done"
  /\ UNCHANGED <<origin, input, s, fi, out>>

Terminated ==
  /\ phase \in {"done", "failed", "panicked"}
  /\ UNCHANGED vars

Next == TextNew \/ TextDecodeField \/ TextDone \/ Terminated

Spec == Init /\ [][Next]_vars

-----------------------------------------------------------------------------
(* Properties                                                              *)

(***************************************************************************)
(* Every field before the last one of a server's record text reaches      *)
(* T::decode exactly as it was sent: the scan stops at the comma after    *)
(* it and line 198 skips just that comma.  For the tuple (bool, i32, i64, *)
(* f64, &str) these are the four scalar fields.                            *)
(***************************************************************************)
LeadingFieldsDecoded ==
  origin = "record" => \A i \in DOMAIN out : i < N => out[i] = input[i]

(***************************************************************************)
(* A NULL sent in a field whose target is not an Option never becomes a   *)
(* value: the comma-first arm of line 146 yields None and T::decode(None) *)
(* fails (spec 4.5: unexpected null).                                      *)
(***************************************************************************)
NullNeverDecodedAsValue ==
  origin = "record" /\ phase = "done" =>
    \A i \in 1..N : input[i] = Null => i \in Nullable

(***************************************************************************)
(* Spec 4.6: decoding the text of any record the server produces yields   *)
(* the values sent: quoted fields unquoted, "" read as one quote, NULL as *)
(* NULL.                                                                    *)
(***************************************************************************)
TextRoundTrip ==
  origin = "record" /\ phase = "done" => out = input

(***************************************************************************)
(* Spec 4.5, 4.6 and 7: PgRecordDecoder never panics: malformed input and *)
(* a column of another type are decode errors, and a record the server    *)
(* produced (a NULL last field included) decodes.                         *)
(***************************************************************************)
TextNoPanic == phase # "panicked"
=============================================================================
