------------------------------ MODULE MySqlRow ------------------------------
(***************************************************************************)
(* The MySQL row and value model (src/sqlx-core/src/mysql/row.rs): a row  *)
(* is a row packet's cells, the column map shared by the cursor's rows    *)
(* (name -> 0-based position) and the cursor's binary flag.  get_raw       *)
(* resolves a column reference, takes the cell and tags it Binary or Text *)
(* (Text only for valid UTF-8); MySqlValue::try_from turns an absent value *)
(* into the UnexpectedNull decode error of a non-Option target.            *)
(*                                                                         *)
(* A cell's bytes are abstracted to Utf8 (valid UTF-8) or NotUtf8; a NULL  *)
(* cell is Null.  The caller asks for a column by position or by name and *)
(* decodes it as the raw Option, as a non-Option T (try_from) or as an     *)
(* Option<T>.                                                              *)
(***************************************************************************)
EXTENDS Integers, Sequences, Functions

CONSTANTS
  Names,      \* column names of the result set, and names asked that it lacks
  MaxCells,   \* the widest row
  MaxCalls,   \* bound on the get_raw calls of one row
  Null, Utf8, NotUtf8

Cell == {Null, Utf8, NotUtf8}
Positions == 0..MaxCells
(* A column reference: the ColumnIndex impls for usize and &str.          *)
Refs == [by : {"position"}, at : Positions] \cup [by : {"name"}, at : Names]
Targets == {"raw", "value", "option"}

(* The column maps a cursor can build for n columns: each name at one     *)
(* position, no two at the same one.                                        *)
ColumnMaps(n) ==
  UNION {{f \in [D -> 0..(n - 1)] : IsInjective(f)} : D \in SUBSET Names}

Rows ==
  UNION {{[cells |-> cs, columns |-> m, binary |-> b] :
            cs \in [1..n -> Cell], m \in ColumnMaps(n), b \in BOOLEAN} :
         n \in 0..MaxCells}

VARIABLES
  row,   \* the MySqlRow
  log    \* the calls made on it and their results

vars == <<row, log>>

Ok(v) == [ok |-> TRUE, val |-> v]
Err(e) == [ok |-> FALSE, err |-> e]
None == [tag |-> "None"]
Binary(buf) == [tag |-> "Binary", buf |-> buf]
Text(buf) == [tag |-> "Text", buf |-> buf]

-----------------------------------------------------------------------------
(***************************************************************************)
(* ColumnIndex::resolve (crate::row, outside this tree): a position must  *)
(* be below len(); a name is looked up in the shared column map.           *)
(***************************************************************************)
Resolve(r, ref) ==
  CASE ref.by = "position" /\ ref.at < Len(r.cells) -> Ok(ref.at)
    [] ref.by = "position"                         -> Err("IndexOutOfBounds")
    [] ref.at \in DOMAIN r.columns                 -> Ok(r.columns[ref.at])
    [] OTHER                                       -> Err("ColumnNotFound")

(* protocol::Row::get: the cell's bytes, None for NULL.                    *)
RowGet(r, i) == r.cells[i + 1]

(* Mutant: the text branch keeps the bytes without from_utf8.              *)
GetRawNoUtf8Check(r, ref) ==
  LET idx == Resolve(r, ref)
      buf == RowGet(r, idx.val)
  IN CASE ~idx.ok    -> idx
       [] buf = Null -> Ok(None)
       [] r.binary   -> Ok(Binary(buf))
       [] OTHER      -> Ok(Text(buf))

(***************************************************************************)
(* get_raw, lines 43-57: resolve()? (47), row.get (48), then map over the *)
(* Option: Binary(buf) or Text(from_utf8(buf)?) by the binary flag        *)
(* (50-54); transpose and map the Utf8Error to Error::Decode (55-56).     *)
(***************************************************************************)
GetRaw(r, ref) ==
  LET idx == Resolve(r, ref)
      buf == RowGet(r, idx.val)
  IN CASE ~idx.ok           -> idx
       [] buf = Null        -> Ok(None)
       [] r.binary          -> Ok(Binary(buf))
       [] buf = NotUtf8     -> Err("Decode")
       [] OTHER             -> Ok(Text(buf))

(* try_from, lines 18-28: Some(v) is Ok(v), None the UnexpectedNull error. *)
TryFrom(v) == IF v = None THEN Err("UnexpectedNull") ELSE Ok(v)

(* What the caller gets: the raw result, try_from of it for a non-Option  *)
(* T, or the raw Option itself for Option<T> (Decode of Option<T>).       *)
Get(r, ref, target) ==
  LET raw == GetRaw(r, ref)
  IN IF target = "value" /\ raw.ok THEN TryFrom(raw.val) ELSE raw

-----------------------------------------------------------------------------
Init ==
  /\ row \in Rows
  /\ log = <<>>

Call(ref, target) ==
  /\ Len(log) < MaxCalls
  /\ log' = Append(log, [ref |-> ref, target |-> target, out |-> Get(row, ref, target)])
  /\ UNCHANGED row

Next == \E ref \in Refs, target \in Targets : Call(ref, target)

Spec == Init /\ [][Next]_vars

-----------------------------------------------------------------------------
(* Properties                                                              *)

(***************************************************************************)
(* The outcome spec 4.5 gives for reference ref of row r as target:       *)
(* "column index out of range" and "no such column name" for a bad       *)
(* reference; for a NULL cell an absent value (a distinct success), the   *)
(* unexpected-null decode failure only for a non-optional target; for a  *)
(* present cell its bytes with the binary/text discriminant of the row,   *)
(* where text must be text (a str).                                        *)
(***************************************************************************)
SpecOutcome(r, ref, target) ==
  LET n    == Len(r.cells)
      pos  == IF ref.by = "position" THEN ref.at ELSE r.columns[ref.at]
      cell == r.cells[pos + 1]
  IN IF ref.by = "position" /\ ref.at >= n THEN Err("IndexOutOfBounds")
     ELSE IF ref.by = "name" /\ ref.at \notin DOMAIN r.columns THEN Err("ColumnNotFound")
     ELSE IF cell = Null
          THEN IF target = "value" THEN Err("UnexpectedNull") ELSE Ok(None)
     ELSE IF r.binary THEN Ok(Binary(cell))
     ELSE IF cell = Utf8 THEN Ok(Text(cell))
     ELSE Err("Decode")

(***************************************************************************)
(* Every get_raw/try_from call on a MySqlRow, whether by position or by   *)
(* name through the shared column map, binary or text, gives the outcome  *)
(* of spec 4.5.                                                            *)
(***************************************************************************)
GetRawAsSpecified ==
  \A i \in DOMAIN log : log[i].out = SpecOutcome(row, log[i].ref, log[i].target)
=============================================================================
