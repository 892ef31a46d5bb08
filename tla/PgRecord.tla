------------------------------ MODULE PgRecord ------------------------------
(***************************************************************************)
(* The binary form of the Postgres record codec of sqlx-core               *)
(* (src/sqlx-core/src/postgres/types/record.rs): PgRecordEncoder, which    *)
(* writes a tuple (bool, i32, i64, f64, &str) into the argument buffer,    *)
(* and PgRecordDecoder over PgValue::Binary, which reads a record column   *)
(* back into the tuple.                                                    *)
(*                                                                         *)
(* Bytes are kept as bytes (0..255) and every 4-byte word is written and   *)
(* read big-endian, so a misframed read sees the bytes it really would.   *)
(* The payload of a field is abstracted to a run of one byte value of the *)
(* field type's width (Widths); what T::encode and T::decode do inside a  *)
(* field is outside this file and is left out: the decoder hands on the   *)
(* slice T::decode would receive.                                          *)
(*                                                                         *)
(* A record reaches the decoder from one of two producers: sqlx's own     *)
(* encoder (origin "client"), or a Postgres server's record_send of a     *)
(* record of any arity with NULL fields (origin "server"); with Malformed *)
(* the server record may also be cut short (origin "truncated").          *)
(***************************************************************************)
EXTENDS Integers, Sequences, SequencesExt

CONSTANTS
  Oids,         \* Oids[i]: the type oid written for the i-th tuple field
  Widths,       \* Widths[i]: the encoded sizes of a value of field i
  ByteVals,     \* the byte values a payload is made of
  ArgPrefixes,     \* bytes already in the argument buffer before the record
  ServerArity,  \* the numbers of fields of records a server may send
  Nullable,     \* the fields whose target type is an Option (T::decode(None) is Ok)
  AltOids,      \* AltOids[i]: oids of other types a server may send where field i is expected
  Null,         \* a NULL field
  Malformed     \* a record may reach the decoder cut short

N == Len(Oids)

ASSUME /\ N = Len(Widths)
       /\ Nullable \subseteq 1..N
       /\ Len(AltOids) = N
       /\ Malformed \in BOOLEAN
       /\ \A a \in ServerArity : a \in Nat

VARIABLES
  phase,    \* where encoder and decoder are
  origin,   \* who produced the bytes the decoder reads
  input,    \* the tuple encoded (client) or the record sent (server)
  buf,      \* the encoder's Vec<u8>
  beg,      \* PgRecordEncoder.beg
  num,      \* PgRecordEncoder.num
  fi,       \* the tuple field the encoder or decoder is at
  dec,      \* the decoder's PgValue::Binary slice
  out       \* what the decoder has handed to T::decode so far

vars == <<phase, origin, input, buf, beg, num, fi, dec, out>>

-----------------------------------------------------------------------------
(* to_be_bytes and Buf::get_i32 of crate::io.  A 32-bit word is held as  *)
(* the i32 of the same bits (TLC's integers are 32-bit), so u32 -1 and the *)
(* NULL length -1 are the same four 255 bytes.                              *)
BE32(n) == << (n \div 16777216) % 256, (n \div 65536) % 256,
              (n \div 256) % 256, n % 256 >>
I32(bs) == ((((IF bs[1] >= 128 THEN bs[1] - 256 ELSE bs[1]) * 256 + bs[2]) * 256
             + bs[3]) * 256) + bs[4]

(* Drop the first n bytes (buf = &buf[n..]).                               *)
Drop(s, n) == SubSeq(s, n + 1, Len(s))

(* buf[at..at + 4].copy_from_slice(bs), at 0-based.                        *)
Patch(s, at, bs) ==
  [j \in DOMAIN s |-> IF at < j /\ j <= at + 4 THEN bs[j - at] ELSE s[j]]

ValuesOf(i) == {[j \in 1..w |-> b] : w \in Widths[i], b \in ByteVals}

RECURSIVE TuplesFrom(_)
TuplesFrom(i) ==
  IF i > N THEN {<<>>}
  ELSE {<<v>> \o t : v \in ValuesOf(i), t \in TuplesFrom(i + 1)}
Tuples == TuplesFrom(1)

(* A field of a server record: its oid and its value or NULL; a field     *)
(* past the tuple's arity is of the last field's type.  Its oid is that   *)
(* of the type, or one of AltOids: a column of another type whose values  *)
(* have the same width (a float8 where an int8 is expected).               *)
FieldType(i) == IF i <= N THEN i ELSE N
FieldOids(i) == {Oids[FieldType(i)]} \cup AltOids[FieldType(i)]
RECURSIVE RecordsFrom(_, _)
RecordsFrom(i, a) ==
  IF i > a THEN {<<>>}
  ELSE {<<[oid |-> o, val |-> v]>> \o t :
          o \in FieldOids(i), v \in ValuesOf(FieldType(i)) \cup {Null},
          t \in RecordsFrom(i + 1, a)}
Records == UNION {RecordsFrom(1, a) : a \in ServerArity}

(* The server's binary record (spec 6): count, then per field the oid,    *)
(* the signed length (-1 for NULL) and the payload.                        *)
FieldBytes(f) ==
  IF f.val = Null THEN BE32(f.oid) \o BE32(-1)
  ELSE BE32(f.oid) \o BE32(Len(f.val)) \o f.val
RecordSend(r) == BE32(Len(r)) \o FlattenSeq([i \in DOMAIN r |-> FieldBytes(r[i])])

(* The record the encoder should produce for tuple t (spec 4.6).           *)
ClientRecord(t) == [i \in DOMAIN t |-> [oid |-> Oids[i], val |-> t[i]]]

-----------------------------------------------------------------------------
Init ==
  /\ \/ /\ origin = "client"
        /\ input \in Tuples
        /\ buf \in ArgPrefixes
        /\ phase = "new"
        /\ dec = <<>>
     \/ /\ origin = "server"
        /\ input \in Records
        /\ buf = <<>>
        /\ phase = "decode_new"
        /\ dec = RecordSend(input)
     \/ /\ Malformed
        /\ origin = "truncated"
        /\ input \in Records
        /\ buf = <<>>
        /\ phase = "decode_new"
        /\ \E n \in 0..(Len(RecordSend(input)) - 1) : dec = SubSeq(RecordSend(input), 1, n)
  /\ beg = 0
  /\ num = 0
  /\ fi = 1
  /\ out = <<>>

(* PgRecordEncoder::new, lines 26-35: reserve the count word.              *)
EncNew ==
  /\ phase = "new"
  /\ buf' = buf \o BE32(0)
  /\ beg' = Len(buf) + 4
  /\ num' = 0
  /\ phase' = "encode"
  /\ UNCHANGED <<origin, input, fi, dec, out>>

(***************************************************************************)
(* PgRecordEncoder::encode, lines 42-66, called by Encode for the tuple   *)
(* (lines 71-76) once per field in order: the oid, a zero length word,    *)
(* the value, then the length word back-patched with the value's size as  *)
(* u32 (sizes here are far below 2^31), and the count incremented.          *)
(***************************************************************************)
EncodeField ==
  LET withOid == buf \o BE32(Oids[fi]) \o BE32(0)
      start   == Len(withOid)
      written == withOid \o input[fi]
      size    == Len(written) - start
  IN /\ phase = "encode"
     /\ fi <= N
     /\ buf' = Patch(written, start - 4, BE32(size))
     /\ num' = num + 1
     /\ fi' = fi + 1
     /\ UNCHANGED <<phase, origin, input, beg, dec, out>>

(* Mutant: the count is back-patched at the start of the buffer.            *)
EncFinishAtZero ==
  LET done == Patch(buf, 0, BE32(num))
  IN /\ phase = "encode"
     /\ fi > N
     /\ buf' = done
     /\ dec' = Drop(done, beg - 4)
     /\ fi' = 1
     /\ phase' = "decode_new"
     /\ UNCHANGED <<origin, input, beg, num, out>>

(* PgRecordEncoder::finish, lines 37-40, the last call of line 77; the     *)
(* record's bytes (after the prefix) are the argument value the server    *)
(* stores and later returns in a DataRow.                                   *)
EncFinish ==
  LET done == Patch(buf, beg - 4, BE32(num))
  IN /\ phase = "encode"
     /\ fi > N
     /\ buf' = done
     /\ dec' = Drop(done, beg - 4)
     /\ fi' = 1
     /\ phase' = "decode_new"
     /\ UNCHANGED <<origin, input, beg, num, out>>

(* PgRecordDecoder::new, lines 96-100, from the tuple's decode (line 212): *)
(* the count word is read and ignored.                                      *)
DecNew ==
  /\ phase = "decode_new"
  /\ IF Len(dec) < 4
     THEN /\ phase' = "failed"
          /\ UNCHANGED dec
     ELSE /\ dec' = Drop(dec, 4)
          /\ phase' = "decode"
  /\ UNCHANGED <<origin, input, buf, beg, num, fi, out>>

(* Line 123: a negative length is NULL.                                     *)
(* Mutant: a zero length also taken for NULL (the empty text).             *)
IsNullLenNonPositive(len) == len <= 0
IsNullLen(len) == len < 0

(***************************************************************************)
(* PgRecordDecoder::decode, lines 116-132, for the fi-th of the five      *)
(* decoder.decode()? calls (lines 214-218): read the oid and the signed   *)
(* length; a negative length is NULL (T::decode(None), an error unless the *)
(* target is an Option); otherwise slice len bytes, which panics when     *)
(* fewer remain, and advance past them.                                    *)
(***************************************************************************)
DecodeField ==
  LET len  == I32(SubSeq(dec, 5, 8))
      rest == Drop(dec, 8)
  IN /\ phase = "decode"
     /\ fi <= N
     /\ CASE Len(dec) < 8 ->
               /\ phase' = "failed"
               /\ UNCHANGED <<fi, dec, out>>
          [] IsNullLen(len) /\ fi \notin Nullable ->
               /\ phase' = "failed"
               /\ UNCHANGED <<fi, dec, out>>
          [] IsNullLen(len) ->
               /\ out' = Append(out, Null)
               /\ dec' = rest
               /\ fi' = fi + 1
               /\ UNCHANGED phase
          [] len > Len(rest) ->
               /\ phase' = "panicked"
               /\ UNCHANGED <<fi, dec, out>>
          [] OTHER ->
               /\ out' = Append(out, SubSeq(rest, 1, len))
               /\ dec' = Drop(rest, len)
               /\ fi' = fi + 1
               /\ UNCHANGED phase
     /\ UNCHANGED <<origin, input, buf, beg, num>>

(* Mutant: decoding also stops, Ok, once the buffer is used up.            *)
DecDoneAtEnd ==
  /\ phase = "decode"
  /\ fi > N \/ dec = <<>>
  /\ phase' = "done"
  /\ UNCHANGED <<origin, input, buf, beg, num, fi, dec, out>>

(* Line 220: all five fields decoded, Ok(tuple).                           *)
DecDone ==
  /\ phase = "decode"
  /\ fi > N
  /\ phase' = "done"
  /\ UNCHANGED <<origin, input, buf, beg, num, fi, dec, out>>

Terminated ==
  /\ phase \in {"done", "failed", "panicked"}
  /\ UNCHANGED vars

Next ==
  \/ EncNew \/ EncodeField \/ EncFinish
  \/ DecNew \/ DecodeField \/ DecDone
  \/ Terminated

Spec == Init /\ [][Next]_vars /\ WF_vars(Next)

-----------------------------------------------------------------------------
(* Properties                                                              *)

Ended == {"done", "failed", "panicked"}

(* A server record of the tuple's shape: its arity and, field by field,  *)
(* the oid of the tuple's type.                                            *)
OfTupleShape(r) == Len(r) = N /\ \A i \in 1..N : r[i].oid = Oids[i]

(* A record the decoder must accept: the encoder's, or a server record of  *)
(* the tuple's shape whose NULLs are in Option fields.                     *)
WellFormed ==
  \/ origin = "client"
  \/ /\ origin = "server"
     /\ OfTupleShape(input)
     /\ \A i \in 1..N : input[i].val = Null => i \in Nullable

Expected ==
  IF origin = "client" THEN input ELSE [i \in 1..N |-> input[i].val]

(***************************************************************************)
(* PgRecordEncoder writes exactly the layout a Postgres server reads and  *)
(* sends (spec 4.6, 6): the count word back-patched at beg-4 is the       *)
(* number of fields and each length word back-patched at start-4 is the  *)
(* size of its own value, after whatever the buffer held before.          *)
(***************************************************************************)
EncodedAsServerSends ==
  origin = "client" /\ phase \notin {"new", "encode"} =>
    \E p \in ArgPrefixes : buf = p \o RecordSend(ClientRecord(input))

(***************************************************************************)
(* Decoding a well-formed record ends in Ok, and the five slices handed   *)
(* to T::decode are exactly the five values encoded or sent (NULL for a   *)
(* NULL field): a decode consumes exactly the advertised bytes of every   *)
(* field before the next (spec 4.6).                                       *)
(***************************************************************************)
RoundTrip ==
  WellFormed /\ phase \in Ended => phase = "done" /\ out = Expected

(***************************************************************************)
(* The decoder accepts only records of the tuple's shape: spec 4.6 has it *)
(* read and validate the leading field count, and the TODO at lines       *)
(* 117-119 says it should fail on a field whose type is not the target's. *)
(* Line 99 reads the count into _expected_len and line 120 the oid into   *)
(* _oid, and neither is ever compared.                                     *)
(***************************************************************************)
ShapeChecked ==
  phase = "done" => origin # "server" \/ OfTupleShape(input)

(***************************************************************************)
(* A record cut short is never decoded Ok: some field's header or payload *)
(* is missing, and the five get_u32/get_i32/slice steps notice it rather  *)
(* than yield a tuple with a silent default (spec 4.6).                   *)
(***************************************************************************)
TruncatedNeverAccepted ==
  origin = "truncated" => phase # "done"

(***************************************************************************)
(* A malformed record (cut short, so a length claims more bytes than      *)
(* remain) is a decode failure, never a panic (spec 4.6, 7); line 126     *)
(* slices &buf[..len] without checking len against the buffer.            *)
(***************************************************************************)
NoPanic == phase # "panicked"
=============================================================================
