------------------------------ MODULE PgCursor ------------------------------
(***************************************************************************)
(* The Postgres cursor of sqlx-core (src/sqlx-core/src/postgres/cursor.rs) *)
(* together with the connections it reads from.                           *)
(*                                                                         *)
(* A cursor is built by from_pool or from_connection without I/O.  Each    *)
(* call of next() is an async function with several await points:         *)
(* resolving the connection, conn.run (sending the query), every read of  *)
(* describe and every read of the row loop.  The model gives each await   *)
(* point a program-counter value, so that                                  *)
(*   - several cursors interleave on the pool's connections,               *)
(*   - the caller may drop the next() future at any await (Cancel), and    *)
(*   - the caller may drop the cursor between calls (Drop).               *)
(*                                                                         *)
(* A connection is its inbound message stream (the Postgres messages not  *)
(* read yet) and its statement cache (cache_statement_columns and         *)
(* cache_statement_formats, always written together, as one function).    *)
(* The server's answer to a query is appended to the stream when run()    *)
(* sends it.  Column metadata is abstracted to a record of the column map *)
(* (name -> 0-based index) and the list of formats.                       *)
(***************************************************************************)
EXTENDS Naturals, Sequences, SequencesExt, TLC

CONSTANTS
  Cursors,        \* cursor identities
  Conns,          \* connections
  PoolConns,      \* the connections owned by the Pool; the others are lent to from_connection
  Queries,        \* query texts
  Prepared,       \* queries executed with arguments: run() returns a StatementId
  Desc,           \* Desc[q]: the fields of q's RowDescription, or NoRows
  Rows,           \* Rows[q]: the number of DataRow messages q produces
  Names,          \* column names
  NoName,         \* an unnamed field (field.name = None)
  NoRows,         \* q returns no rows (INSERT, CREATE TABLE ...)
  Pool,           \* the source of a cursor made by from_pool before it resolves
  NoConn,
  NoCursor,
  Fallible,       \* the connections whose socket may be lost while in use
  MaxResults,     \* bound on the results one cursor records (its calls of next())
  CancelInRun     \* TRUE: a call may be dropped while conn.run (line 144) awaits,
                  \* after query.take() and before the query is sent

ASSUME PoolConns \subseteq Conns /\ Prepared \subseteq Queries /\ Fallible \subseteq Conns
ASSUME \A q \in Queries \ Prepared : Desc[q] = NoRows => Rows[q] = 0
ASSUME MaxResults \in Nat /\ CancelInRun \in BOOLEAN

VARIABLES
  pc,        \* pc[k]: where cursor k is (an await point of next(), or idle)
  source,    \* source[k]: ConnectionSource: Pool, or the connection it resolved to
  query,     \* query[k]: the query text of the cursor
  pending,   \* pending[k]: cursor.query is Some (not yet taken)
  columns,   \* columns[k]: cursor.columns and cursor.formats
  stream,    \* stream[c]: messages of connection c not read yet
  cache,     \* cache[c]: StatementId -> metadata of connection c
  holder,    \* holder[c]: the cursor that holds connection c exclusively
  results,   \* results[k]: what the calls of next() of k returned, in order
  cancelled, \* cancelled[k]: a next() future of k was dropped at an await
  broken     \* broken[c]: the socket of connection c is lost

vars == <<pc, source, query, pending, columns, stream, cache, holder,
          results, cancelled, broken>>

Formats == {"Text", "Binary"}
Field == [name : Names \cup {NoName}, format : Formats]

-----------------------------------------------------------------------------
(* Messages of the Postgres wire subset the cursor reads (spec section 6). *)

ParseComplete   == [tag |-> "ParseComplete"]
BindComplete    == [tag |-> "BindComplete"]
NoData          == [tag |-> "NoData"]
CommandComplete == [tag |-> "CommandComplete"]
ReadyForQuery   == [tag |-> "ReadyForQuery"]
RowDescription(fs) == [tag |-> "RowDescription", fields |-> fs]
DataRow(q, i)   == [tag |-> "DataRow", query |-> q, index |-> i]

(* Column metadata: the map built from a description and its formats.     *)
EmptyMeta == [columns |-> <<>>, formats |-> <<>>]

(***************************************************************************)
(* describe, lines 93-109: for (index, field) in fields.enumerate(), a     *)
(* named field inserts name -> index into the HashMap (a later field of   *)
(* the same name replaces an earlier one) and every field pushes its      *)
(* format.                                                                  *)
(***************************************************************************)
(* Mutant: enumerate's index taken one too low.                           *)
AddFieldOffByOne(fields, acc, i) ==
    [columns |-> IF fields[i].name = NoName THEN acc.columns
                 ELSE (fields[i].name :> (i - 2)) @@ acc.columns,
     formats |-> Append(acc.formats, fields[i].format)]

(* Mutant: the first field of a name is kept (entry().or_insert).         *)
AddFieldFirstWins(fields, acc, i) ==
    [columns |-> IF fields[i].name = NoName THEN acc.columns
                 ELSE acc.columns @@ (fields[i].name :> (i - 1)),
     formats |-> Append(acc.formats, fields[i].format)]

AddField(fields, acc, i) ==
    [columns |-> IF fields[i].name = NoName THEN acc.columns
                 ELSE (fields[i].name :> (i - 1)) @@ acc.columns,
     formats |-> Append(acc.formats, fields[i].format)]

BuildMeta(fields) ==
  LET add(acc, i) == AddField(fields, acc, i)
  IN FoldLeftDomain(add, EmptyMeta, fields)

(* The metadata describe() returns for the message that ends it.           *)
DescribedMeta(m) ==
  IF m.tag = "RowDescription" THEN BuildMeta(m.fields) ELSE EmptyMeta

(***************************************************************************)
(* The answer of the Postgres server to what Executor::run sends for q;   *)
(* like every query cycle it ends with ReadyForQuery (Sync, or the end of *)
(* a simple Query).  A query with arguments goes through                   *)
(* Parse/Bind/Describe(portal)/Execute; Describe is sent only when the    *)
(* statement is not in the connection's cache, which is the round trip    *)
(* the cache saves.  A simple query gets a RowDescription only when it    *)
(* returns rows.                                                           *)
(***************************************************************************)
Response(q, describe) ==
  LET rows      == [i \in 1..Rows[q] |-> DataRow(q, i)]
      described == IF Desc[q] = NoRows THEN <<NoData>>
                   ELSE <<RowDescription(Desc[q])>>
      head      == IF q \in Prepared
                   THEN IF describe THEN <<ParseComplete, BindComplete>> \o described
                        ELSE <<BindComplete>>
                   ELSE IF Desc[q] = NoRows THEN <<>> ELSE described
  IN head \o rows \o <<CommandComplete, ReadyForQuery>>

(***************************************************************************)
(* PgConnection::run (outside src/) first waits until the connection is   *)
(* ready: it reads and discards what is left of the previous answer, up   *)
(* to and including its ReadyForQuery, before it sends the query (spec 5  *)
(* and 8: an abandoned answer never reaches a later query).  A stream     *)
(* without a ReadyForQuery has no answer pending.                          *)
(***************************************************************************)
UntilReady(s) ==
  IF \E i \in DOMAIN s : s[i] = ReadyForQuery
  THEN LET r == CHOOSE i \in DOMAIN s : s[i] = ReadyForQuery
                                       /\ \A j \in 1..(i - 1) : s[j] # ReadyForQuery
       IN SubSeq(s, r + 1, Len(s))
  ELSE s

Cached(c, s) == s \in DOMAIN cache[c]

InFlight == {"resolve", "run", "describe", "read"}

-----------------------------------------------------------------------------
Init ==
  /\ pc        = [k \in Cursors |-> "unborn"]
  /\ source    = [k \in Cursors |-> NoConn]
  /\ query     = [k \in Cursors |-> CHOOSE q \in Queries : TRUE]
  /\ pending   = [k \in Cursors |-> FALSE]
  /\ columns   = [k \in Cursors |-> EmptyMeta]
  /\ stream    = [c \in Conns |-> <<>>]
  /\ cache     = [c \in Conns |-> <<>>]
  /\ holder    = [c \in Conns |-> NoCursor]
  /\ results   = [k \in Cursors |-> <<>>]
  /\ cancelled = [k \in Cursors |-> FALSE]
  /\ broken    = [c \in Conns |-> FALSE]

(* PgCursor::from_pool: source = Pool, columns/formats empty, query = Some. *)
FromPool(k, q) ==
  /\ pc[k] = "unborn"
  /\ pc' = [pc EXCEPT ![k] = "idle"]
  /\ source' = [source EXCEPT ![k] = Pool]
  /\ query' = [query EXCEPT ![k] = q]
  /\ pending' = [pending EXCEPT ![k] = TRUE]
  /\ columns' = [columns EXCEPT ![k] = EmptyMeta]
  /\ UNCHANGED <<stream, cache, holder, results, cancelled, broken>>

(* PgCursor::from_connection: the cursor borrows c exclusively for its life. *)
FromConnection(k, c, q) ==
  /\ pc[k] = "unborn"
  /\ holder[c] = NoCursor
  /\ pc' = [pc EXCEPT ![k] = "idle"]
  /\ source' = [source EXCEPT ![k] = c]
  /\ holder' = [holder EXCEPT ![c] = k]
  /\ query' = [query EXCEPT ![k] = q]
  /\ pending' = [pending EXCEPT ![k] = TRUE]
  /\ columns' = [columns EXCEPT ![k] = EmptyMeta]
  /\ UNCHANGED <<stream, cache, results, cancelled, broken>>

(* Cursor::next: the caller starts a call; next() is not reentrant.       *)
CallNext(k) ==
  /\ pc[k] = "idle"
  /\ Len(results[k]) < MaxResults
  /\ pc' = [pc EXCEPT ![k] = "resolve"]
  /\ UNCHANGED <<source, query, pending, columns, stream, cache, holder,
                 results, cancelled, broken>>

(* The call of next() in flight returns result r.                        *)
Return(k, r) ==
  /\ pc' = [pc EXCEPT ![k] = "idle"]
  /\ results' = [results EXCEPT ![k] = Append(@, r)]

RowResult(m, meta) == [kind |-> "row", row |-> m, meta |-> meta]
EndResult == [kind |-> "end"]
ProtocolError == [kind |-> "error", cause |-> "protocol"]
RunError == [kind |-> "error", cause |-> "connectivity"]

(***************************************************************************)
(* next, lines 138-143: resolve_by_ref, then cursor.query.take().  A Pool *)
(* source checks a free connection out of the pool and keeps it, so later *)
(* calls resolve to the same connection; a Connection source resolves at  *)
(* once.  The query is taken whether or not run() then succeeds.          *)
(***************************************************************************)
Resolve(k) ==
  /\ pc[k] = "resolve"
  /\ \/ /\ source[k] \in Conns
        /\ UNCHANGED <<source, holder>>
     \/ /\ source[k] = Pool
        /\ \E c \in PoolConns :
             /\ holder[c] = NoCursor
             /\ source' = [source EXCEPT ![k] = c]
             /\ holder' = [holder EXCEPT ![c] = k]
  /\ pc' = [pc EXCEPT ![k] = IF pending[k] THEN "run" ELSE "read"]
  /\ pending' = [pending EXCEPT ![k] = FALSE]
  /\ UNCHANGED <<query, columns, stream, cache, results, cancelled, broken>>

(* next, line 138: checking out of the pool fails (closed pool, connect   *)
(* error); the `?` returns Err before the query is taken, so a later call  *)
(* starts over.  This Err is not recorded in results: it says nothing of  *)
(* the query's answer.                                                     *)
ResolveFails(k) ==
  /\ pc[k] = "resolve"
  /\ source[k] = Pool
  /\ pc' = [pc EXCEPT ![k] = "idle"]
  /\ UNCHANGED <<source, query, pending, columns, stream, cache, holder,
                 results, cancelled, broken>>

(***************************************************************************)
(* next, lines 144-158: conn.run waits until the connection is ready,     *)
(* sends the query, and the server's answer arrives on the stream.  A statement found in the cache (get_or_describe *)
(* lines 117-118, 129-132) gives cursor.columns/formats at once; any other *)
(* query is described next.                                                 *)
(***************************************************************************)
(* Mutant: the cache-hit branch does not publish the cached metadata.     *)
RunHitKeepsColumns(k) ==
  LET c   == source[k]
      q   == query[k]
      hit == q \in Prepared /\ Cached(c, q)
  IN /\ pc[k] = "run"
     /\ ~broken[c]
     /\ stream' = [stream EXCEPT ![c] = UntilReady(@) \o Response(q, ~hit)]
     /\ UNCHANGED columns
     /\ pc' = [pc EXCEPT ![k] = IF hit THEN "read" ELSE "describe"]
     /\ UNCHANGED <<source, query, pending, cache, holder, results, cancelled, broken>>

Run(k) ==
  LET c   == source[k]
      q   == query[k]
      hit == q \in Prepared /\ Cached(c, q)
  IN /\ pc[k] = "run"
     /\ ~broken[c]
     /\ stream' = [stream EXCEPT ![c] = UntilReady(@) \o Response(q, ~hit)]
     /\ columns' = IF hit THEN [columns EXCEPT ![k] = cache[c][q]] ELSE columns
     /\ pc' = [pc EXCEPT ![k] = IF hit THEN "read" ELSE "describe"]
     /\ UNCHANGED <<source, query, pending, cache, holder, results, cancelled, broken>>

(* next, line 144: conn.run fails on a lost connection; the query has     *)
(* already been taken.                                                     *)
RunFails(k) ==
  /\ pc[k] = "run"
  /\ broken[source[k]]
  /\ Return(k, RunError)
  /\ UNCHANGED <<source, query, pending, columns, stream, cache, holder, cancelled, broken>>

(* The next message on the connection of cursor k.                        *)
Msg(k) == Head(stream[source[k]])
Consume(k) == stream' = [stream EXCEPT ![source[k]] = Tail(@)]
Readable(k) == stream[source[k]] # <<>>

(* describe, line 75: ParseComplete and BindComplete are skipped.         *)
DescribeSkip(k) ==
  /\ pc[k] = "describe"
  /\ Readable(k)
  /\ Msg(k).tag \in {"ParseComplete", "BindComplete"}
  /\ Consume(k)
  /\ UNCHANGED <<pc, source, query, pending, columns, cache, holder, results,
                 cancelled, broken>>

(***************************************************************************)
(* describe, lines 77-83 and 93-109: RowDescription or NoData ends the    *)
(* description; get_or_describe (lines 120-126) stores it under the       *)
(* statement id of a prepared query; next (lines 153-158) publishes it as *)
(* cursor.columns/formats.                                                  *)
(***************************************************************************)
DescribeDone(k) ==
  LET q    == query[k]
      meta == DescribedMeta(Msg(k))
  IN /\ pc[k] = "describe"
     /\ Readable(k)
     /\ Msg(k).tag \in {"RowDescription", "NoData"}
     /\ Consume(k)
     /\ columns' = [columns EXCEPT ![k] = meta]
     /\ cache' = IF q \in Prepared
                 THEN [cache EXCEPT ![source[k]] = (q :> meta) @@ @]
                 ELSE cache
     /\ pc' = [pc EXCEPT ![k] = "read"]
     /\ UNCHANGED <<source, query, pending, holder, results, cancelled, broken>>

(* describe, lines 85-89: any other message is a protocol error.          *)
DescribeUnexpected(k) ==
  /\ pc[k] = "describe"
  /\ Readable(k)
  /\ Msg(k).tag \notin {"ParseComplete", "BindComplete", "RowDescription", "NoData"}
  /\ Consume(k)
  /\ Return(k, ProtocolError)
  /\ UNCHANGED <<source, query, pending, columns, cache, holder, cancelled, broken>>

(* next, line 165: ParseComplete and BindComplete are skipped.            *)
(* Mutant: DataRow joins the ignored acknowledgements.                    *)
LoopSkipDataRow(k) ==
  /\ pc[k] = "read"
  /\ Readable(k)
  /\ Msg(k).tag \in {"ParseComplete", "BindComplete", "DataRow"}
  /\ Consume(k)
  /\ UNCHANGED <<pc, source, query, pending, columns, cache, holder, results,
                 cancelled, broken>>

LoopSkip(k) ==
  /\ pc[k] = "read"
  /\ Readable(k)
  /\ Msg(k).tag \in {"ParseComplete", "BindComplete"}
  /\ Consume(k)
  /\ UNCHANGED <<pc, source, query, pending, columns, cache, holder, results,
                 cancelled, broken>>

(* next, lines 169-171 and 190: CommandComplete ends the stream: Ok(None). *)
LoopComplete(k) ==
  /\ pc[k] = "read"
  /\ Readable(k)
  /\ Msg(k).tag = "CommandComplete"
  /\ Consume(k)
  /\ Return(k, EndResult)
  /\ UNCHANGED <<source, query, pending, columns, cache, holder, cancelled, broken>>

(* next, lines 173-181: a DataRow becomes a PgRow sharing cursor.columns. *)
(* Mutant: the row is returned but the message is left in the buffer.     *)
LoopDataRowNoConsume(k) ==
  /\ pc[k] = "read"
  /\ Readable(k)
  /\ Msg(k).tag = "DataRow"
  /\ Return(k, RowResult(Msg(k), columns[k]))
  /\ UNCHANGED <<source, query, pending, columns, stream, cache, holder, cancelled, broken>>

LoopDataRow(k) ==
  /\ pc[k] = "read"
  /\ Readable(k)
  /\ Msg(k).tag = "DataRow"
  /\ Consume(k)
  /\ Return(k, RowResult(Msg(k), columns[k]))
  /\ UNCHANGED <<source, query, pending, columns, cache, holder, cancelled, broken>>

(* next, lines 184-186: any other message is a protocol error.            *)
LoopUnexpected(k) ==
  /\ pc[k] = "read"
  /\ Readable(k)
  /\ Msg(k).tag \notin {"ParseComplete", "BindComplete", "CommandComplete", "DataRow"}
  /\ Consume(k)
  /\ Return(k, ProtocolError)
  /\ UNCHANGED <<source, query, pending, columns, cache, holder, cancelled, broken>>

(***************************************************************************)
(* The caller drops the BoxFuture returned by next() (lines 63-65) while  *)
(* it waits at an await point, e.g. on a timeout.  Nothing in next()      *)
(* reacts: the cursor keeps what it has done so far.                       *)
(***************************************************************************)
Cancel(k) ==
  /\ pc[k] \in InFlight
  /\ CancelInRun \/ pc[k] # "run"
  /\ pc' = [pc EXCEPT ![k] = "idle"]
  /\ cancelled' = [cancelled EXCEPT ![k] = TRUE]
  /\ UNCHANGED <<source, query, pending, columns, stream, cache, holder,
                 results, broken>>

(***************************************************************************)
(* The caller drops the cursor.  PgCursor has no Drop of its own: the     *)
(* ConnectionSource releases its connection (a PoolConnection goes back   *)
(* to the pool, a lent connection's borrow ends) with whatever is left of *)
(* the answer still on it.                                                 *)
(***************************************************************************)
Drop(k) ==
  /\ pc[k] = "idle"
  /\ pc' = [pc EXCEPT ![k] = "dropped"]
  /\ holder' = IF source[k] \in Conns THEN [holder EXCEPT ![source[k]] = NoCursor]
               ELSE holder
  /\ UNCHANGED <<source, query, pending, columns, stream, cache, results,
                 cancelled, broken>>

(***************************************************************************)
(* next, lines 74 and 162: conn.stream.read().await? fails once the       *)
(* connection is lost; describe and the row loop return the I/O error.     *)
(***************************************************************************)
(* Mutant: a read error during describe is not propagated.                *)
ReadFailsLoopOnly(k) ==
  /\ pc[k] = "read"
  /\ broken[source[k]]
  /\ Return(k, RunError)
  /\ UNCHANGED <<source, query, pending, columns, stream, cache, holder, cancelled,
                 broken>>

ReadFails(k) ==
  /\ pc[k] \in {"describe", "read"}
  /\ broken[source[k]]
  /\ Return(k, RunError)
  /\ UNCHANGED <<source, query, pending, columns, stream, cache, holder, cancelled,
                 broken>>

(* The socket of connection c is lost (server restart, network failure):  *)
(* the rest of its answer never arrives.                                   *)
ConnectionLost(c) ==
  /\ ~broken[c]
  /\ broken' = [broken EXCEPT ![c] = TRUE]
  /\ stream' = [stream EXCEPT ![c] = <<>>]
  /\ UNCHANGED <<pc, source, query, pending, columns, cache, holder, results,
                 cancelled>>

(* Every cursor has been dropped: the program has finished.              *)
Terminating ==
  /\ \A k \in Cursors : pc[k] = "dropped"
  /\ UNCHANGED vars

DescribeStep(k) == DescribeSkip(k) \/ DescribeDone(k) \/ DescribeUnexpected(k)
LoopStep(k) == LoopSkip(k) \/ LoopComplete(k) \/ LoopDataRow(k) \/ LoopUnexpected(k)

Next ==
  \/ \E k \in Cursors, q \in Queries : FromPool(k, q)
  \/ \E k \in Cursors, c \in Conns \ PoolConns, q \in Queries : FromConnection(k, c, q)
  \/ \E k \in Cursors :
       \/ CallNext(k) \/ Resolve(k) \/ ResolveFails(k) \/ Run(k) \/ RunFails(k)
       \/ DescribeStep(k) \/ LoopStep(k) \/ ReadFails(k) \/ Cancel(k) \/ Drop(k)
  \/ \E c \in Fallible : ConnectionLost(c)
  \/ Terminating

(***************************************************************************)
(* Fairness: a next() future that is being polled is woken whenever the   *)
(* connection it awaits is ready, so each step of a call in flight        *)
(* happens if it stays enabled.  The caller's own steps (calling next,    *)
(* cancelling, dropping), a failing checkout and a lost connection are    *)
(* not assumed to happen.                                                  *)
(***************************************************************************)
Fairness ==
  \A k \in Cursors :
    /\ WF_vars(Resolve(k))
    /\ WF_vars(Run(k) \/ RunFails(k))
    /\ WF_vars(DescribeStep(k))
    /\ WF_vars(LoopStep(k))
    /\ WF_vars(ReadFails(k))

Spec == Init /\ [][Next]_vars /\ Fairness

-----------------------------------------------------------------------------
(* Properties                                                              *)

IsMeta(m) ==
  /\ DOMAIN m = {"columns", "formats"}
  /\ DOMAIN m.columns \subseteq Names
  /\ \A n \in DOMAIN m.columns : m.columns[n] \in Nat
  /\ m.formats \in Seq(Formats)
Message == {ParseComplete, BindComplete, NoData, CommandComplete, ReadyForQuery}
           \cup {RowDescription(Desc[q]) : q \in {r \in Queries : Desc[r] # NoRows}}
           \cup UNION {{DataRow(q, i) : i \in 1..Rows[q]} : q \in Queries}
IsResult(r) ==
  \/ r \in {EndResult, ProtocolError, RunError}
  \/ /\ DOMAIN r = {"kind", "row", "meta"}
     /\ r.kind = "row" /\ r.row \in Message /\ r.row.tag = "DataRow" /\ IsMeta(r.meta)

TypeOK ==
  /\ pc \in [Cursors -> {"unborn", "idle", "dropped"} \cup InFlight]
  /\ source \in [Cursors -> Conns \cup {Pool, NoConn}]
  /\ query \in [Cursors -> Queries]
  /\ pending \in [Cursors -> BOOLEAN]
  /\ \A k \in Cursors : IsMeta(columns[k])
  /\ stream \in [Conns -> Seq(Message)]
  /\ \A c \in Conns : DOMAIN cache[c] \subseteq Prepared
                      /\ \A s \in DOMAIN cache[c] : IsMeta(cache[c][s])
  /\ holder \in [Conns -> Cursors \cup {NoCursor}]
  /\ \A k \in Cursors : \A i \in DOMAIN results[k] : IsResult(results[k][i])
  /\ cancelled \in [Cursors -> BOOLEAN]
  /\ broken \in [Conns -> BOOLEAN]

IsRow(r) == r.kind = "row"
IsTerminal(r) == r.kind \in {"end", "error"}
RowsOf(rs) == SelectSeq(rs, IsRow)

(***************************************************************************)
(* Reference metadata of a query, from spec section 4.3: each named field *)
(* maps its name to its 0-based position (the last field of a name wins,  *)
(* as HashMap::insert does), and the formats are the fields' formats in   *)
(* order.  A query without rows has the empty map and list.               *)
(***************************************************************************)
RefColumns(fs) ==
  [n \in {fs[i].name : i \in DOMAIN fs} \ {NoName} |->
     CHOOSE j \in 0..(Len(fs) - 1) :
       /\ fs[j + 1].name = n
       /\ \A i \in (j + 2)..Len(fs) : fs[i].name # n]

RefMeta(q) ==
  IF Desc[q] = NoRows THEN EmptyMeta
  ELSE [columns |-> RefColumns(Desc[q]),
        formats |-> [i \in DOMAIN Desc[q] |-> Desc[q][i].format]]

(***************************************************************************)
(* The rows a cursor's next() returns are exactly the DataRows of its own *)
(* query, in the server's order, none skipped and none twice, even when   *)
(* other cursors used the same pooled connection before it (spec 5, 8).   *)
(***************************************************************************)
RowsFromOwnQuery ==
  \A k \in Cursors : \A i \in DOMAIN RowsOf(results[k]) :
    RowsOf(results[k])[i].row = DataRow(query[k], i)

(***************************************************************************)
(* Whenever next() returns end-of-stream, the cursor has returned every   *)
(* row of its query before it (spec 8: N rows, then None).                *)
(***************************************************************************)
StreamComplete ==
  \A k \in Cursors : \A i \in DOMAIN results[k] :
    results[k][i] = EndResult =>
      Len(RowsOf(SubSeq(results[k], 1, i - 1))) = Rows[query[k]]

(***************************************************************************)
(* A statement cache entry of a connection is the metadata of the         *)
(* statement it is keyed by: get_or_describe never stores the description *)
(* of another answer, and the map describe builds is the reference map.   *)
(***************************************************************************)
CacheCorrect ==
  \A c \in Conns : \A s \in DOMAIN cache[c] : cache[c][s] = RefMeta(s)

(***************************************************************************)
(* Every row a cursor returns before any failure carries the column map   *)
(* and formats of its own query, whether they came from the statement     *)
(* cache (a later execution) or from describe (spec 8: both executions    *)
(* observe identical column maps).                                         *)
(***************************************************************************)
MetaMatches ==
  \A k \in Cursors : \A i \in DOMAIN results[k] :
    /\ IsRow(results[k][i])
    /\ \A j \in 1..(i - 1) : ~IsTerminal(results[k][j])
    => results[k][i].meta = RefMeta(query[k])

NoTerminalYet(k) == \A i \in DOMAIN results[k] : ~IsTerminal(results[k][i])

(***************************************************************************)
(* Every call of next() made before a terminal outcome returns, unless   *)
(* the caller drops it, also a retry after an earlier call of the cursor *)
(* was dropped in describe or the row loop: describe and the loop reach a *)
(* terminal message, and a lost connection makes the read at line 74 or  *)
(* 162 fail.                                                               *)
(***************************************************************************)
NextReturns ==
  \A k \in Cursors :
    (pc[k] \in InFlight /\ source[k] \in Conns /\ NoTerminalYet(k)) ~> pc[k] = "idle"

(***************************************************************************)
(* Spec 8: a query the server answers in full yields its rows and then    *)
(* end-of-stream, on the prepared and the unprepared path alike: a cursor *)
(* that nobody cancelled never fails with a protocol error before its     *)
(* first terminal outcome.                                                 *)
(***************************************************************************)
AnswerEndsCleanly ==
  \A k \in Cursors : ~cancelled[k] =>
    \A i \in DOMAIN results[k] :
      (\A j \in 1..(i - 1) : ~IsTerminal(results[k][j]))
        => results[k][i] # ProtocolError

====
