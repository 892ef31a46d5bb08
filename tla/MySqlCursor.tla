---------------------------- MODULE MySqlCursor ----------------------------
(***************************************************************************)
(* The MySQL cursor (src/sqlx-core/src/mysql/cursor.rs) with the          *)
(* connections it resolves.  from_pool and from_connection build it with  *)
(* the query and its arguments pending and binary = true; next() resolves *)
(* the source (checking a connection out of the pool, or using the        *)
(* borrowed one) and then reaches todo!(), which panics.  Whether the     *)
(* panicked cursor, and the connection it checked out, are ever dropped   *)
(* is up to the caller's task; the caller may drop it (Drop).  The column *)
(* map stays empty (nothing ever fills it) and is left out.  No property  *)
(* is checked of this module: see README.md.                               *)
(***************************************************************************)
EXTENDS Naturals

CONSTANTS
  Cursors, Conns, PoolConns, Queries,
  Args,       \* argument lists; NoArgs is a query executed without arguments
  NoArgs, Pool, NoConn, NoCursor

ASSUME PoolConns \subseteq Conns /\ NoArgs \in Args

VARIABLES
  pc,      \* "unborn", "idle", "resolve", "todo", "dropped" or "panicked"
  source,  \* ConnectionSource: Pool, or the connection it resolved to / borrows
  query,   \* cursor.query: [text, args]; next() panics before taking it
  binary,  \* cursor.binary
  holder   \* holder[c]: the cursor that holds connection c

vars == <<pc, source, query, binary, holder>>

Init ==
  /\ pc = [k \in Cursors |-> "unborn"]
  /\ source = [k \in Cursors |-> NoConn]
  /\ query = [k \in Cursors |-> [text |-> CHOOSE q \in Queries : TRUE, args |-> NoArgs]]
  /\ binary = [k \in Cursors |-> FALSE]
  /\ holder = [c \in Conns |-> NoCursor]

Build(k, src, q, a) ==
  /\ pc[k] = "unborn"
  /\ pc' = [pc EXCEPT ![k] = "idle"]
  /\ source' = [source EXCEPT ![k] = src]
  /\ query' = [query EXCEPT ![k] = [text |-> q, args |-> a]]
  /\ binary' = [binary EXCEPT ![k] = TRUE]

(* from_pool, lines 23-34.                                                  *)
FromPool(k, q, a) ==
  /\ Build(k, Pool, q, a)
  /\ UNCHANGED holder

(* from_connection, lines 37-49: the cursor borrows c for its life.        *)
FromConnection(k, c, q, a) ==
  /\ holder[c] = NoCursor
  /\ Build(k, c, q, a)
  /\ holder' = [holder EXCEPT ![c] = k]

(* next, lines 51-53: the caller starts a call.                            *)
CallNext(k) ==
  /\ pc[k] = "idle"
  /\ pc' = [pc EXCEPT ![k] = "resolve"]
  /\ UNCHANGED <<source, query, binary, holder>>

(* next, line 59: resolve_by_ref checks a free connection out of the pool  *)
(* and keeps it, or uses the borrowed one.                                  *)
Resolve(k) ==
  /\ pc[k] = "resolve"
  /\ \/ /\ source[k] \in Conns
        /\ UNCHANGED <<source, holder>>
     \/ /\ source[k] = Pool
        /\ \E c \in PoolConns :
             /\ holder[c] = NoCursor
             /\ source' = [source EXCEPT ![k] = c]
             /\ holder' = [holder EXCEPT ![c] = k]
  /\ pc' = [pc EXCEPT ![k] = "todo"]
  /\ UNCHANGED <<query, binary>>

(* next, line 59: the checkout fails and `?` returns the error.            *)
ResolveFails(k) ==
  /\ pc[k] = "resolve"
  /\ source[k] = Pool
  /\ pc' = [pc EXCEPT ![k] = "idle"]
  /\ UNCHANGED <<source, query, binary, holder>>

Release(k) ==
  holder' = IF source[k] \in Conns THEN [holder EXCEPT ![source[k]] = NoCursor] ELSE holder

(* next, line 61: todo!("MySqlCursor::next") panics; the cursor keeps     *)
(* the connection it resolved.                                             *)
Todo(k) ==
  /\ pc[k] = "todo"
  /\ pc' = [pc EXCEPT ![k] = "panicked"]
  /\ UNCHANGED <<source, query, binary, holder>>

(* The caller drops the cursor between calls, or its task unwinds past it. *)
Drop(k) ==
  /\ pc[k] \in {"idle", "panicked"}
  /\ pc' = [pc EXCEPT ![k] = "dropped"]
  /\ Release(k)
  /\ UNCHANGED <<source, query, binary>>

(* Every cursor is gone: the program has finished.                        *)
Terminating ==
  /\ \A k \in Cursors : pc[k] \in {"dropped", "panicked"}
  /\ UNCHANGED vars

Next ==
  \/ \E k \in Cursors, q \in Queries, a \in Args :
       \/ FromPool(k, q, a)
       \/ \E c \in Conns \ PoolConns : FromConnection(k, c, q, a)
  \/ \E k \in Cursors :
       CallNext(k) \/ Resolve(k) \/ ResolveFails(k) \/ Todo(k) \/ Drop(k)
  \/ Terminating

Spec == Init /\ [][Next]_vars
=============================================================================
