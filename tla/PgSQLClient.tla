---------------------------- MODULE PgSQLClient ----------------------------
(***************************************************************************)
(* The PostgreSQL client (src/quickjs-pgsql.c) in non-blocking mode:       *)
(* connect() and query() install a handler that asks libpq how it got on   *)
(* and settle a promise; connections, results and iterators of results     *)
(* hold each other by reference counts.                                    *)
(*                                                                         *)
(* PGconn objects own a descriptor each here, whose number is the same     *)
(* when they are connected again: what becomes of a handler when another   *)
(* object gets its number is AsyncSocket's subject.                        *)
(***************************************************************************)
EXTENDS Integers, Sequences, FiniteSetsExt

CONSTANTS
  PgConn,       \* PGconn objects
  MaxPromises,  \* bound: calls of connect() and query()
  MaxIterators  \* bound: iterators of one result

VARIABLES
  conns,      \* conns[p]: the object, its PGSQLConnection and what libpq makes of it
  results,    \* the PGSQLResults made so far
  promises,   \* what connect() and query() returned
  watch       \* watch[p]: the handlers of the connection's descriptor

pgVars == <<conns, results, promises, watch>>

Watches == {"read", "write"}
NoWatch == [d \in Watches |-> 0]

\* PGSQLConnection: "object" is the JavaScript object, "pq" the PGconn of libpq and
\* "async" how far libpq is with a command: it is idle only when a PQgetResult()
\* found that there are no more results.
NewConn == [object |-> TRUE, refs |-> 1, pq |-> "none", async |-> "idle", result |-> 0]

PgInit ==
  /\ conns = [p \in PgConn |-> NewConn] /\ results = <<>> /\ promises = <<>>
  /\ watch = [p \in PgConn |-> NoWatch]

World == [conns |-> conns, results |-> results]
Becomes(w) == conns' = w.conns /\ results' = w.results

-----------------------------------------------------------------------------
(***************************************************************************)
(* Reference counts.  refs = 0 is freed memory.                            *)
(***************************************************************************)
\* The result of the connection is released first, then PQfinish().  A result that
\* loses its last holder here would release its connection in turn, but it holds
\* that connection (RefsCounted), whose count cannot have become 0 then.
pgconn_free(w, p) ==
  LET less == [w EXCEPT !.conns[p].refs = @ - 1]
      held == w.conns[p].result
      rest == IF held = 0 THEN less
              ELSE [less EXCEPT !.conns[p].result = 0, !.results[held].refs = @ - 1]
  IN IF less.conns[p].refs > 0 THEN less ELSE [rest EXCEPT !.conns[p].pq = "none"]

pgresult_free(w, r) ==
  LET less == [w EXCEPT !.results[r].refs = @ - 1]
      p == w.results[r].conn
  IN IF less.results[r].refs > 0 \/ p \notin PgConn THEN less
     ELSE pgconn_free([less EXCEPT !.results[r].conn = "none"], p)

\* Mutant of pgconn_set_result: the old result is forgotten, not released.
SetResultForgets(w, p, r) == [w EXCEPT !.conns[p].result = r, !.results[r].refs = @ + 1]

\* pgconn_set_result, pgresult_set_conn: the new one is referenced after the old one
\* was released.
pgconn_set_result(w, p, r) ==
  LET old == w.conns[p].result
      w1 == IF old = 0 THEN w ELSE pgresult_free([w EXCEPT !.conns[p].result = 0], old)
  IN [w1 EXCEPT !.conns[p].result = r, !.results[r].refs = @ + 1]

pgresult_set_conn(w, r, p) ==
  [w EXCEPT !.results[r].conn = p, !.conns[p].refs = @ + 1]

\* A new result belongs to the object that is handed out.
pgconn_result(w, p) ==
  LET r == Len(w.results) + 1
      new == [w EXCEPT !.results = Append(@, [object |-> TRUE, refs |-> 1, conn |-> "none", its |-> 0])]
  IN pgresult_set_conn(pgconn_set_result(new, p, r), r, p)

-----------------------------------------------------------------------------
(***************************************************************************)
(* The handler's closure refers to the PGconn object.                      *)
(***************************************************************************)
Waits(p) == \E d \in Watches : watch[p][d] # 0
Live(p) == conns[p].object /\ Len(promises) < MaxPromises
Connects(p, st) == conns' = [conns EXCEPT ![p].pq = st, ![p].async = "idle"]
Settles(k, how) ==
  promises' = IF promises[k].st = "pending" THEN [promises EXCEPT ![k].st = how] ELSE promises

\* "found" notes that connect() found a handler close() had left: the descriptor of the
\* new connection has that handler then, which works on the new connection.
Asks(p, op, st) ==
  promises' = Append(promises,
                     [conn |-> p, op |-> op, st |-> st, found |-> op = "connect" /\ Waits(p)])

LeftBehind(p) == \E k \in DOMAIN promises : promises[k].conn = p /\ promises[k].found

\* PQconnectPoll() has its say: it wants to read or to write, is done, or failed, and
\* then the promise stays as it is; without a connection to poll connect() throws.  It
\* may be called again, and forgets the PGconn that was not closed.  That nobody waits
\* for that one is an assumption: its handlers would watch a descriptor of their own.
js_pgconn_connect_start(p) ==
  /\ Live(p) /\ (conns[p].pq = "none" \/ ~Waits(p))
  /\ \/ /\ Connects(p, "connecting") /\ Asks(p, "connect", "pending")
        /\ \E d \in Watches : watch' = [watch EXCEPT ![p][d] = Len(promises')]
     \/ /\ Connects(p, "up") /\ Asks(p, "connect", "resolved")
        /\ watch' = [watch EXCEPT ![p]["read"] = 0]
     \/ /\ Connects(p, "bad") /\ UNCHANGED watch
        /\ Asks(p, "connect", "pending") \/ UNCHANGED promises
  /\ UNCHANGED results

\* The handler for direction d is called.  It resolves its promise when the connection
\* is up, also one that was made anew meanwhile; setting the encoding then drops what is
\* left of a command.  It changes to the other direction, over a handler that is there,
\* and after a failure it watches for reading and does nothing.
Polled(p, d, done) ==
  LET k == watch[p][d] off == [watch[p] EXCEPT ![d] = 0]
  IN /\ k # 0 /\ promises[k].op = "connect"
     /\ \/ /\ conns[p].pq \in {"connecting", "up"} /\ Connects(p, "up") /\ Settles(k, "resolved")
           /\ watch' = [watch EXCEPT ![p] = done]
        \/ /\ conns[p].pq = "connecting" /\ UNCHANGED <<conns, promises>>
           /\ \E e \in Watches \ {d} : watch' = [watch EXCEPT ![p] = [off EXCEPT ![e] = k]]
        \/ /\ conns[p].pq \in {"connecting", "bad"} /\ conns' = [conns EXCEPT ![p].pq = "bad"]
           /\ watch' = [watch EXCEPT ![p] = [off EXCEPT !["read"] = k]] /\ UNCHANGED promises
     /\ UNCHANGED results

\* Mutant of js_pgconn_connect_cont: the handler stays on when the connection is up.
ConnectContStays(p, d) == Polled(p, d, watch[p])

js_pgconn_connect_cont(p, d) == Polled(p, d, [watch[p] EXCEPT ![d] = 0])

\* Only one result is fetched, so libpq is not idle after a command's first.
Fetches(p, async) == Becomes(pgconn_result([World EXCEPT !.conns[p].async = async], p))

\* PQsendQuery() refuses a second command; else the answer may be there already.
js_pgconn_query_start(p) ==
  /\ Live(p) /\ UNCHANGED watch
  /\ conns[p].pq # "up" \/ conns[p].async # "idle"
  /\ Asks(p, "query", "rejected") /\ UNCHANGED <<conns, results>>

QuerySent(p) ==
  /\ Live(p) /\ conns[p].pq = "up" /\ conns[p].async = "idle"
  /\ \/ /\ conns' = [conns EXCEPT ![p].async = "busy"] /\ Asks(p, "query", "pending")
        /\ watch' = [watch EXCEPT ![p]["read"] = Len(promises')] /\ UNCHANGED results
     \/ /\ Fetches(p, "more") /\ Asks(p, "query", "resolved")
        /\ watch' = [watch EXCEPT ![p]["read"] = 0]

\* PQconsumeInput(): more is to come, all came, or the connection is lost or was
\* closed, and then the handler stays.  Without a command there is no result to
\* fetch, and the promise is resolved with an empty one.
js_pgconn_query_cont(p) ==
  LET k == watch[p]["read"]
  IN /\ k # 0 /\ promises[k].op = "query"
     /\ \/ /\ conns[p].pq \in {"connecting", "up"} /\ Settles(k, "resolved")
           /\ \E async \in IF conns[p].async = "busy" THEN {"more"} ELSE {conns[p].async, "idle"} :
                Fetches(p, async)
           /\ watch' = [watch EXCEPT ![p]["read"] = 0]
        \/ /\ conns' = [conns EXCEPT ![p].pq = IF @ = "none" THEN @ ELSE "bad"]
           /\ Settles(k, "rejected") /\ UNCHANGED <<results, watch>>

\* A row's fields are looked up with PQexec(), which first takes what is left.
result_row(p) ==
  /\ conns[p].pq = "up" /\ conns[p].async = "more" /\ conns[p].result # 0
  /\ conns' = [conns EXCEPT ![p].async = "idle"] /\ UNCHANGED <<results, promises, watch>>

js_pgconn_close(p) ==
  /\ conns[p].object /\ conns[p].pq # "none"
  /\ conns' = [conns EXCEPT ![p].pq = "none", ![p].async = "idle"]
  /\ UNCHANGED <<results, promises, watch>>

-----------------------------------------------------------------------------
(***************************************************************************)
(* Objects are collected when the program and the event loop drop them.    *)
(***************************************************************************)
js_pgconn_finalizer(p) ==
  /\ conns[p].object /\ ~Waits(p)
  /\ Becomes(pgconn_free([World EXCEPT !.conns[p].object = FALSE], p))
  /\ UNCHANGED <<promises, watch>>

js_pgresult_finalizer(r) ==
  /\ results[r].object
  /\ Becomes(pgresult_free([World EXCEPT !.results[r].object = FALSE], r))
  /\ UNCHANGED <<promises, watch>>

js_pgresult_iterator(r) ==
  /\ results[r].object /\ results[r].its < MaxIterators
  /\ Becomes([World EXCEPT !.results[r].its = @ + 1, !.results[r].refs = @ + 1])
  /\ UNCHANGED <<promises, watch>>

js_pgresult_iterator_free(r) ==
  /\ results[r].its > 0
  /\ Becomes(pgresult_free([World EXCEPT !.results[r].its = @ - 1], r))
  /\ UNCHANGED <<promises, watch>>

PgNext ==
  \/ \E p \in PgConn :
       \/ js_pgconn_connect_start(p) \/ js_pgconn_query_start(p) \/ QuerySent(p)
       \/ js_pgconn_query_cont(p) \/ result_row(p) \/ js_pgconn_close(p) \/ js_pgconn_finalizer(p)
       \/ \E d \in Watches : js_pgconn_connect_cont(p, d)
  \/ \E r \in DOMAIN results : \/ js_pgresult_finalizer(r) \/ js_pgresult_iterator(r)
                               \/ js_pgresult_iterator_free(r)

PgSpec == PgInit /\ [][PgNext]_pgVars
-----------------------------------------------------------------------------
PgTypeOK ==
  /\ conns \in [PgConn -> [object : BOOLEAN, refs : Nat, pq : {"none", "connecting", "up", "bad"},
                           async : {"idle", "busy", "more"}, result : 0..Len(results)]]
  /\ results \in Seq([object : BOOLEAN, refs : Nat, conn : PgConn \union {"none"}, its : 0..MaxIterators])
  /\ promises \in Seq([conn : PgConn, op : {"connect", "query"}, st : {"pending", "resolved", "rejected"},
                      found : BOOLEAN])
  /\ watch \in [PgConn -> [Watches -> 0..Len(promises)]]

One(b) == IF b THEN 1 ELSE 0

\* A count is the number of those that hold the thing: the object, the results of a
\* connection; the object, the connection and the iterators of a result.  So nothing
\* is freed that is still referred to, in whatever order the objects are collected;
\* a connection and its result hold each other.
RefsCounted ==
  /\ \A p \in PgConn :
       conns[p].refs = One(conns[p].object) + Cardinality({r \in DOMAIN results : results[r].conn = p})
  /\ \A r \in DOMAIN results :
       results[r].refs = One(results[r].object) + results[r].its
                         + Cardinality({p \in PgConn : conns[p].result = r})
  /\ \A p \in PgConn : conns[p].result # 0 => results[conns[p].result].conn = p

\* A handler's promise is the connection's own and is not resolved, and no promise has
\* two handlers: each time one is called it can only say the same thing again.  A
\* connection has one handler at most, unless it was connected again while one that
\* close() had left was still installed.
HandlersServeTheirPromise ==
  \A p \in PgConn, d \in Watches :
    LET k == watch[p][d]
    IN k # 0 =>
         /\ promises[k].conn = p /\ promises[k].st # "resolved"
         /\ \A e \in Watches \ {d} : watch[p][e] # k /\ (watch[p][e] = 0 \/ LeftBehind(p))
=============================================================================
