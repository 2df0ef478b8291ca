---------------------------- MODULE MySQLClient ----------------------------
(***************************************************************************)
(* The MySQL client (src/quickjs-mysql.c): connect(), query() and a        *)
(* result's next() start an operation of libmariadb, which is done at once *)
(* or wants the socket to become readable or writable; then an             *)
(* AsyncClosure goes on with it each time the event loop calls its handler.*)
(*                                                                         *)
(* A program has one operation of a connection under way at a time, as     *)
(* libmariadb demands, and keeps the connection while it awaits one; it    *)
(* may close it, and open others, at any time.                             *)
(***************************************************************************)
EXTENDS AsyncClosure

CONSTANTS
  Conn,       \* MySQL objects
  Asserts,    \* assert() is compiled in
  MaxOps,     \* bound: closures made
  MaxRows     \* bound: rows of a result

VARIABLES
  standing,       \* standing[c]: new, trying, up, lost (by libmariadb), closed
  sock,       \* sock[c]: mysql_get_socket()
  rows,       \* rows[c]: rows left in the result in use, and its end; 0: none
  aborted     \* an assertion failed

myVars == <<closures, io, standing, sock, rows, aborted>>

Unused == Fd \ {sock[c] : c \in Conn}

\* An operation of c waits for the event loop.
Busy(c) == \E k \in DOMAIN closures : closures[k].who.conn = c /\ closures[k].state # "none"

MyInit ==
  /\ closures = <<>> /\ io = [f \in Fd |-> [d \in Watches |-> 0]]
  /\ standing = [c \in Conn |-> "new"] /\ sock = [c \in Conn |-> -1]
  /\ rows = [c \in Conn |-> 0] /\ aborted = FALSE

-----------------------------------------------------------------------------
(***************************************************************************)
(* Starting.  An operation that is done at once, with or without an error, *)
(* leaves its closure in the list and its promise alone: only next() looks *)
(* at that case.                                                           *)
(***************************************************************************)
Starts(c, op, f, want) ==
  Becomes(asyncclosure_new(World, [conn |-> c, op |-> op], f, want))

May(c) == ~aborted /\ ~Busy(c) /\ Len(closures) < MaxOps

js_mysql_connect(c) ==
  /\ May(c) /\ standing[c] = "new"
  /\ \/ \E f \in Unused, want \in {"read", "write"} :   \* on its way
          /\ standing' = [standing EXCEPT ![c] = "trying"] /\ sock' = [sock EXCEPT ![c] = f]
          /\ Starts(c, "connect", f, want)
     \/ \E f \in Unused :                               \* there at once
          /\ standing' = [standing EXCEPT ![c] = "up"] /\ sock' = [sock EXCEPT ![c] = f]
          /\ Starts(c, "connect", f, "none")
     \/ /\ standing' = [standing EXCEPT ![c] = "lost"] /\ UNCHANGED sock
        /\ Starts(c, "connect", -1, "none")
  /\ UNCHANGED <<rows, aborted>>

\* While a result is in use the commands are out of sync: an error, at once.
js_mysql_query(c) ==
  /\ May(c) /\ standing[c] \in {"up", "lost"}
  /\ \/ \E want \in {"read", "write"} : standing[c] = "up" /\ rows[c] = 0 /\ Starts(c, "query", sock[c], want)
     \/ Starts(c, "query", sock[c], "none")
  /\ UNCHANGED <<standing, sock, rows, aborted>>

js_mysqlresult_next(c) ==
  /\ May(c) /\ standing[c] = "up" /\ rows[c] > 0
  /\ \/ \E want \in Watches : Starts(c, "next", sock[c], want) /\ UNCHANGED rows
     \/ /\ rows' = [rows EXCEPT ![c] = @ - 1]
        /\ LET w == asyncclosure_new(World, [conn |-> c, op |-> "next"], sock[c], "none")
           IN Becomes(asyncclosure_resolve(w, Len(w.list)))
  /\ UNCHANGED <<standing, sock, aborted>>

-----------------------------------------------------------------------------
(***************************************************************************)
(* Going on, when the event loop calls the handler of closure k.           *)
(***************************************************************************)
Waits(k) == ~aborted /\ \E f \in Fd, d \in Watches : io[f][d] = k

\* The operation wants to wait again: the handlers change over, or stay.
WaitMore(k, want) ==
  /\ Waits(k) /\ want # closures[k].state
  /\ Becomes(asyncclosure_change_event(World, k, want))
  /\ UNCHANGED <<standing, sock, rows, aborted>>

\* What mysql_real_connect_cont() returned is not looked at.
js_mysql_connect_continue(k) ==
  LET c == closures[k].who.conn
  IN /\ Waits(k) /\ closures[k].who.op = "connect"
     /\ \/ standing' = [standing EXCEPT ![c] = "up"] /\ UNCHANGED sock
        \/ standing' = [standing EXCEPT ![c] = "lost"] /\ sock' = [sock EXCEPT ![c] = -1]
     /\ Becomes(asyncclosure_resolve(asyncclosure_change_event(World, k, "none"), k))
     /\ UNCHANGED <<rows, aborted>>

js_mysql_query_continue(k) ==
  LET c == closures[k].who.conn
      w == asyncclosure_change_event(World, k, "none")
  IN /\ Waits(k) /\ closures[k].who.op = "query"
     /\ \/ /\ \E n \in 0..MaxRows + 1 : rows' = [rows EXCEPT ![c] = n]
           /\ Becomes(asyncclosure_resolve(w, k)) /\ UNCHANGED <<standing, sock>>
        \/ Becomes(asyncclosure_error(w, k)) /\ UNCHANGED <<standing, sock, rows>>
        \/ /\ Becomes(asyncclosure_error(w, k)) /\ UNCHANGED rows
           /\ standing' = [standing EXCEPT ![c] = "lost"] /\ sock' = [sock EXCEPT ![c] = -1]
     /\ UNCHANGED aborted

\* The end of the rows is an error here.
js_mysqlresult_next_continue(k) ==
  LET c == closures[k].who.conn
      w == asyncclosure_change_event(World, k, "none")
  IN /\ Waits(k) /\ closures[k].who.op = "next"
     /\ rows' = [rows EXCEPT ![c] = @ - 1]
     /\ Becomes(IF rows[c] = 1 THEN asyncclosure_error(w, k) ELSE asyncclosure_resolve(w, k))
     /\ UNCHANGED <<standing, sock, aborted>>

-----------------------------------------------------------------------------
(***************************************************************************)
(* close(), and the finalizer, which leaves the list and the event loop    *)
(* alone.  close() takes the newest closure of the descriptor for the one  *)
(* that waits; with assertions a promise that is not settled aborts.       *)
(***************************************************************************)
Closes(c) ==
  /\ standing' = [standing EXCEPT ![c] = "closed"] /\ sock' = [sock EXCEPT ![c] = -1]
  /\ rows' = [rows EXCEPT ![c] = 0]

js_mysql_close(c) ==
  LET k == IF sock[c] = -1 THEN 0 ELSE asyncclosure_lookup(World, sock[c])
  IN /\ ~aborted /\ standing[c] # "closed"
     /\ IF k = 0 THEN Closes(c) /\ UNCHANGED <<closures, io, aborted>>
        ELSE IF Asserts /\ closures[k].st = "pending"
          THEN aborted' = TRUE /\ UNCHANGED <<closures, io, standing, sock, rows>>
          ELSE Closes(c) /\ Becomes(asyncclosure_done(World, k)) /\ UNCHANGED aborted

js_mysql_finalizer(c) ==
  /\ ~aborted /\ ~Busy(c) /\ standing[c] # "closed"
  /\ Closes(c) /\ UNCHANGED <<closures, io, aborted>>

MyNext ==
  \/ \E c \in Conn : \/ js_mysql_connect(c) \/ js_mysql_query(c) \/ js_mysqlresult_next(c)
                     \/ js_mysql_close(c) \/ js_mysql_finalizer(c)
  \/ \E k \in 1..Len(closures) :
       \/ \E want \in Watches : WaitMore(k, want)
       \/ js_mysql_connect_continue(k) \/ js_mysql_query_continue(k)
       \/ js_mysqlresult_next_continue(k)

MySpec == MyInit /\ [][MyNext]_myVars

\* The server answers, and the event loop calls the handler of a ready descriptor:
\* an operation is not told to wait for ever.
MyFairness == \A k \in 1..MaxOps :
  WF_myVars(/\ k \in DOMAIN closures
            /\ \/ js_mysql_connect_continue(k) \/ js_mysql_query_continue(k)
               \/ js_mysqlresult_next_continue(k))
-----------------------------------------------------------------------------
ClosureType ==
  [who : [conn : Conn, op : {"connect", "query", "next"}], fd : Fd \union {-1},
   state : Wants, listed : BOOLEAN, st : {"pending", "resolved", "rejected"}]

MyTypeOK ==
  /\ closures \in Seq(ClosureType) /\ Len(closures) <= MaxOps
  /\ io \in [Fd -> [Watches -> 0..Len(closures)]]
  /\ standing \in [Conn -> {"new", "trying", "up", "lost", "closed"}]
  /\ sock \in [Conn -> Fd \union {-1}] /\ rows \in [Conn -> 0..MaxRows + 1]
  /\ aborted \in BOOLEAN

\* The event loop has a handler for exactly what the closures want: one that wants
\* to read or to write is watched for that, and no handler is left of another.
HandlersAsWanted ==
  \A f \in Fd, d \in Watches, k \in DOMAIN closures :
    io[f][d] = k <=> closures[k].fd = f /\ closures[k].state = d

\* A handler never goes on with an operation of a connection that was closed and
\* freed: close() finds the closure that waits, though the list may still hold
\* others of the descriptor, which belonged to another connection before.
NothingGoesOnAfterClose ==
  \A f \in Fd, d \in Watches :
    io[f][d] # 0 =>
      LET c == closures[io[f][d]].who.conn
      IN standing[c] # "closed" /\ sock[c] = f

\* An operation that had to wait is answered, unless its connection is closed.
WaitersAreAnswered ==
  \A k \in 1..MaxOps :
    []<>(~(/\ k \in DOMAIN closures /\ closures[k].state # "none"
           /\ standing[closures[k].who.conn] # "closed" /\ ~aborted))
=============================================================================
