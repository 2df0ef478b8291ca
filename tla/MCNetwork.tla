------------------------------ MODULE MCNetwork ------------------------------
(***************************************************************************)
(* Instances of AsyncSocket, MySQLClient, PgSQLClient, EventTarget and     *)
(* EventEmitter, parts that call back when something happens, for TLC, one *)
(* of them in each behaviour: "which" says which, and the others stay as   *)
(* they start.  The properties of AsyncSocket are found under their own    *)
(* names.                                                                  *)
(***************************************************************************)
EXTENDS AsyncSocket

CONSTANTS
  Conn, PgConn, MaxOps, MaxRows, Asserts, MaxPromises, MaxIterators, \* the clients
  PlainSignals, DerivedSignals, Waiters, MaxEventCalls, MaxDispatch, \* EventTarget
  HandlerFns, MaxEmitterCalls, MaxEmits                              \* EventEmitter

ASSUME NetworkAssumption ==
  /\ \A n \in {MaxOps, MaxRows, MaxPromises, MaxIterators, MaxEventCalls, MaxDispatch,
              MaxEmitterCalls, MaxEmits} : n \in Nat
  /\ PlainSignals \union DerivedSignals \union Waiters \union HandlerFns \subseteq Nat \ {0}
  /\ PlainSignals \intersect DerivedSignals = {}
  /\ Fd \subseteq Nat /\ Asserts \in BOOLEAN /\ "none" \notin PgConn

VARIABLES
  which,
  closures, io, standing, sock, rows, aborted,                     \* MySQLClient
  conns, results, promises, watch,                                 \* PgSQLClient
  listeners, signalled, reason, onabort, sources, waits, stack, thrown,
  eventCalls, given,                                               \* EventTarget
  arrays, current, emits, fired, parted, emitterCalls              \* EventEmitter

M == INSTANCE MySQLClient
P == INSTANCE PgSQLClient
T == INSTANCE EventTarget WITH aborted <- signalled
E == INSTANCE EventEmitter

myVars == <<closures, io, standing, sock, rows, aborted>>
pgVars == <<conns, results, promises, watch>>
eventVars == <<listeners, signalled, reason, onabort, sources, waits, stack, thrown, eventCalls, given>>
emitterVars == <<arrays, current, emits, fired, parted, emitterCalls>>
vars == <<which, sockVars, myVars, pgVars, eventVars, emitterVars>>

Init ==
  /\ which \in {"sock", "mysql", "pgsql", "targets", "emitters"}
  /\ SockInit /\ M!MyInit /\ P!PgInit /\ T!EventInit /\ E!EmitterInit

Next ==
  /\ \/ which = "sock" /\ SockNext
     \/ which = "mysql" /\ M!MyNext
     \/ which = "pgsql" /\ P!PgNext
     \/ which = "targets" /\ T!EventNext
     \/ which = "emitters" /\ E!EmitterNext
  /\ which # "sock" => UNCHANGED sockVars
  /\ which # "mysql" => UNCHANGED myVars
  /\ which # "pgsql" => UNCHANGED pgVars
  /\ which # "targets" => UNCHANGED eventVars
  /\ which # "emitters" => UNCHANGED emitterVars
  /\ UNCHANGED which

Spec == Init /\ [][Next]_vars /\ SockFairness /\ M!MyFairness

\* The type invariants of the three, and that no descriptor is shared.
TypeOK == SockTypeOK /\ OwnDescriptors /\ M!MyTypeOK /\ P!PgTypeOK

\* The reference counts of the PostgreSQL client, as its module states them.
RefsCounted == P!RefsCounted

\* Calls of sockets and of MySQL connections that wait are answered, with the
\* exceptions that the two modules name.
EveryCallSettles == CallsSettle /\ M!WaitersAreAnswered

\* The handlers the two database clients have in the event loop are the ones their
\* operations want, and none is left of a MySQL connection that was closed; what is left
\* of a PostgreSQL one counts for the connection made after it.  waitOne() hears of
\* the first of its events only, although dispatchEvent() goes on through a copy of the
\* listeners; any() aborts its signal only for what was aborted before.  An emit() calls
\* handlers in the order of their registrations, and one that was removed only after
\* removeAllListeners(), whatever handlers do meanwhile.
HandlersBelong ==
  /\ M!HandlersAsWanted /\ M!NothingGoesOnAfterClose /\ P!HandlersServeTheirPromise
  /\ which = "targets" => T!AnyBehind /\ T!WaitsKept /\ T!EventsTold
  /\ which = "emitters" => E!CalledInOrder /\ E!NoneAfterRemoval /\ E!HidesNoMore /\ E!OnceOnly
=============================================================================
