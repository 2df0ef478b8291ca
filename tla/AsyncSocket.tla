---------------------------- MODULE AsyncSocket ----------------------------
(***************************************************************************)
(* AsyncSocket (src/quickjs-sockets.c): recv, send, accept and connect     *)
(* return a promise and put a handler for the socket's descriptor into the *)
(* event loop; when select() finds the descriptor ready the handler makes  *)
(* the system call, removes itself and settles the promise.  close() does  *)
(* neither of the two, so a handler may outlive its socket and find its    *)
(* descriptor in the hands of another one.                                 *)
(*                                                                         *)
(* Calls are numbered in the order they are made.  An item is what a call  *)
(* takes out of the kernel: a byte for recv, a connection for accept.      *)
(***************************************************************************)
EXTENDS Integers, Sequences, FiniteSets, PrefixSums

CONSTANTS
  Sock,       \* AsyncSocket objects
  Fd,         \* descriptors
  MaxCalls,   \* bound: promises returned
  MaxItems    \* bound: items that wait in one descriptor

ASSUME SockAssumption ==
  MaxCalls \in Nat /\ MaxItems \in Nat /\ 0 \notin Fd

VARIABLES
  life,      \* life[s]: of the object s
  fd,        \* fd[s]: its descriptor, 0 for none
  pending,   \* pending[s][d]: the call asock->pending[] belongs to, 0 for none
  calls,     \* what was asked, of whom, and how its promise stands
  handler,   \* handler[f][d]: the call whose handler the event loop has, or 0
  link,      \* link[f]: the kernel's side of the descriptor
  waiting,   \* waiting[f]: items that arrived
  ended,     \* ended[f]: the peer closed its end
  taken      \* items the system calls have handed out

sockVars == <<life, fd, pending, calls, handler, link, waiting, ended, taken>>

\* magic & 1: which of the two handlers of the descriptor a method waits for.
Dir == {"read", "write"}
Op == {"recv", "accept", "send", "connect"}
DirOf(op) == IF op \in {"recv", "accept"} THEN "read" ELSE "write"

Links == {"unused", "fresh", "connecting", "refused", "connected", "listening"}
Calls == 1..MaxCalls

Open(s) == life[s] = "open"
Owner(c) == calls[c].sock
Unused == {f \in Fd : link[f] = "unused"}

-----------------------------------------------------------------------------
(***************************************************************************)
(* Making and closing sockets.  An object made for an asynchronous socket  *)
(* has no owner bit: the finalizer leaves its descriptor open.             *)
(***************************************************************************)
SockInit ==
  /\ life = [s \in Sock |-> "unborn"] /\ fd = [s \in Sock |-> 0]
  /\ pending = [s \in Sock |-> [d \in Dir |-> 0]] /\ calls = <<>>
  /\ handler = [f \in Fd |-> [d \in Dir |-> 0]]
  /\ link = [f \in Fd |-> "unused"] /\ waiting = [f \in Fd |-> 0]
  /\ ended = [f \in Fd |-> FALSE] /\ taken = 0

Create(s, f) ==
  /\ life[s] = "unborn" /\ f \in Unused
  /\ life' = [life EXCEPT ![s] = "open"] /\ fd' = [fd EXCEPT ![s] = f]
  /\ link' = [link EXCEPT ![f] = "fresh"]
  /\ UNCHANGED <<pending, calls, handler, waiting, ended, taken>>

Listen(s) ==
  /\ Open(s) /\ link[fd[s]] = "fresh"
  /\ link' = [link EXCEPT ![fd[s]] = "listening"]
  /\ UNCHANGED <<life, fd, pending, calls, handler, waiting, ended, taken>>

\* Mutant of Close: the object keeps its descriptor.
CloseKeepsFd(s) ==
  /\ Open(s) /\ link' = [link EXCEPT ![fd[s]] = "unused"]
  /\ waiting' = [waiting EXCEPT ![fd[s]] = 0] /\ ended' = [ended EXCEPT ![fd[s]] = FALSE]
  /\ UNCHANGED <<life, fd, pending, calls, handler, taken>>

Close(s) ==
  /\ Open(s)
  /\ life' = [life EXCEPT ![s] = "closed"] /\ fd' = [fd EXCEPT ![s] = 0]
  /\ link' = [link EXCEPT ![fd[s]] = "unused"]
  /\ waiting' = [waiting EXCEPT ![fd[s]] = 0] /\ ended' = [ended EXCEPT ![fd[s]] = FALSE]
  /\ UNCHANGED <<pending, calls, handler, taken>>

\* The handler's closure refers to the object.
Collect(s) ==
  /\ Open(s) /\ \A f \in Fd, d \in Dir : handler[f][d] # 0 => Owner(handler[f][d]) # s
  /\ life' = [life EXCEPT ![s] = "collected"] /\ fd' = [fd EXCEPT ![s] = 0]
  /\ UNCHANGED <<pending, calls, handler, link, waiting, ended, taken>>

-----------------------------------------------------------------------------
(***************************************************************************)
(* A call.  Of two in one direction the second throws.                     *)
(***************************************************************************)
\* Mutant of js_asyncsocket_method: one waiting call does not keep out the next.
MethodAlways(s, op) ==
  /\ Open(s) /\ Len(calls) < MaxCalls
  /\ calls' = Append(calls, [sock |-> s, op |-> op, st |-> "waiting", items |-> 0])
  /\ pending' = [pending EXCEPT ![s][DirOf(op)] = Len(calls')]
  /\ handler' = [handler EXCEPT ![fd[s]][DirOf(op)] = Len(calls')]

js_asyncsocket_method(s, op) ==
  /\ Open(s) /\ pending[s][DirOf(op)] = 0 /\ Len(calls) < MaxCalls
  /\ calls' = Append(calls, [sock |-> s, op |-> op, st |-> "waiting", items |-> 0])
  /\ pending' = [pending EXCEPT ![s][DirOf(op)] = Len(calls')]
  /\ handler' = [handler EXCEPT ![fd[s]][DirOf(op)] = Len(calls')]

Ask(s, op) ==
  /\ op # "connect" /\ js_asyncsocket_method(s, op)
  /\ UNCHANGED <<life, fd, link, waiting, ended, taken>>

(***************************************************************************)
(* connect() makes the system call before it looks for a pending call, and *)
(* what that returned is overwritten: a connection refused at once leaves  *)
(* the descriptor as it was, one that is refused later leaves an error.    *)
(***************************************************************************)
Connects(was) == CASE was = "fresh" -> {"fresh", "connecting", "connected"}
                   [] was = "refused" -> {"fresh"}
                   [] OTHER -> {was}

Connect(s) ==
  /\ Open(s) /\ \E now \in Connects(link[fd[s]]) : link' = [link EXCEPT ![fd[s]] = now]
  /\ \/ js_asyncsocket_method(s, "connect")
     \/ pending[s]["write"] # 0 /\ UNCHANGED <<calls, pending, handler>>
  /\ UNCHANGED <<life, fd, waiting, ended, taken>>

-----------------------------------------------------------------------------
(***************************************************************************)
(* The kernel and the event loop.  select() fails with EBADF as soon as a  *)
(* handler watches a closed descriptor, and then no handler is called.     *)
(***************************************************************************)
Finish(f, how) ==
  /\ link[f] = "connecting" /\ link' = [link EXCEPT ![f] = how]
  /\ UNCHANGED <<life, fd, pending, calls, handler, waiting, ended, taken>>

Arrive(f) ==
  /\ link[f] \in {"connected", "listening"} /\ ~ended[f] /\ waiting[f] < MaxItems
  /\ waiting' = [waiting EXCEPT ![f] = @ + 1]
  /\ UNCHANGED <<life, fd, pending, calls, handler, link, ended, taken>>

PeerEnds(f) ==
  /\ link[f] = "connected" /\ ended' = [ended EXCEPT ![f] = TRUE]
  /\ UNCHANGED <<life, fd, pending, calls, handler, link, waiting, taken>>

Ready(f, d) ==
  \/ link[f] \in {"fresh", "refused"}
  \/ d = "read" /\ link[f] \in {"connected", "listening"} /\ (waiting[f] > 0 \/ ended[f])
  \/ d = "write" /\ link[f] = "connected"

Blind == \E f \in Unused : handler[f] # [d \in Dir |-> 0]

-----------------------------------------------------------------------------
(***************************************************************************)
(* js_asyncsocket_resolve: the system call, the removal, the promise.      *)
(***************************************************************************)

\* A promise is settled once: what is said of a settled one is lost.
Settled(c, st, n) ==
  IF calls[c].st = "waiting"
    THEN calls' = [calls EXCEPT ![c].st = st, ![c].items = n]
    ELSE UNCHANGED calls

Rejects(c) == Settled(c, "rejected", 0) /\ UNCHANGED <<life, fd, waiting, taken>>

\* The socket is closed: check_open throws, getsockopt() fails.
ResolveClosed(c) == ~Open(Owner(c)) /\ Rejects(c) /\ UNCHANGED link

\* SO_ERROR is read, and cleared by that.
ResolveConnect(c, f) ==
  /\ calls[c].op = "connect" /\ Open(Owner(c))
  /\ IF link[f] = "refused"
       THEN link' = [link EXCEPT ![f] = "fresh"] /\ Rejects(c)
       ELSE Settled(c, "told", IF link[f] = "connected" THEN 1 ELSE 0)
            /\ UNCHANGED <<life, fd, link, waiting, taken>>

\* Any other call meets the error first, and clears it too.
ResolveFails(c, f) ==
  /\ calls[c].op # "connect" /\ Open(Owner(c)) /\ Rejects(c)
  /\ \/ link[f] \in {"fresh", "refused"} /\ link' = [link EXCEPT ![f] = "fresh"]
     \/ calls[c].op = "accept" /\ UNCHANGED link
     \/ calls[c].op \in {"recv", "send"} /\ link[f] = "listening" /\ UNCHANGED link

\* n = 0: the end.
ResolveRecv(c, f) ==
  /\ calls[c].op = "recv" /\ Open(Owner(c)) /\ link[f] = "connected"
  /\ \E n \in IF waiting[f] = 0 THEN {0} ELSE 1..waiting[f] :
       /\ Settled(c, "told", n) /\ waiting' = [waiting EXCEPT ![f] = @ - n]
       /\ taken' = taken + n
  /\ UNCHANGED <<life, fd, link>>

ResolveSend(c, f) ==
  /\ calls[c].op = "send" /\ Open(Owner(c)) /\ link[f] = "connected"
  /\ Settled(c, "told", 0) /\ UNCHANGED <<life, fd, link, waiting, taken>>

\* socket_adopt() makes an object of the new connection.
ResolveAccept(c, f, s, g) ==
  /\ calls[c].op = "accept" /\ Open(Owner(c)) /\ link[f] = "listening" /\ waiting[f] > 0
  /\ life[s] = "unborn" /\ g \in Unused
  /\ life' = [life EXCEPT ![s] = "open"] /\ fd' = [fd EXCEPT ![s] = g]
  /\ link' = [link EXCEPT ![g] = "connected"]
  /\ Settled(c, "told", 1) /\ waiting' = [waiting EXCEPT ![f] = @ - 1] /\ taken' = taken + 1

\* Mutant of Unwatch: the handler stays in the event loop.
UnwatchNot(c) ==
  LET s == Owner(c) d == DirOf(calls[c].op)
  IN IF pending[s][d] = c
       THEN pending' = [pending EXCEPT ![s][d] = 0] /\ UNCHANGED handler
       ELSE UNCHANGED <<pending, handler>>

\* Mutant of Unwatch: the descriptor is watched for nothing any more.
UnwatchBoth(c) ==
  LET s == Owner(c) d == DirOf(calls[c].op)
  IN IF pending[s][d] = c
       THEN /\ pending' = [pending EXCEPT ![s][d] = 0]
            /\ handler' = IF Open(s) THEN [handler EXCEPT ![fd[s]] = [e \in Dir |-> 0]] ELSE handler
       ELSE UNCHANGED <<pending, handler>>

(***************************************************************************)
(* Only the pending call removes a handler, and it removes the one of the  *)
(* descriptor its socket has by then.                                      *)
(***************************************************************************)
Unwatch(c) ==
  LET s == Owner(c) d == DirOf(calls[c].op)
  IN IF pending[s][d] = c
       THEN /\ pending' = [pending EXCEPT ![s][d] = 0]
            /\ handler' = IF Open(s) THEN [handler EXCEPT ![fd[s]][d] = 0] ELSE handler
       ELSE UNCHANGED <<pending, handler>>

Dispatch(f, d) ==
  LET c == handler[f][d]
  IN /\ c # 0 /\ Ready(f, d) /\ ~Blind
     /\ \/ ResolveClosed(c) \/ ResolveConnect(c, f) \/ ResolveFails(c, f)
        \/ ResolveRecv(c, f) \/ ResolveSend(c, f)
        \/ \E s \in Sock, g \in Fd : ResolveAccept(c, f, s, g)
     /\ Unwatch(c) /\ UNCHANGED ended

-----------------------------------------------------------------------------
SockNext ==
  \/ \E s \in Sock, f \in Fd : Create(s, f)
  \/ \E s \in Sock : Listen(s) \/ Close(s) \/ Collect(s) \/ Connect(s)
  \/ \E s \in Sock, op \in Op : Ask(s, op)
  \/ \E f \in Fd, how \in {"connected", "refused"} : Finish(f, how)
  \/ \E f \in Fd : Arrive(f) \/ PeerEnds(f)
  \/ \E f \in Fd, d \in Dir : Dispatch(f, d)

SockSpec == SockInit /\ [][SockNext]_sockVars

(***************************************************************************)
(* js_os_poll() calls one ready handler at a time.  A handler that was     *)
(* called is removed and goes to the end of the list when it is installed  *)
(* again, so each one that stays ready is called in the end.               *)
(***************************************************************************)
SockFairness == \A f \in Fd, d \in Dir : WF_sockVars(Dispatch(f, d))
-----------------------------------------------------------------------------
CallType == [sock : Sock, op : Op, st : {"waiting", "told", "rejected"}, items : Nat]

SockTypeOK ==
  /\ life \in [Sock -> {"unborn", "open", "closed", "collected"}]
  /\ fd \in [Sock -> Fd \union {0}]
  /\ calls \in Seq(CallType) /\ Len(calls) <= MaxCalls
  /\ pending \in [Sock -> [Dir -> 0..Len(calls)]]
  /\ handler \in [Fd -> [Dir -> 0..Len(calls)]]
  /\ link \in [Fd -> Links] /\ waiting \in [Fd -> 0..MaxItems]
  /\ ended \in [Fd -> BOOLEAN] /\ taken \in Nat

\* A descriptor is the open sockets' alone: none is shared, and none that the
\* kernel has closed is taken for open.
OwnDescriptors ==
  \A s \in Sock : Open(s) =>
    /\ fd[s] \in Fd \ Unused
    /\ \A t \in Sock : Open(t) /\ fd[t] = fd[s] => t = s

\* Every call that waits on an open socket has its handler in the event loop,
\* on the socket's own descriptor and in the call's own direction: no close(),
\* no second call and no handler left over by another socket (js_asyncsocket_
\* resolve removes through the object) may take it away.
WaitsAreWatched ==
  \A c \in DOMAIN calls :
    calls[c].st = "waiting" /\ Open(Owner(c)) =>
      /\ pending[Owner(c)][DirOf(calls[c].op)] = c
      /\ handler[fd[Owner(c)]][DirOf(calls[c].op)] = c

\* A handler of an open socket belongs to a call that waits, so it cannot make
\* the system call a second time for a promise that was settled.
WatchedWaits ==
  \A f \in Fd, d \in Dir :
    LET c == handler[f][d]
    IN c # 0 /\ Open(Owner(c)) =>
         calls[c].st = "waiting" /\ fd[Owner(c)] = f /\ DirOf(calls[c].op) = d

\* What each call was told of.
Told == [c \in DOMAIN calls |-> IF calls[c].op \in {"recv", "accept"} THEN calls[c].items ELSE 0]

\* What recv() and accept() took out of the kernel was told to the one that
\* asked: nothing read is lost.
NothingSwallowed == taken = Sums(Told)[Len(calls)]

\* No call waits for ever on a socket that stays ready, unless a handler that a
\* closed socket left behind keeps select() from its work.
Waits(c) == c \in DOMAIN calls /\ calls[c].st = "waiting" /\ Open(Owner(c))
LeftOver == \E f \in Fd, d \in Dir : handler[f][d] # 0 /\ ~Open(Owner(handler[f][d]))
CallsSettle ==
  \A c \in Calls :
    []<>(~Waits(c) \/ LeftOver \/ ~Ready(fd[Owner(c)], DirOf(calls[c].op)))
=============================================================================
