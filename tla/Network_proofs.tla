--------------------------- MODULE Network_proofs ---------------------------
(***************************************************************************)
(* Proofs about the parts of MCNetwork, for any sets of sockets, of        *)
(* connections, of descriptors, signals and handlers and for any bounds:   *)
(* AsyncSocket, the PostgreSQL client, AsyncClosure with the MySQL client, *)
(* EventEmitter, EventTarget, and at the end what follows for MCNetwork's  *)
(* own specification.                                                      *)
(***************************************************************************)
EXTENDS MCNetwork, Induction_proofs, SequenceTheorems, FiniteSetTheorems

-----------------------------------------------------------------------------
(***************************************************************************)
(* AsyncSocket: the descriptors belong to one open socket each, and a call *)
(* that waits keeps its handler.                                           *)
(***************************************************************************)
\* Calls are made on sockets that exist, so a new object has none.
CallsOfBorn == \A c \in DOMAIN calls : life[Owner(c)] # "unborn"

IInv == SockTypeOK /\ OwnDescriptors /\ WaitsAreWatched /\ WatchedWaits /\ CallsOfBorn

-----------------------------------------------------------------------------
\* The invariant holds at first.
LEMMA InitIInv == SockInit => IInv
<1> SUFFICES ASSUME SockInit PROVE IInv
  OBVIOUS
<1>0. calls = <<>> /\ Len(calls) = 0 /\ calls \in Seq(CallType) /\ DOMAIN calls = {}
  BY DEF SockInit
<1>1. SockTypeOK
  BY <1>0, SockAssumption DEF SockInit, SockTypeOK, Links
<1>2. OwnDescriptors
  BY DEF SockInit, OwnDescriptors, Open
<1>3. WaitsAreWatched /\ CallsOfBorn
  BY <1>0 DEF WaitsAreWatched, CallsOfBorn
<1>4. WatchedWaits
  BY DEF SockInit, WatchedWaits
<1> QED BY <1>1, <1>2, <1>3, <1>4 DEF IInv

\* A number of a call, and what SockTypeOK says of the call itself.
LEMMA CallOf ==
  ASSUME SockTypeOK, NEW c \in DOMAIN calls
  PROVE  /\ c \in 1..Len(calls) /\ calls[c] \in CallType
         /\ Owner(c) \in Sock /\ calls[c].op \in Op /\ DirOf(calls[c].op) \in Dir
<1>1. DOMAIN calls = 1..Len(calls) /\ calls[c] \in CallType
  BY DEF SockTypeOK
<1>2. calls[c].sock \in Sock /\ calls[c].op \in Op
  BY <1>1 DEF CallType
<1> QED BY <1>1, <1>2 DEF Owner, DirOf, Dir

\* The call behind a handler exists.
LEMMA HandledCall ==
  ASSUME SockTypeOK, NEW f \in Fd, NEW d \in Dir, handler[f][d] # 0
  PROVE  handler[f][d] \in DOMAIN calls
<1>1. handler[f][d] \in 0..Len(calls) /\ Len(calls) \in Nat /\ DOMAIN calls = 1..Len(calls)
  BY DEF SockTypeOK
<1> QED BY <1>1

-----------------------------------------------------------------------------
(***************************************************************************)
(* Steps that leave the calls and the handlers alone: sockets are made,    *)
(* closed and collected, the kernel acts.                                  *)
(***************************************************************************)
LEMMA SocketsChange ==
  ASSUME IInv, UNCHANGED <<calls, pending, handler>>,
         life' \in [Sock -> {"unborn", "open", "closed", "collected"}],
         fd' \in [Sock -> Fd \union {0}],
         OwnDescriptors',
         \A s \in Sock : Open(s)' => (Open(s) /\ fd'[s] = fd[s]) \/ life[s] = "unborn",
         \A s \in Sock : life'[s] = "unborn" => life[s] = "unborn"
  PROVE  WaitsAreWatched' /\ WatchedWaits' /\ CallsOfBorn'
<1> USE DEF IInv
<1>1. \A c \in DOMAIN calls : Owner(c)' = Owner(c) /\ Owner(c) \in Sock /\ life[Owner(c)] # "unborn"
  BY CallOf DEF Owner, CallsOfBorn
<1>2. CallsOfBorn'
  BY <1>1 DEF CallsOfBorn
<1>3. WaitsAreWatched'
  BY <1>1 DEF WaitsAreWatched, Open
<1>4. WatchedWaits'
  BY <1>1, HandledCall DEF WatchedWaits, Open
<1> QED BY <1>2, <1>3, <1>4

\* socket(), listen(), close(), the garbage collector.
LEMMA SocketSteps ==
  ASSUME IInv, NEW s \in Sock,
         (\E f \in Fd : Create(s, f)) \/ Listen(s) \/ Close(s) \/ Collect(s)
  PROVE  IInv'
<1> USE DEF IInv
<1>0. UNCHANGED <<calls, pending, handler>>
  BY DEF Create, Listen, Close, Collect
<1>1. CASE \E f \in Fd : Create(s, f)
  <2>1. PICK f \in Fd : Create(s, f)
    BY <1>1
  <2>2. SockTypeOK'
    BY <2>1, <1>0 DEF Create, SockTypeOK, Links
  <2>3. OwnDescriptors'
    BY <2>1 DEF Create, OwnDescriptors, Open, Unused, SockTypeOK
  <2> QED BY <2>1, <2>2, <2>3, <1>0, SocketsChange DEF Create, SockTypeOK, Open
<1>2. CASE Listen(s)
  <2>2. SockTypeOK'
    BY <1>2, <1>0 DEF Listen, SockTypeOK, Links
  <2>3. OwnDescriptors'
    BY <1>2 DEF Listen, OwnDescriptors, Open, Unused, SockTypeOK
  <2> QED BY <1>2, <2>2, <2>3, <1>0, SocketsChange DEF Listen, SockTypeOK, Open
<1>3. CASE Close(s)
  <2>2. SockTypeOK'
    <3>1. 0 \in 0..MaxItems
      BY SockAssumption
    <3>2. /\ life' \in [Sock -> {"unborn", "open", "closed", "collected"}] /\ fd' \in [Sock -> Fd \union {0}]
          /\ link' \in [Fd -> Links] /\ ended' \in [Fd -> BOOLEAN] /\ taken' = taken
      BY <1>3 DEF Close, SockTypeOK, Links
    <3>3. waiting' \in [Fd -> 0..MaxItems]
      BY <1>3, <3>1 DEF Close, SockTypeOK
    <3> QED BY <3>2, <3>3, <1>0 DEF SockTypeOK
  <2>3. OwnDescriptors'
    BY <1>3 DEF Close, OwnDescriptors, Open, Unused, SockTypeOK
  <2> QED BY <1>3, <2>2, <2>3, <1>0, SocketsChange DEF Close, SockTypeOK, Open
<1>4. CASE Collect(s)
  <2>2. SockTypeOK'
    BY <1>4, <1>0 DEF Collect, SockTypeOK, Links
  <2>3. OwnDescriptors'
    BY <1>4 DEF Collect, OwnDescriptors, Open, Unused, SockTypeOK
  <2> QED BY <1>4, <2>2, <2>3, <1>0, SocketsChange DEF Collect, SockTypeOK, Open
<1> QED BY <1>1, <1>2, <1>3, <1>4

\* What the kernel does between two calls of select().
LEMMA KernelSteps ==
  ASSUME IInv, NEW f \in Fd,
         (\E how \in {"connected", "refused"} : Finish(f, how)) \/ Arrive(f) \/ PeerEnds(f)
  PROVE  IInv'
<1> USE DEF IInv
<1>0. UNCHANGED <<life, fd, calls, pending, handler>>
  BY DEF Finish, Arrive, PeerEnds
<1>1. link' \in [Fd -> Links] /\ \A g \in Fd : link'[g] = "unused" <=> link[g] = "unused"
  BY DEF Finish, Arrive, PeerEnds, SockTypeOK, Links
<1>2. waiting' \in [Fd -> 0..MaxItems] /\ ended' \in [Fd -> BOOLEAN] /\ taken' \in Nat
  <2>1. CASE \E how \in {"connected", "refused"} : Finish(f, how)
    BY <2>1 DEF Finish, SockTypeOK
  <2>2. CASE Arrive(f)
    BY <2>2, SockAssumption DEF Arrive, SockTypeOK
  <2>3. CASE PeerEnds(f)
    BY <2>3 DEF PeerEnds, SockTypeOK
  <2> QED BY <2>1, <2>2, <2>3
<1>3. SockTypeOK'
  BY <1>0, <1>1, <1>2 DEF SockTypeOK
<1>4. OwnDescriptors'
  BY <1>0, <1>1 DEF OwnDescriptors, Open, Unused
<1> QED BY <1>0, <1>3, <1>4, SocketsChange DEF SockTypeOK, Open

-----------------------------------------------------------------------------
(***************************************************************************)
(* A call: it is the only one of its direction and takes the handler.      *)
(***************************************************************************)
LEMMA Appending ==
  ASSUME NEW S, NEW q \in Seq(S), NEW e \in S
  PROVE  /\ Append(q, e) \in Seq(S) /\ Len(Append(q, e)) = Len(q) + 1
         /\ DOMAIN Append(q, e) = DOMAIN q \union {Len(q) + 1}
         /\ Append(q, e)[Len(q) + 1] = e
         /\ \A i \in DOMAIN q : Append(q, e)[i] = q[i] /\ i # Len(q) + 1
OBVIOUS

LEMMA MethodSteps ==
  ASSUME IInv, NEW s \in Sock, NEW op \in Op, Open(s), js_asyncsocket_method(s, op),
         UNCHANGED <<life, fd, waiting, ended, taken>>,
         link' \in [Fd -> Links], \A g \in Fd : link'[g] = "unused" <=> link[g] = "unused"
  PROVE  IInv'
<1> USE DEF IInv
<1> DEFINE e == [sock |-> s, op |-> op, st |-> "waiting", items |-> 0]
<1> DEFINE n == Len(calls) + 1
<1> DEFINE dir == DirOf(op)
<1>0. dir \in Dir /\ fd[s] \in Fd /\ Len(calls) \in Nat /\ n \in Nat /\ n # 0
  BY DEF DirOf, Dir, OwnDescriptors, SockTypeOK
<1>1. e \in CallType /\ calls \in Seq(CallType)
  BY DEF CallType, SockTypeOK
<1>2. /\ calls' \in Seq(CallType) /\ Len(calls') = n
      /\ DOMAIN calls' = DOMAIN calls \union {n}
      /\ calls'[n] = e
      /\ \A i \in DOMAIN calls : calls'[i] = calls[i] /\ i # n
  BY <1>1, Appending DEF js_asyncsocket_method
<1>3. pending' = [pending EXCEPT ![s][dir] = n] /\ handler' = [handler EXCEPT ![fd[s]][dir] = n]
  BY <1>2 DEF js_asyncsocket_method
<1>4. n <= MaxCalls
  BY <1>0, SockAssumption DEF js_asyncsocket_method
<1> HIDE DEF e, n, dir
<1>5. SockTypeOK'
  <2>1. 0..Len(calls) \subseteq 0..n /\ n \in 0..n
    BY <1>0 DEF n
  <2>2. pending' \in [Sock -> [Dir -> 0..n]] /\ handler' \in [Fd -> [Dir -> 0..n]]
    BY <1>0, <1>3, <2>1 DEF SockTypeOK
  <2> QED BY <1>2, <1>4, <2>2 DEF SockTypeOK
<1>6. OwnDescriptors'
  BY DEF OwnDescriptors, Open, Unused
<1>7. /\ \A c \in DOMAIN calls : Owner(c)' = Owner(c) /\ Owner(c) \in Sock
      /\ calls'[n].sock = s /\ calls'[n].st = "waiting" /\ calls'[n].op = op
  <2>1. calls'[n].sock = s /\ calls'[n].st = "waiting" /\ calls'[n].op = op
    BY <1>2 DEF e
  <2> QED BY <2>1, <1>2, CallOf DEF Owner
<1>8. CallsOfBorn'
  <2> SUFFICES ASSUME NEW c \in DOMAIN calls' PROVE life'[Owner(c)'] # "unborn"
    BY DEF CallsOfBorn
  <2>1. CASE c = n
    BY <2>1, <1>7 DEF Open, Owner
  <2>2. CASE c # n
    BY <2>2, <1>2, <1>7 DEF CallsOfBorn
  <2> QED BY <2>1, <2>2
<1>9. WaitsAreWatched'
  <2> SUFFICES ASSUME NEW c \in DOMAIN calls', calls'[c].st = "waiting", Open(Owner(c))'
               PROVE  /\ pending'[Owner(c)'][DirOf(calls'[c].op)] = c
                      /\ handler'[fd'[Owner(c)']][DirOf(calls'[c].op)] = c
    BY DEF WaitsAreWatched
  <2>1. CASE c = n
    <3>1. Owner(c)' = s /\ DirOf(calls'[c].op) = dir /\ fd' = fd
      BY <2>1, <1>7 DEF Owner, dir
    <3>2. pending'[s][dir] = n /\ handler'[fd[s]][dir] = n
      BY <1>0, <1>3 DEF SockTypeOK
    <3> QED BY <3>1, <3>2, <2>1
  <2>2. CASE c # n
    <3>1. c \in DOMAIN calls /\ calls'[c] = calls[c] /\ Owner(c)' = Owner(c)
      BY <2>2, <1>2, <1>7
    <3>2. pending[Owner(c)][DirOf(calls[c].op)] = c /\ handler[fd[Owner(c)]][DirOf(calls[c].op)] = c
      BY <3>1 DEF WaitsAreWatched, Open
    <3>3. Owner(c) \in Sock /\ DirOf(calls[c].op) \in Dir /\ fd[Owner(c)] \in Fd /\ c # 0
      BY <3>1, CallOf DEF OwnDescriptors, Open
    <3>4. Owner(c) # s \/ DirOf(calls[c].op) # dir
      BY <3>2, <3>3 DEF js_asyncsocket_method, dir
    <3>5. Owner(c) # s => fd[Owner(c)] # fd[s]
      BY <3>1, <3>3 DEF OwnDescriptors, Open
    <3> QED BY <3>1, <3>2, <3>3, <3>4, <3>5, <1>0, <1>3 DEF SockTypeOK
  <2> QED BY <2>1, <2>2
<1>10. WatchedWaits'
  <2> SUFFICES ASSUME NEW f \in Fd, NEW d \in Dir, NEW c, c = handler'[f][d],
                      c # 0, Open(Owner(c))'
               PROVE  calls'[c].st = "waiting" /\ fd'[Owner(c)'] = f /\ DirOf(calls'[c].op) = d
    BY DEF WatchedWaits
  <2>1. CASE f = fd[s] /\ d = dir
    <3>1. c = n
      BY <2>1, <1>0, <1>3 DEF SockTypeOK
    <3>2. Owner(c)' = s /\ calls'[c].st = "waiting" /\ DirOf(calls'[c].op) = dir
      BY <3>1, <1>7 DEF Owner, dir
    <3> QED BY <3>2, <2>1
  <2>2. CASE ~(f = fd[s] /\ d = dir)
    <3>1. c = handler[f][d]
      BY <2>2, <1>0, <1>3 DEF SockTypeOK
    <3>2. c \in DOMAIN calls
      BY <3>1, HandledCall
    <3> QED BY <3>1, <3>2, <1>2, <1>7 DEF WatchedWaits, Open
  <2> QED BY <2>1, <2>2
<1> QED BY <1>5, <1>6, <1>8, <1>9, <1>10

\* recv(), send(), accept() and connect().
LEMMA CallSteps ==
  ASSUME IInv, NEW s \in Sock, (\E op \in Op : Ask(s, op)) \/ Connect(s)
  PROVE  IInv'
<1> USE DEF IInv
<1>1. CASE \E op \in Op : Ask(s, op)
  <2>1. PICK op \in Op : Ask(s, op)
    BY <1>1
  <2>2. Open(s) /\ js_asyncsocket_method(s, op)
    BY <2>1 DEF Ask, js_asyncsocket_method
  <2>3. link' \in [Fd -> Links] /\ \A g \in Fd : link'[g] = "unused" <=> link[g] = "unused"
    BY <2>1 DEF Ask, SockTypeOK
  <2> QED BY <2>1, <2>2, <2>3, MethodSteps DEF Ask
<1>2. CASE Connect(s)
  <2>1. Open(s) /\ fd[s] \in Fd /\ link[fd[s]] # "unused"
    BY <1>2 DEF Connect, OwnDescriptors, Unused
  <2>2. link' \in [Fd -> Links] /\ \A g \in Fd : link'[g] = "unused" <=> link[g] = "unused"
    BY <1>2, <2>1 DEF Connect, Connects, SockTypeOK, Links
  <2>3. UNCHANGED <<life, fd, waiting, ended, taken>>
    BY <1>2 DEF Connect
  <2>4. CASE js_asyncsocket_method(s, "connect")
    BY <2>1, <2>2, <2>3, <2>4, MethodSteps DEF Op
  <2>5. CASE UNCHANGED <<calls, pending, handler>>
    <3>1. SockTypeOK'
      BY <2>2, <2>3, <2>5 DEF SockTypeOK
    <3>2. OwnDescriptors'
      BY <2>2, <2>3 DEF OwnDescriptors, Open, Unused
    <3> QED BY <3>1, <3>2, <2>3, <2>5, SocketsChange DEF SockTypeOK, Open
  <2> QED BY <1>2, <2>4, <2>5 DEF Connect
<1> QED BY <1>1, <1>2

-----------------------------------------------------------------------------
(***************************************************************************)
(* The handler of a call that is settled removes itself.                   *)
(***************************************************************************)

\* What js_asyncsocket_resolve() does to the sockets, the calls and the kernel.
LEMMA Resolving ==
  ASSUME IInv, NEW f \in Fd, NEW d \in Dir, NEW c, c = handler[f][d], Dispatch(f, d)
  PROVE  /\ c \in DOMAIN calls
         /\ ended' = ended
         /\ link' \in [Fd -> Links] /\ waiting' \in [Fd -> 0..MaxItems] /\ taken' \in Nat
         /\ \/ UNCHANGED <<life, fd>> /\ \A g \in Fd : link'[g] = "unused" <=> link[g] = "unused"
            \/ \E s \in Sock, g \in Unused :
                 /\ life[s] = "unborn"
                 /\ life' = [life EXCEPT ![s] = "open"] /\ fd' = [fd EXCEPT ![s] = g]
                 /\ link' = [link EXCEPT ![g] = "connected"]
         /\ \E st \in {"told", "rejected"}, n \in Nat : Settled(c, st, n)
         /\ Unwatch(c)
<1> USE DEF IInv
<1>0. c \in DOMAIN calls /\ ended' = ended /\ Unwatch(c) /\ Ready(f, d)
  BY HandledCall DEF Dispatch
<1>1. CASE ResolveClosed(c)
  BY <1>0, <1>1 DEF ResolveClosed, Rejects, SockTypeOK
<1>2. CASE ResolveConnect(c, f)
  BY <1>0, <1>2 DEF ResolveConnect, Rejects, SockTypeOK, Links
<1>3. CASE ResolveFails(c, f)
  BY <1>0, <1>3 DEF ResolveFails, Rejects, SockTypeOK, Links
<1>4. CASE ResolveRecv(c, f)
  <2>1. PICK n \in IF waiting[f] = 0 THEN {0} ELSE 1..waiting[f] :
          /\ Settled(c, "told", n) /\ waiting' = [waiting EXCEPT ![f] = @ - n]
          /\ taken' = taken + n /\ UNCHANGED <<life, fd, link>>
    BY <1>4 DEF ResolveRecv
  <2>2. waiting[f] \in 0..MaxItems /\ MaxItems \in Nat
    BY SockAssumption DEF SockTypeOK
  <2>3. n \in Nat /\ waiting[f] - n \in 0..MaxItems
    BY <2>2
  <2>4. waiting' \in [Fd -> 0..MaxItems] /\ taken' \in Nat
    BY <2>1, <2>3 DEF SockTypeOK
  <2> QED BY <1>0, <2>1, <2>3, <2>4 DEF SockTypeOK
<1>5. CASE ResolveSend(c, f)
  BY <1>0, <1>5 DEF ResolveSend, SockTypeOK
<1>6. CASE \E s \in Sock, g \in Fd : ResolveAccept(c, f, s, g)
  <2>1. PICK s \in Sock, g \in Fd : ResolveAccept(c, f, s, g)
    BY <1>6
  <2>2. waiting[f] \in 0..MaxItems /\ waiting[f] > 0 /\ MaxItems \in Nat /\ taken \in Nat
    BY <2>1, SockAssumption DEF ResolveAccept, SockTypeOK
  <2>3. waiting[f] - 1 \in 0..MaxItems /\ taken + 1 \in Nat
    BY <2>2
  <2>4. waiting' \in [Fd -> 0..MaxItems] /\ taken' \in Nat /\ link' \in [Fd -> Links]
    BY <2>1, <2>3 DEF ResolveAccept, SockTypeOK, Links
  <2> QED BY <1>0, <2>1, <2>4 DEF ResolveAccept
<1> QED BY <1>1, <1>2, <1>3, <1>4, <1>5, <1>6 DEF Dispatch

LEMMA DispatchSteps ==
  ASSUME IInv, NEW f \in Fd, NEW d \in Dir, Dispatch(f, d)
  PROVE  IInv'
<1> USE DEF IInv
<1> DEFINE c == handler[f][d]
<1> HIDE DEF c
<1>0. /\ c \in DOMAIN calls /\ c \in 1..Len(calls) /\ Owner(c) \in Sock
      /\ DirOf(calls[c].op) \in Dir /\ c # 0 /\ Unwatch(c)
  BY Resolving, CallOf DEF c, SockTypeOK
<1>1. /\ calls' \in Seq(CallType) /\ Len(calls') = Len(calls) /\ DOMAIN calls' = DOMAIN calls
      /\ \A k \in DOMAIN calls : calls'[k].sock = calls[k].sock /\ calls'[k].op = calls[k].op
      /\ \A k \in DOMAIN calls : k # c => calls'[k] = calls[k]
      /\ calls'[c].st # "waiting"
  <2>1. PICK st \in {"told", "rejected"}, n \in Nat : Settled(c, st, n)
    BY Resolving DEF c
  <2>2. calls \in Seq(CallType) /\ calls[c] \in CallType
    BY CallOf, <1>0 DEF SockTypeOK
  <2>3. CASE calls[c].st = "waiting"
    <3>1. calls' = [calls EXCEPT ![c] = [calls[c] EXCEPT !.st = st, !.items = n]]
      BY <2>1, <2>3, <2>2, <1>0 DEF Settled
    <3>2. [calls[c] EXCEPT !.st = st, !.items = n] \in CallType
      BY <2>2 DEF CallType
    <3>3. calls' \in Seq(CallType) /\ Len(calls') = Len(calls) /\ DOMAIN calls' = DOMAIN calls
      BY <3>1, <3>2, <2>2, <1>0
    <3>4. /\ calls'[c] = [calls[c] EXCEPT !.st = st, !.items = n]
          /\ \A k \in DOMAIN calls : k # c => calls'[k] = calls[k]
      BY <3>1, <2>2, <1>0
    <3>5. calls'[c].st = st /\ calls'[c].sock = calls[c].sock /\ calls'[c].op = calls[c].op
      BY <3>4, <2>2 DEF CallType
    <3> QED BY <3>3, <3>4, <3>5
  <2>4. CASE calls[c].st # "waiting"
    BY <2>1, <2>4, <2>2 DEF Settled
  <2> QED BY <2>3, <2>4
<1>2. \A k \in DOMAIN calls : Owner(k)' = Owner(k) /\ Owner(k) \in Sock /\ life[Owner(k)] # "unborn"
  BY <1>1, CallOf DEF Owner, CallsOfBorn
<1>3. /\ life' \in [Sock -> {"unborn", "open", "closed", "collected"}] /\ fd' \in [Sock -> Fd \union {0}]
      /\ OwnDescriptors'
      /\ \A s \in Sock : life[s] # "unborn" => life'[s] = life[s] /\ fd'[s] = fd[s]
  <2>1. CASE UNCHANGED <<life, fd>> /\ \A g \in Fd : link'[g] = "unused" <=> link[g] = "unused"
    BY <2>1 DEF SockTypeOK, OwnDescriptors, Open, Unused
  <2>2. CASE \E s \in Sock, g \in Unused :
               /\ life[s] = "unborn"
               /\ life' = [life EXCEPT ![s] = "open"] /\ fd' = [fd EXCEPT ![s] = g]
               /\ link' = [link EXCEPT ![g] = "connected"]
    BY <2>2 DEF SockTypeOK, OwnDescriptors, Open, Unused
  <2> QED BY <2>1, <2>2, Resolving DEF c
<1>4. /\ pending' \in [Sock -> [Dir -> 0..Len(calls)]] /\ handler' \in [Fd -> [Dir -> 0..Len(calls)]]
      /\ \A s \in Sock, e \in Dir : pending[s][e] # c => pending'[s][e] = pending[s][e]
      /\ \A g \in Fd, e \in Dir : handler'[g][e] = handler[g][e] \/ handler'[g][e] = 0
      /\ \A g \in Fd, e \in Dir : handler[g][e] # c => handler'[g][e] = handler[g][e]
      /\ Open(Owner(c)) => handler'[f][d] = 0
  <2>1. Open(Owner(c)) => /\ fd[Owner(c)] = f /\ DirOf(calls[c].op) = d
                          /\ pending[Owner(c)][d] = c
    BY <1>0 DEF WatchedWaits, WaitsAreWatched, c
  <2>t. 0 \in 0..Len(calls) /\ pending \in [Sock -> [Dir -> 0..Len(calls)]]
        /\ handler \in [Fd -> [Dir -> 0..Len(calls)]]
    BY <1>0 DEF SockTypeOK
  <2>2. CASE pending[Owner(c)][DirOf(calls[c].op)] # c
    <3>1. UNCHANGED <<pending, handler>> /\ ~Open(Owner(c))
      BY <2>1, <2>2, <1>0 DEF Unwatch
    <3> QED BY <3>1, <2>t
  <2>3. CASE pending[Owner(c)][DirOf(calls[c].op)] = c /\ ~Open(Owner(c))
    <3>1. pending' = [pending EXCEPT ![Owner(c)][DirOf(calls[c].op)] = 0] /\ handler' = handler
      BY <2>3, <1>0 DEF Unwatch
    <3> QED BY <3>1, <2>3, <2>t, <1>0
  <2>4. CASE pending[Owner(c)][DirOf(calls[c].op)] = c /\ Open(Owner(c))
    <3>1. pending' = [pending EXCEPT ![Owner(c)][d] = 0] /\ handler' = [handler EXCEPT ![f][d] = 0]
      BY <2>1, <2>4, <1>0 DEF Unwatch
    <3>2. handler[f][d] = c
      BY DEF c
    <3> QED BY <3>1, <3>2, <2>1, <2>4, <2>t, <1>0
  <2> QED BY <2>2, <2>3, <2>4
<1>5. SockTypeOK'
  BY <1>1, <1>3, <1>4, Resolving DEF SockTypeOK, c
<1>6. CallsOfBorn'
  BY <1>1, <1>2, <1>3 DEF CallsOfBorn
<1>7. WaitsAreWatched'
  <2> SUFFICES ASSUME NEW k \in DOMAIN calls', calls'[k].st = "waiting", Open(Owner(k))'
               PROVE  /\ pending'[Owner(k)'][DirOf(calls'[k].op)] = k
                      /\ handler'[fd'[Owner(k)']][DirOf(calls'[k].op)] = k
    BY DEF WaitsAreWatched
  <2>1. /\ k \in DOMAIN calls /\ k # c /\ calls'[k] = calls[k] /\ Owner(k)' = Owner(k)
        /\ Open(Owner(k)) /\ fd'[Owner(k)] = fd[Owner(k)]
    BY <1>1, <1>2, <1>3 DEF Open
  <2>2. pending[Owner(k)][DirOf(calls[k].op)] = k /\ handler[fd[Owner(k)]][DirOf(calls[k].op)] = k
    BY <2>1 DEF WaitsAreWatched
  <2>3. Owner(k) \in Sock /\ DirOf(calls[k].op) \in Dir /\ fd[Owner(k)] \in Fd
    BY <2>1, CallOf DEF OwnDescriptors
  <2> QED BY <2>1, <2>2, <2>3, <1>4
<1>8. WatchedWaits'
  <2> SUFFICES ASSUME NEW g \in Fd, NEW e \in Dir, NEW k, k = handler'[g][e],
                      k # 0, Open(Owner(k))'
               PROVE  calls'[k].st = "waiting" /\ fd'[Owner(k)'] = g /\ DirOf(calls'[k].op) = e
    BY DEF WatchedWaits
  <2>1. k = handler[g][e] /\ k \in DOMAIN calls
    BY <1>4, HandledCall
  <2>2. Owner(k)' = Owner(k) /\ Owner(k) \in Sock /\ Open(Owner(k)) /\ fd'[Owner(k)] = fd[Owner(k)]
    BY <2>1, <1>2, <1>3 DEF Open
  <2>3. calls[k].st = "waiting" /\ fd[Owner(k)] = g /\ DirOf(calls[k].op) = e
    BY <2>1, <2>2 DEF WatchedWaits
  <2>4. k # c
    <3>1. SUFFICES ASSUME k = c PROVE FALSE
      OBVIOUS
    <3>2. Open(Owner(c)) /\ fd[Owner(c)] = f /\ DirOf(calls[c].op) = d
      BY <3>1, <2>2, <1>0 DEF WatchedWaits, c
    <3>3. g = f /\ e = d
      BY <3>1, <3>2, <2>3
    <3> QED BY <3>2, <3>3, <1>4, <2>1
  <2> QED BY <2>1, <2>2, <2>3, <2>4, <1>1
<1> QED BY <1>3, <1>5, <1>6, <1>7, <1>8

-----------------------------------------------------------------------------
\* Every step preserves the invariant.
LEMMA NextIInv == IInv /\ [SockNext]_sockVars => IInv'
<1> SUFFICES ASSUME IInv, [SockNext]_sockVars PROVE IInv'
  OBVIOUS
<1>1. CASE \E s \in Sock : (\E f \in Fd : Create(s, f)) \/ Listen(s) \/ Close(s) \/ Collect(s)
  BY <1>1, SocketSteps
<1>2. CASE \E s \in Sock : (\E op \in Op : Ask(s, op)) \/ Connect(s)
  BY <1>2, CallSteps
<1>3. CASE \E f \in Fd : (\E how \in {"connected", "refused"} : Finish(f, how)) \/ Arrive(f) \/ PeerEnds(f)
  BY <1>3, KernelSteps
<1>4. CASE \E f \in Fd, d \in Dir : Dispatch(f, d)
  BY <1>4, DispatchSteps
<1>5. CASE UNCHANGED sockVars
  <2>1. UNCHANGED <<life, fd, pending, calls, handler, link, waiting, ended, taken>>
    BY <1>5 DEF sockVars
  <2>2. SockTypeOK' /\ OwnDescriptors'
    BY <2>1 DEF IInv, SockTypeOK, OwnDescriptors, Open, Unused
  <2> QED BY <2>1, <2>2, SocketsChange DEF IInv, SockTypeOK, Open
<1> QED BY <1>1, <1>2, <1>3, <1>4, <1>5 DEF SockNext

LEMMA Invariance == SockSpec => []IInv
<1> QED BY InitIInv, NextIInv, PTL DEF SockSpec

-----------------------------------------------------------------------------
(***************************************************************************)
(* What was taken from the kernel is what the calls were told of.  Of a    *)
(* call that waits nothing is told yet.                                    *)
(***************************************************************************)
UntoldWait == \A c \in DOMAIN calls : calls[c].st = "waiting" => calls[c].items = 0

LEMMA ToldOf ==
  ASSUME NEW q \in Seq(CallType), NEW t,
         t = [c \in DOMAIN q |-> IF q[c].op \in {"recv", "accept"} THEN q[c].items ELSE 0]
  PROVE  /\ t \in Seq(Nat) /\ Len(t) = Len(q) /\ DOMAIN q = 1..Len(q) /\ Len(q) \in Nat
         /\ \A c \in DOMAIN q : t[c] = IF q[c].op \in {"recv", "accept"} THEN q[c].items ELSE 0
<1>1. DOMAIN q = 1..Len(q) /\ Len(q) \in Nat
  OBVIOUS
<1>2. \A c \in 1..Len(q) : q[c].items \in Nat
  <2> TAKE c \in 1..Len(q)
  <2>1. q[c] \in CallType
    BY <1>1
  <2> QED BY <2>1 DEF CallType
<1>3. t \in [1..Len(q) -> Nat]
  BY <1>1, <1>2
<1>4. t \in Seq(Nat)
  BY <1>1, <1>3, SeqDef
<1>5. Len(t) = Len(q)
  BY <1>1, <1>3, LenProperties, <1>4
<1> QED BY <1>1, <1>4, <1>5

LEMMA ToldIs ==
  ASSUME SockTypeOK
  PROVE  /\ Told \in Seq(Nat) /\ Len(Told) = Len(calls) /\ DOMAIN calls = 1..Len(calls)
         /\ \A c \in DOMAIN calls : Told[c] = IF calls[c].op \in {"recv", "accept"} THEN calls[c].items ELSE 0
<1>1. calls \in Seq(CallType)
  BY DEF SockTypeOK
<1> QED BY <1>1, ToldOf DEF Told

LEMMA ToldNext ==
  ASSUME SockTypeOK'
  PROVE  /\ Told' \in Seq(Nat) /\ Len(Told') = Len(calls')
         /\ \A c \in DOMAIN calls' : Told'[c] = IF calls'[c].op \in {"recv", "accept"} THEN calls'[c].items ELSE 0
<1>1. calls' \in Seq(CallType)
  BY DEF SockTypeOK
<1> QED BY <1>1, ToldOf DEF Told

\* A call that is made is told of nothing.
LEMMA CallsAddNothing ==
  ASSUME SockTypeOK, SockTypeOK', UntoldWait, NothingSwallowed, taken' = taken,
         NEW e \in CallType, e.items = 0, calls' = Append(calls, e)
  PROVE  UntoldWait' /\ NothingSwallowed'
<1>1. /\ Len(calls') = Len(calls) + 1 /\ DOMAIN calls' = DOMAIN calls \union {Len(calls) + 1}
      /\ DOMAIN calls = 1..Len(calls) /\ Len(calls) \in Nat
      /\ calls'[Len(calls) + 1] = e /\ \A i \in DOMAIN calls : calls'[i] = calls[i]
  BY Appending DEF SockTypeOK
<1>2. UntoldWait'
  BY <1>1 DEF UntoldWait
<1>3. /\ Told' \in Seq(Nat) /\ Len(Told') = Len(calls')
      /\ \A c \in DOMAIN calls' : Told'[c] = IF calls'[c].op \in {"recv", "accept"} THEN calls'[c].items ELSE 0
  BY ToldNext
<1>4. \A i \in 1..Len(Told) : Told'[i] = Told[i]
  <2> TAKE i \in 1..Len(Told)
  <2>1. i \in DOMAIN calls /\ i \in DOMAIN calls' /\ calls'[i] = calls[i]
    BY <1>1, ToldIs
  <2> QED BY <2>1, <1>3, ToldIs
<1>5. Told'[Len(calls')] = 0
  BY <1>1, <1>3
<1>6. Sums(Told')[Len(Told')] = Sums(Told)[Len(Told)] + Told'[Len(Told')]
  <2>1. Told \in Seq(Nat) /\ Told' \in Seq(Nat) /\ Len(Told') = Len(Told) + 1
    BY <1>1, <1>3, ToldIs
  <2> QED BY <2>1, <1>4, SumsAppend
<1>7. Sums(Told)[Len(Told)] \in Nat
  BY ToldIs, SumsProperties
<1>8. NothingSwallowed'
  BY <1>3, <1>5, <1>6, <1>7, ToldIs DEF NothingSwallowed
<1> QED BY <1>2, <1>8

LEMMA StillNothing ==
  ASSUME UntoldWait, NothingSwallowed, UNCHANGED <<calls, taken>>
  PROVE  UntoldWait' /\ NothingSwallowed'
BY DEF UntoldWait, NothingSwallowed, Told

\* What a handler takes it tells its call.
LEMMA HandlerTells ==
  ASSUME IInv, SockTypeOK', UntoldWait, NothingSwallowed,
         NEW f \in Fd, NEW d \in Dir, Dispatch(f, d)
  PROVE  UntoldWait' /\ NothingSwallowed'
<1> DEFINE c == handler[f][d]
<1> HIDE DEF c
<1> USE DEF IInv
<1>0. c \in DOMAIN calls /\ calls[c] \in CallType /\ taken \in Nat /\ calls \in Seq(CallType)
  BY Resolving, CallOf DEF c, SockTypeOK
<1>1. Open(Owner(c)) => calls[c].st = "waiting"
  BY <1>0 DEF c, WatchedWaits
<1> DEFINE Tells(n) ==
      /\ Len(calls') = Len(calls) /\ DOMAIN calls' = DOMAIN calls
      /\ \A i \in DOMAIN calls : i # c => calls'[i] = calls[i]
      /\ calls'[c].op = calls[c].op /\ calls'[c].items = calls[c].items + n
      /\ calls'[c].st # "waiting" /\ n \in Nat
<1>2. ASSUME NEW st \in {"told", "rejected"}, NEW n \in Nat, Settled(c, st, n), calls[c].st = "waiting"
      PROVE  Tells(n)
  <2>1. calls' = [calls EXCEPT ![c] = [calls[c] EXCEPT !.st = st, !.items = n]]
    BY <1>2, <1>0 DEF Settled
  <2>2. /\ Len(calls') = Len(calls) /\ DOMAIN calls' = DOMAIN calls
        /\ \A i \in DOMAIN calls : i # c => calls'[i] = calls[i]
        /\ calls'[c] = [calls[c] EXCEPT !.st = st, !.items = n]
    BY <2>1, <1>0
  <2>3. calls'[c].op = calls[c].op /\ calls'[c].items = n /\ calls'[c].st = st
    BY <2>2, <1>0 DEF CallType
  <2>4. calls[c].items = 0
    BY <1>0, <1>2 DEF UntoldWait
  <2> QED BY <2>2, <2>3, <2>4
<1>3. ASSUME NEW n \in Nat, Tells(n),
             taken' = taken + (IF calls[c].op \in {"recv", "accept"} THEN n ELSE 0)
      PROVE  UntoldWait' /\ NothingSwallowed'
  <2>1. UntoldWait'
    BY <1>3 DEF UntoldWait
  <2> DEFINE m == IF calls[c].op \in {"recv", "accept"} THEN n ELSE 0
  <2>2. /\ Told' \in Seq(Nat) /\ Len(Told') = Len(calls')
        /\ \A i \in DOMAIN calls' : Told'[i] = IF calls'[i].op \in {"recv", "accept"} THEN calls'[i].items ELSE 0
    BY ToldNext
  <2>3. DOMAIN calls = 1..Len(calls) /\ c \in 1..Len(Told) /\ Len(Told') = Len(Told)
    BY <1>0, <1>3, <2>2, ToldIs
  <2>4. \A i \in 1..Len(Told) : i # c => Told'[i] = Told[i]
    BY <1>3, <2>2, <2>3, ToldIs
  <2>5. m \in Nat /\ Told'[c] = Told[c] + m
    <3>1. calls[c].items \in Nat
      BY <1>0 DEF CallType
    <3>2. Told[c] = IF calls[c].op \in {"recv", "accept"} THEN calls[c].items ELSE 0
      BY <1>0, ToldIs
    <3>3. Told'[c] = IF calls[c].op \in {"recv", "accept"} THEN calls[c].items + n ELSE 0
      BY <1>0, <1>3, <2>2
    <3> QED BY <3>1, <3>2, <3>3, <1>3
  <2> HIDE DEF m
  <2>6. Sums(Told')[Len(Told')] = Sums(Told)[Len(Told)] + m
    BY <2>2, <2>3, <2>4, <2>5, ToldIs, SumsGrow
  <2>7. NothingSwallowed'
    BY <1>3, <2>2, <2>6, ToldIs DEF NothingSwallowed, m
  <2> QED BY <2>1, <2>7
<1> HIDE DEF Tells
<1>4. CASE ~Open(Owner(c))
  <2>1. Rejects(c)
    BY <1>4 DEF Dispatch, c, ResolveClosed, ResolveConnect, ResolveFails, ResolveRecv, ResolveSend, ResolveAccept
  <2>2. CASE calls[c].st = "waiting"
    <3>1. Tells(0) /\ taken' = taken
      BY <2>1, <2>2, <1>2 DEF Rejects
    <3> QED BY <3>1, <1>3, <1>0
  <2>3. CASE calls[c].st # "waiting"
    BY <2>1, <2>3, StillNothing DEF Rejects, Settled
  <2> QED BY <2>2, <2>3
<1>5. CASE Open(Owner(c))
  <2>0. CASE ResolveConnect(c, f)
    <3>1. PICK st \in {"told", "rejected"}, n \in {0, 1} : Settled(c, st, n)
      BY <2>0 DEF ResolveConnect, Rejects
    <3>2. taken' = taken /\ calls[c].op = "connect"
      BY <2>0 DEF ResolveConnect, Rejects
    <3>3. n \in Nat /\ Tells(n)
      BY <3>1, <1>1, <1>2, <1>5
    <3> QED BY <3>2, <3>3, <1>3, <1>0
  <2>1. CASE ResolveFails(c, f) \/ ResolveSend(c, f)
    <3>1. taken' = taken /\ \E st \in {"told", "rejected"} : Settled(c, st, 0)
      BY <2>1 DEF ResolveFails, ResolveSend, Rejects
    <3>2. Tells(0)
      BY <3>1, <1>1, <1>2, <1>5
    <3> QED BY <3>1, <3>2, <1>3, <1>0
  <2>2. CASE ResolveRecv(c, f)
    <3>1. PICK n \in IF waiting[f] = 0 THEN {0} ELSE 1..waiting[f] :
            Settled(c, "told", n) /\ taken' = taken + n
      BY <2>2 DEF ResolveRecv
    <3>2. waiting[f] \in Nat /\ n \in Nat
      BY SockAssumption DEF SockTypeOK
    <3>3. Tells(n) /\ calls[c].op = "recv"
      BY <3>1, <3>2, <1>1, <1>2, <1>5, <2>2 DEF ResolveRecv
    <3> QED BY <3>1, <3>2, <3>3, <1>3
  <2>3. CASE \E s \in Sock, g \in Fd : ResolveAccept(c, f, s, g)
    <3>1. Settled(c, "told", 1) /\ taken' = taken + 1 /\ calls[c].op = "accept"
      BY <2>3 DEF ResolveAccept
    <3>2. Tells(1)
      BY <3>1, <1>1, <1>2, <1>5
    <3> QED BY <3>1, <3>2, <1>3
  <2> QED BY <1>5, <2>0, <2>1, <2>2, <2>3 DEF Dispatch, c, ResolveClosed
<1> QED BY <1>4, <1>5

LEMMA NextTold ==
  ASSUME IInv, SockTypeOK', UntoldWait, NothingSwallowed, [SockNext]_sockVars
  PROVE  UntoldWait' /\ NothingSwallowed'
<1>1. CASE \E s \in Sock : (\E f \in Fd : Create(s, f)) \/ Listen(s) \/ Close(s) \/ Collect(s)
  BY <1>1, StillNothing DEF Create, Listen, Close, Collect
<1>2. CASE \E s \in Sock : (\E op \in Op : Ask(s, op)) \/ Connect(s)
  <2>1. \/ UNCHANGED <<calls, taken>>
        \/ \E s \in Sock, op \in Op : js_asyncsocket_method(s, op) /\ taken' = taken
    BY <1>2 DEF Ask, Connect, Op
  <2>2. ASSUME NEW s \in Sock, NEW op \in Op, js_asyncsocket_method(s, op), taken' = taken
        PROVE  UntoldWait' /\ NothingSwallowed'
    <3>1. [sock |-> s, op |-> op, st |-> "waiting", items |-> 0] \in CallType
      BY DEF CallType
    <3> QED BY <2>2, <3>1, CallsAddNothing DEF js_asyncsocket_method, IInv
  <2> QED BY <2>1, <2>2, StillNothing
<1>3. CASE \E f \in Fd : (\E how \in {"connected", "refused"} : Finish(f, how)) \/ Arrive(f) \/ PeerEnds(f)
  BY <1>3, StillNothing DEF Finish, Arrive, PeerEnds
<1>4. CASE \E f \in Fd, d \in Dir : Dispatch(f, d)
  BY <1>4, HandlerTells
<1>5. CASE UNCHANGED sockVars
  BY <1>5, StillNothing DEF sockVars
<1> QED BY <1>1, <1>2, <1>3, <1>4, <1>5 DEF SockNext

-----------------------------------------------------------------------------
\* The variables keep their types.
THEOREM SocketsTyped == SockSpec => []SockTypeOK
<1>1. IInv => SockTypeOK
  BY DEF IInv
<1> QED BY <1>1, Invariance, PTL

\* No two open sockets share a descriptor, and none has one that the kernel has closed.
THEOREM DescriptorsAreOwn == SockSpec => []OwnDescriptors
<1>1. IInv => OwnDescriptors
  BY DEF IInv
<1> QED BY <1>1, Invariance, PTL

\* No close(), second call or leftover handler takes the handler of a waiting call away.
THEOREM WaitingIsWatched == SockSpec => []WaitsAreWatched
<1>1. IInv => WaitsAreWatched
  BY DEF IInv
<1> QED BY <1>1, Invariance, PTL

\* No handler makes a system call for an open socket's promise that was settled before.
THEOREM WatchedIsWaiting == SockSpec => []WatchedWaits
<1>1. IInv => WatchedWaits
  BY DEF IInv
<1> QED BY <1>1, Invariance, PTL

\* What recv() and accept() take from the kernel is told to the calls that asked.
THEOREM AllTakenIsTold == SockSpec => []NothingSwallowed
<1>1. SockInit => UntoldWait /\ NothingSwallowed
  <2> SUFFICES ASSUME SockInit PROVE UntoldWait /\ NothingSwallowed
    OBVIOUS
  <2>1. DOMAIN calls = {} /\ Len(calls) = 0 /\ taken = 0 /\ SockTypeOK
    BY InitIInv DEF SockInit, IInv
  <2>2. Sums(Told)[0] = 0
    BY <2>1, ToldIs, SumsProperties
  <2> QED BY <2>1, <2>2 DEF UntoldWait, NothingSwallowed
<1>2. IInv /\ IInv' /\ UntoldWait /\ NothingSwallowed /\ [SockNext]_sockVars => UntoldWait' /\ NothingSwallowed'
  BY NextTold DEF IInv
<1> QED BY <1>1, <1>2, Invariance, PTL DEF SockSpec

-----------------------------------------------------------------------------
(***************************************************************************)
(* The PostgreSQL client: reference counts.  Its functions take and give   *)
(* the connections and results, w; "Counted" says of such a w that its     *)
(* counts are right, but for one that is too high and is about to be       *)
(* released: that of connection p0, or of result r0.                       *)
(***************************************************************************)
ConnRecord == [object : BOOLEAN, refs : Nat, pq : {"none", "connecting", "up", "bad"},
               async : {"idle", "busy", "more"}, result : Nat]
ResultRecord == [object : BOOLEAN, refs : Nat, conn : PgConn \union {"none"}, its : 0..MaxIterators]
PgWorld == [conns : [PgConn -> ConnRecord], results : Seq(ResultRecord)]

\* The results that hold connection p.
Holders(w, p) == {r \in DOMAIN w.results : w.results[r].conn = p}

ConnsCounted(w, p0) ==
  \A p \in PgConn :
    w.conns[p].refs = P!One(w.conns[p].object) + Cardinality(Holders(w, p)) + (IF p = p0 THEN 1 ELSE 0)
ResultsCounted(w, r0) ==
  \A r \in DOMAIN w.results :
    w.results[r].refs = P!One(w.results[r].object) + w.results[r].its
                        + (IF \E p \in PgConn : w.conns[p].result = r THEN 1 ELSE 0)
                        + (IF r = r0 THEN 1 ELSE 0)
HoldEachOther(w) ==
  \A p \in PgConn : w.conns[p].result # 0 =>
    w.conns[p].result \in DOMAIN w.results /\ w.results[w.conns[p].result].conn = p
Counted(w, p0, r0) ==
  w \in PgWorld /\ ConnsCounted(w, p0) /\ ResultsCounted(w, r0) /\ HoldEachOther(w)

\* An instance has the operators of the standard modules under names of its own.
LEMMA SameCardinality == \A S : P!Cardinality(S) = Cardinality(S)
<1> QED BY DEF P!Cardinality, Cardinality

LEMMA OneIs == P!One(TRUE) = 1 /\ P!One(FALSE) = 0 /\ \A b \in BOOLEAN : P!One(b) \in {0, 1}
<1> QED BY DEF P!One

\* A world's parts, with what their types give for arithmetic.
LEMMA WorldParts ==
  ASSUME NEW w \in PgWorld
  PROVE  /\ w.conns \in [PgConn -> ConnRecord] /\ w.results \in Seq(ResultRecord)
         /\ Len(w.results) \in Nat /\ DOMAIN w.results = 1..Len(w.results)
         /\ \A p \in PgConn : /\ w.conns[p] \in ConnRecord /\ w.conns[p].object \in BOOLEAN
                              /\ w.conns[p].refs \in Nat /\ w.conns[p].result \in Nat
                              /\ IsFiniteSet(Holders(w, p)) /\ Cardinality(Holders(w, p)) \in Nat
         /\ \A r \in DOMAIN w.results :
              /\ w.results[r] \in ResultRecord /\ w.results[r].object \in BOOLEAN
              /\ w.results[r].refs \in Nat /\ w.results[r].its \in 0..MaxIterators
              /\ w.results[r].its \in Int /\ w.results[r].conn \in PgConn \union {"none"}
<1>1. w.conns \in [PgConn -> ConnRecord] /\ w.results \in Seq(ResultRecord)
  BY DEF PgWorld
<1>2. Len(w.results) \in Nat /\ DOMAIN w.results = 1..Len(w.results)
  BY <1>1
<1>3. \A p \in PgConn : /\ w.conns[p] \in ConnRecord /\ w.conns[p].object \in BOOLEAN
                        /\ w.conns[p].refs \in Nat /\ w.conns[p].result \in Nat
  BY <1>1 DEF ConnRecord
<1>4. \A r \in DOMAIN w.results : w.results[r] \in ResultRecord
  BY <1>1, <1>2
<1>5. \A r \in DOMAIN w.results :
        /\ w.results[r].object \in BOOLEAN
        /\ w.results[r].refs \in Nat /\ w.results[r].its \in 0..MaxIterators
        /\ w.results[r].its \in Int /\ w.results[r].conn \in PgConn \union {"none"}
  BY <1>4 DEF ResultRecord
<1>6. \A p \in PgConn : IsFiniteSet(Holders(w, p)) /\ Cardinality(Holders(w, p)) \in Nat
  <2> TAKE p \in PgConn
  <2>1. IsFiniteSet(1..Len(w.results)) /\ Holders(w, p) \subseteq 1..Len(w.results)
    BY <1>2, FS_Interval DEF Holders
  <2> QED BY <2>1, FS_Subset, FS_CardinalityType
<1> QED BY <1>1, <1>2, <1>3, <1>4, <1>5, <1>6

\* One connection, or one result, is replaced.
LEMMA ConnReplaced ==
  ASSUME NEW w \in PgWorld, NEW p \in PgConn, NEW c \in ConnRecord
  PROVE  LET v == [w EXCEPT !.conns[p] = c]
         IN /\ v \in PgWorld /\ v.results = w.results /\ v.conns[p] = c
            /\ \A q \in PgConn \ {p} : v.conns[q] = w.conns[q]
<1> DEFINE cs == [w.conns EXCEPT ![p] = c]
           v == [w EXCEPT !.conns = cs]
<1>1. w.conns \in [PgConn -> ConnRecord] /\ w.results \in Seq(ResultRecord)
  BY DEF PgWorld
<1>2. cs \in [PgConn -> ConnRecord] /\ cs[p] = c /\ \A q \in PgConn \ {p} : cs[q] = w.conns[q]
  BY <1>1
<1> HIDE DEF cs
<1>3. v \in PgWorld /\ v.results = w.results /\ v.conns = cs
  BY <1>1, <1>2 DEF PgWorld
<1>4. [w EXCEPT !.conns[p] = c] = v
  BY DEF cs
<1> QED BY <1>2, <1>3, <1>4

LEMMA ResultReplaced ==
  ASSUME NEW w \in PgWorld, NEW r \in DOMAIN w.results, NEW c \in ResultRecord
  PROVE  LET v == [w EXCEPT !.results[r] = c]
         IN /\ v \in PgWorld /\ v.conns = w.conns /\ v.results[r] = c
            /\ DOMAIN v.results = DOMAIN w.results /\ Len(v.results) = Len(w.results)
            /\ \A q \in DOMAIN w.results \ {r} : v.results[q] = w.results[q]
<1> DEFINE rs == [w.results EXCEPT ![r] = c]
           v == [w EXCEPT !.results = rs]
<1>1. w.conns \in [PgConn -> ConnRecord] /\ w.results \in Seq(ResultRecord)
  BY DEF PgWorld
<1>2. /\ rs \in Seq(ResultRecord) /\ rs[r] = c /\ Len(rs) = Len(w.results)
      /\ DOMAIN rs = DOMAIN w.results
      /\ \A q \in DOMAIN w.results \ {r} : rs[q] = w.results[q]
  BY <1>1
<1> HIDE DEF rs
<1>3. v \in PgWorld /\ v.results = rs /\ v.conns = w.conns
  BY <1>1, <1>2 DEF PgWorld
<1>4. [w EXCEPT !.results[r] = c] = v
  BY DEF rs
<1> QED BY <1>2, <1>3, <1>4

\* What counts for others of the connections is the same, unless one was freed.
SameConns(w, v) ==
  \A q \in PgConn : /\ v.conns[q].object = w.conns[q].object /\ v.conns[q].result = w.conns[q].result
                    /\ v.conns[q].pq \in {w.conns[q].pq, "none"}

\* A reference of connection p goes: the count of nothing else changes.
Less(w, p) == [w EXCEPT !.conns[p] = [w.conns[p] EXCEPT !.refs = w.conns[p].refs - 1]]
LEMMA LessIs ==
  ASSUME NEW w, NEW p \in PgConn, Counted(w, p, 0)
  PROVE  /\ Counted(Less(w, p), "none", 0) /\ Less(w, p).results = w.results
         /\ SameConns(w, Less(w, p))
<1> DEFINE c == [w.conns[p] EXCEPT !.refs = w.conns[p].refs - 1]
           v == Less(w, p)
<1>1. w \in PgWorld /\ ConnsCounted(w, p) /\ ResultsCounted(w, 0) /\ HoldEachOther(w)
  BY DEF Counted
<1>2. w.conns[p].refs = P!One(w.conns[p].object) + Cardinality(Holders(w, p)) + 1
  BY <1>1, OneIs DEF ConnsCounted
<1>3. /\ P!One(w.conns[p].object) \in {0, 1} /\ Cardinality(Holders(w, p)) \in Nat
      /\ w.conns[p].refs \in Nat
  BY <1>1, WorldParts, OneIs
<1>4. /\ w.conns[p].refs - 1 \in Nat
      /\ w.conns[p].refs - 1 = P!One(w.conns[p].object) + Cardinality(Holders(w, p))
  BY <1>2, <1>3
<1>5. /\ c \in ConnRecord /\ c.object = w.conns[p].object /\ c.result = w.conns[p].result
      /\ c.refs = w.conns[p].refs - 1 /\ v = [w EXCEPT !.conns[p] = c] /\ c.pq = w.conns[p].pq
  <2>1. PICK b \in ConnRecord : b = w.conns[p]
    BY <1>1, WorldParts
  <2>2. PICK m \in Nat : m = w.conns[p].refs - 1
    BY <1>4
  <2>3. c = [b EXCEPT !.refs = m]
    BY <2>1, <2>2
  <2>4. v = [w EXCEPT !.conns[p] = c]
    BY DEF Less
  <2> HIDE DEF c, v
  <2>5. c \in ConnRecord /\ c.object = b.object /\ c.result = b.result /\ c.refs = m /\ c.pq = b.pq
    BY <2>3 DEF ConnRecord
  <2> QED BY <2>1, <2>2, <2>4, <2>5
<1> HIDE DEF c, v
<1>6. /\ v.results = w.results /\ v \in PgWorld
      /\ v.conns[p] = c
      /\ \A q \in PgConn \ {p} : v.conns[q] = w.conns[q]
  BY <1>1, <1>5, ConnReplaced
<1>7. \A q \in PgConn : /\ v.conns[q].object = w.conns[q].object /\ v.conns[q].result = w.conns[q].result
                        /\ v.conns[q].pq = w.conns[q].pq
  BY <1>5, <1>6
<1>8. \A q \in PgConn : Holders(v, q) = Holders(w, q)
  BY <1>6 DEF Holders
<1>9. ConnsCounted(v, "none")
  <2> SUFFICES ASSUME NEW q \in PgConn
      PROVE v.conns[q].refs = P!One(v.conns[q].object) + Cardinality(Holders(v, q)) + (IF q = "none" THEN 1 ELSE 0)
    BY DEF ConnsCounted
  <2>1. q # "none"
    BY NetworkAssumption
  <2>2. CASE q = p
    <3>1. v.conns[q].refs = w.conns[p].refs - 1
      BY <1>5, <1>6, <2>2
    <3>2. P!One(v.conns[q].object) + Cardinality(Holders(v, q)) \in Nat
      BY <1>3, <1>7, <1>8, <2>2
    <3> QED BY <1>4, <1>7, <1>8, <2>1, <2>2, <3>1, <3>2
  <2>3. CASE q # p
    <3>2. w.conns[q].refs = P!One(w.conns[q].object) + Cardinality(Holders(w, q)) + 0
      BY <1>1, <2>3 DEF ConnsCounted
    <3>3. v.conns[q] = w.conns[q] /\ Holders(v, q) = Holders(w, q)
      BY <1>6, <1>8, <2>3
    <3> QED BY <2>1, <3>2, <3>3
  <2> QED BY <2>2, <2>3
<1>10. ResultsCounted(v, 0)
  BY <1>1, <1>6, <1>7 DEF ResultsCounted
<1>11. HoldEachOther(v)
  BY <1>1, <1>6, <1>7 DEF HoldEachOther
<1>12. Counted(v, "none", 0)
  BY <1>6, <1>9, <1>10, <1>11 DEF Counted
<1> QED BY <1>6, <1>7, <1>12 DEF v, SameConns

\* pgconn_free() of a connection whose count is one too high.  If that was the last
\* reference no result holds the connection, so it has none either.
LEMMA ConnFreed ==
  ASSUME NEW w, NEW p \in PgConn, Counted(w, p, 0)
  PROVE  LET v == P!pgconn_free(w, p)
         IN Counted(v, "none", 0) /\ v.results = w.results /\ SameConns(w, v)
<1> DEFINE less == Less(w, p)
           v == P!pgconn_free(w, p)
<1>1. /\ Counted(less, "none", 0) /\ less.results = w.results
      /\ SameConns(w, less)
  BY LessIs
<1>2. less = [w EXCEPT !.conns[p].refs = w.conns[p].refs - 1]
  BY DEF Less
<1>3. CASE less.conns[p].refs > 0
  <2>1. v = less
    BY <1>2, <1>3 DEF P!pgconn_free
  <2> QED BY <1>1, <2>1
<1>4. CASE ~(less.conns[p].refs > 0)
  <2>1. less \in PgWorld /\ ConnsCounted(less, "none") /\ HoldEachOther(less) /\ ResultsCounted(less, 0)
    BY <1>1 DEF Counted
  <2>2. less.conns[p].refs \in Nat /\ less.conns[p].refs = 0
    BY <2>1, <1>4, WorldParts
  <2>3. p # "none"
    BY NetworkAssumption
  <2>4. Cardinality(Holders(less, p)) = 0
    <3>1. less.conns[p].refs = P!One(less.conns[p].object) + Cardinality(Holders(less, p)) + (IF p = "none" THEN 1 ELSE 0)
      BY <2>1 DEF ConnsCounted
    <3>2. P!One(less.conns[p].object) \in {0, 1} /\ Cardinality(Holders(less, p)) \in Nat
      BY <2>1, WorldParts, OneIs
    <3> QED BY <2>2, <2>3, <3>1, <3>2
  <2>5. Holders(less, p) = {}
    BY <2>1, <2>4, WorldParts, FS_EmptySet
  <2>6. w.conns[p].result = 0
    BY <1>1, <2>1, <2>5 DEF HoldEachOther, Holders, SameConns
  <2> DEFINE c == [less.conns[p] EXCEPT !.pq = "none"]
  <2>7. v = [less EXCEPT !.conns[p] = c]
    BY <1>2, <1>4, <2>6 DEF P!pgconn_free
  <2>8. /\ c \in ConnRecord /\ c.object = less.conns[p].object /\ c.result = less.conns[p].result
        /\ c.refs = less.conns[p].refs /\ c.pq = "none"
    BY <2>1, WorldParts DEF ConnRecord
  <2> HIDE DEF c, v, less
  <2>12. /\ v.results = less.results /\ v \in PgWorld /\ v.conns[p] = c
         /\ \A q \in PgConn \ {p} : v.conns[q] = less.conns[q]
    BY <2>1, <2>7, <2>8, ConnReplaced
  <2>9. \A q \in PgConn : /\ v.conns[q].object = less.conns[q].object
                          /\ v.conns[q].result = less.conns[q].result
                          /\ v.conns[q].refs = less.conns[q].refs
                          /\ v.conns[q].pq \in {less.conns[q].pq, "none"}
    BY <2>8, <2>12
  <2>10. ConnsCounted(v, "none")
    BY <2>1, <2>12, <2>9 DEF ConnsCounted, Holders
  <2>11. ResultsCounted(v, 0) /\ HoldEachOther(v)
    BY <2>1, <2>12, <2>9 DEF ResultsCounted, HoldEachOther
  <2>13. SameConns(w, v)
    BY <1>1, <2>9 DEF SameConns
  <2> QED BY <1>1, <2>10, <2>11, <2>12, <2>13 DEF Counted, v
<1> QED BY <1>3, <1>4


\* What is known of a result, and that a number is one of a result.
LEMMA CountOf ==
  ASSUME NEW w, NEW p0, NEW r0, Counted(w, p0, r0), NEW r \in DOMAIN w.results
  PROVE  /\ P!One(w.results[r].object) \in {0, 1} /\ w.results[r].its \in Nat
         /\ w.results[r].refs \in Nat /\ r # 0 /\ 0 \notin DOMAIN w.results
         /\ w.results[r].refs = P!One(w.results[r].object) + w.results[r].its
              + (IF \E p \in PgConn : w.conns[p].result = r THEN 1 ELSE 0)
              + (IF r = r0 THEN 1 ELSE 0)
<1>1. w \in PgWorld /\ ResultsCounted(w, r0)
  BY DEF Counted
<1>2. w.results[r].its \in 0..MaxIterators /\ MaxIterators \in Nat
  BY <1>1, WorldParts, NetworkAssumption
<1>3. r # 0 /\ 0 \notin DOMAIN w.results
  BY <1>1, WorldParts
<1> QED BY <1>1, <1>2, <1>3, WorldParts, OneIs DEF ResultsCounted

\* A reference of result r goes.
ResultLess(w, r) ==
  [w EXCEPT !.results[r] = [w.results[r] EXCEPT !.refs = w.results[r].refs - 1]]
LEMMA ResultLessIs ==
  ASSUME NEW w, NEW r \in DOMAIN w.results, Counted(w, "none", r)
  PROVE  LET v == ResultLess(w, r)
         IN /\ Counted(v, "none", 0) /\ v.conns = w.conns
            /\ DOMAIN v.results = DOMAIN w.results
            /\ v.results[r].conn = w.results[r].conn
            /\ \A q \in DOMAIN w.results \ {r} : v.results[q] = w.results[q]
<1> DEFINE c == [w.results[r] EXCEPT !.refs = w.results[r].refs - 1]
           v == ResultLess(w, r)
<1>1. w \in PgWorld /\ ConnsCounted(w, "none") /\ ResultsCounted(w, r) /\ HoldEachOther(w)
  BY DEF Counted
<1>2. /\ w.results[r].refs - 1 \in Nat
      /\ w.results[r].refs - 1 = P!One(w.results[r].object) + w.results[r].its
           + (IF \E p \in PgConn : w.conns[p].result = r THEN 1 ELSE 0)
  BY CountOf
<1>3. /\ c \in ResultRecord /\ c.object = w.results[r].object /\ c.its = w.results[r].its
      /\ c.conn = w.results[r].conn /\ c.refs = w.results[r].refs - 1
      /\ v = [w EXCEPT !.results[r] = c]
  BY <1>1, <1>2, WorldParts DEF ResultRecord, ResultLess
<1> HIDE DEF c, v
<1>4. /\ v \in PgWorld /\ v.conns = w.conns /\ v.results[r] = c
      /\ DOMAIN v.results = DOMAIN w.results
      /\ \A q \in DOMAIN w.results \ {r} : v.results[q] = w.results[q]
  BY <1>1, <1>3, ResultReplaced
<1>5. \A q \in DOMAIN w.results : v.results[q].conn = w.results[q].conn
  BY <1>3, <1>4
<1>6. \A p \in PgConn : Holders(v, p) = Holders(w, p)
  BY <1>4, <1>5 DEF Holders
<1>7. ConnsCounted(v, "none")
  BY <1>1, <1>4, <1>6 DEF ConnsCounted
<1>8. ResultsCounted(v, 0)
  <2> SUFFICES ASSUME NEW q \in DOMAIN w.results
      PROVE v.results[q].refs = P!One(v.results[q].object) + v.results[q].its
                + (IF \E p \in PgConn : v.conns[p].result = q THEN 1 ELSE 0) + (IF q = 0 THEN 1 ELSE 0)
    BY <1>4 DEF ResultsCounted
  <2>1. /\ P!One(w.results[q].object) \in {0, 1} /\ w.results[q].its \in Nat /\ q # 0
        /\ w.results[q].refs = P!One(w.results[q].object) + w.results[q].its
             + (IF \E p \in PgConn : w.conns[p].result = q THEN 1 ELSE 0) + (IF q = r THEN 1 ELSE 0)
    BY CountOf
  <2>2. CASE q = r
    BY <1>2, <1>3, <1>4, <2>1, <2>2
  <2>3. CASE q # r
    BY <1>4, <2>1, <2>3
  <2> QED BY <2>2, <2>3
<1>9. HoldEachOther(v)
  BY <1>1, <1>4, <1>5 DEF HoldEachOther
<1>10. Counted(v, "none", 0)
  BY <1>4, <1>7, <1>8, <1>9 DEF Counted
<1> QED BY <1>4, <1>5, <1>10 DEF v

\* A result that nothing refers to lets go of its connection, whose count is then one
\* too high.
LetsGo(w, r) == [w EXCEPT !.results[r] = [w.results[r] EXCEPT !.conn = "none"]]
LEMMA LetsGoIs ==
  ASSUME NEW w, NEW r \in DOMAIN w.results, Counted(w, "none", 0),
         w.results[r].refs = 0, w.results[r].conn \in PgConn
  PROVE  LET v == LetsGo(w, r)
         IN /\ Counted(v, w.results[r].conn, 0) /\ v.conns = w.conns
            /\ DOMAIN v.results = DOMAIN w.results
            /\ \A q \in DOMAIN w.results \ {r} : v.results[q] = w.results[q]
<1> DEFINE p == w.results[r].conn
           c == [w.results[r] EXCEPT !.conn = "none"]
           v == LetsGo(w, r)
<1>1. w \in PgWorld /\ ConnsCounted(w, "none") /\ ResultsCounted(w, 0) /\ HoldEachOther(w)
  BY DEF Counted
<1>2. ~ \E q \in PgConn : w.conns[q].result = r
  BY CountOf
<1>3. /\ c \in ResultRecord /\ c.object = w.results[r].object /\ c.its = w.results[r].its
      /\ c.conn = "none" /\ c.refs = w.results[r].refs
      /\ v = [w EXCEPT !.results[r] = c]
  BY <1>1, WorldParts DEF ResultRecord, LetsGo
<1> HIDE DEF c, v
<1>4. /\ v \in PgWorld /\ v.conns = w.conns /\ v.results[r] = c
      /\ DOMAIN v.results = DOMAIN w.results
      /\ \A q \in DOMAIN w.results \ {r} : v.results[q] = w.results[q]
  BY <1>1, <1>3, ResultReplaced
<1>5. p \in PgConn /\ "none" \notin PgConn
  BY NetworkAssumption
<1>6. /\ Holders(v, p) = Holders(w, p) \ {r} /\ r \in Holders(w, p)
      /\ \A q \in PgConn \ {p} : Holders(v, q) = Holders(w, q)
  BY <1>3, <1>4, <1>5 DEF Holders
<1>7. Cardinality(Holders(v, p)) = Cardinality(Holders(w, p)) - 1
  <2>1. IsFiniteSet(Holders(w, p))
    BY <1>1, <1>5, WorldParts
  <2>2. Cardinality(Holders(w, p) \ {r}) = Cardinality(Holders(w, p)) - 1
    BY <1>6, <2>1, FS_RemoveElement
  <2> QED BY <1>6, <2>2
<1>8. ConnsCounted(v, p)
  <2> SUFFICES ASSUME NEW q \in PgConn
      PROVE v.conns[q].refs = P!One(v.conns[q].object) + Cardinality(Holders(v, q)) + (IF q = p THEN 1 ELSE 0)
    BY DEF ConnsCounted
  <2>1. /\ w.conns[q].refs = P!One(w.conns[q].object) + Cardinality(Holders(w, q)) + 0
        /\ v.conns[q] = w.conns[q]
    BY <1>1, <1>4, <1>5 DEF ConnsCounted
  <2>2. P!One(w.conns[q].object) \in {0, 1} /\ Cardinality(Holders(w, q)) \in Nat
    BY <1>1, WorldParts, OneIs
  <2>3. CASE q = p
    BY <1>7, <2>1, <2>2, <2>3
  <2>4. CASE q # p
    BY <1>6, <2>1, <2>4
  <2> QED BY <2>3, <2>4
<1>9. ResultsCounted(v, 0)
  BY <1>1, <1>3, <1>4 DEF ResultsCounted
<1>10. HoldEachOther(v)
  BY <1>1, <1>2, <1>4 DEF HoldEachOther
<1>11. Counted(v, p, 0)
  BY <1>4, <1>8, <1>9, <1>10 DEF Counted
<1> QED BY <1>4, <1>11 DEF v

\* pgresult_free() of a result whose count is one too high.
LEMMA ResultFreed ==
  ASSUME NEW w, NEW r \in DOMAIN w.results, Counted(w, "none", r)
  PROVE  LET v == P!pgresult_free(w, r)
         IN /\ Counted(v, "none", 0) /\ DOMAIN v.results = DOMAIN w.results
            /\ \A q \in DOMAIN w.results \ {r} : v.results[q] = w.results[q]
            /\ SameConns(w, v)
<1> DEFINE less == ResultLess(w, r)
           back == LetsGo(less, r)
           v == P!pgresult_free(w, r)
           p == w.results[r].conn
<1>1. /\ Counted(less, "none", 0) /\ less.conns = w.conns
      /\ DOMAIN less.results = DOMAIN w.results /\ less.results[r].conn = p
      /\ \A q \in DOMAIN w.results \ {r} : less.results[q] = w.results[q]
  BY ResultLessIs
<1>2. less = [w EXCEPT !.results[r].refs = w.results[r].refs - 1]
  BY DEF ResultLess
<1>3. CASE less.results[r].refs > 0 \/ p \notin PgConn
  <2>1. v = less
    BY <1>2, <1>3 DEF P!pgresult_free
  <2> QED BY <1>1, <2>1 DEF SameConns
<1>4. CASE ~(less.results[r].refs > 0 \/ p \notin PgConn)
  <2>1. less.results[r].refs = 0
    <3>1. less.results[r].refs \in Nat
      BY <1>1, CountOf
    <3> QED BY <1>4, <3>1
  <2>2. back = [less EXCEPT !.results[r].conn = "none"]
    BY DEF LetsGo
  <2>3. v = P!pgconn_free(back, p)
    BY <1>2, <1>4, <2>2 DEF P!pgresult_free
  <2>4. /\ Counted(back, p, 0) /\ back.conns = less.conns
        /\ DOMAIN back.results = DOMAIN less.results
        /\ \A q \in DOMAIN less.results \ {r} : back.results[q] = less.results[q]
    BY <1>1, <1>4, <2>1, LetsGoIs
  <2> HIDE DEF back, less, v
  <2>5. Counted(v, "none", 0) /\ v.results = back.results /\ SameConns(back, v)
    BY <1>4, <2>3, <2>4, ConnFreed
  <2>6. SameConns(w, v)
    BY <1>1, <2>4, <2>5 DEF SameConns
  <2> QED BY <1>1, <2>4, <2>5, <2>6 DEF v
<1> QED BY <1>3, <1>4


\* A result is made: only its object holds it.
FreshResult == [object |-> TRUE, refs |-> 1, conn |-> "none", its |-> 0]
WithResult(w) == [w EXCEPT !.results = Append(w.results, FreshResult)]
LEMMA WithResultIs ==
  ASSUME NEW w, Counted(w, "none", 0)
  PROVE  LET v == WithResult(w) r == Len(w.results) + 1
         IN /\ Counted(v, "none", 0) /\ v.conns = w.conns
            /\ r \in DOMAIN v.results /\ v.results[r] = FreshResult
            /\ DOMAIN v.results = 1..(Len(w.results) + 1)
            /\ \A q \in PgConn : v.conns[q].result # r
<1> DEFINE v == WithResult(w)
           n == Len(w.results)
           rs == Append(w.results, FreshResult)
<1>1. w \in PgWorld /\ ConnsCounted(w, "none") /\ ResultsCounted(w, 0) /\ HoldEachOther(w)
  BY DEF Counted
<1>2. /\ n \in Nat /\ DOMAIN w.results = 1..n /\ w.results \in Seq(ResultRecord)
      /\ w.conns \in [PgConn -> ConnRecord]
  BY <1>1, WorldParts
<1>3. FreshResult \in ResultRecord
  BY NetworkAssumption DEF FreshResult, ResultRecord
<1>4. /\ rs \in Seq(ResultRecord) /\ rs[n + 1] = FreshResult /\ DOMAIN rs = 1..(n + 1)
      /\ \A q \in 1..n : rs[q] = w.results[q]
  BY <1>2, <1>3
<1> HIDE DEF rs, n
<1>5. v.results = rs /\ v.conns = w.conns /\ v \in PgWorld
  <2>1. v = [w EXCEPT !.results = rs]
    BY DEF WithResult, rs
  <2> QED BY <1>1, <1>2, <1>4, <2>1 DEF PgWorld
<1> HIDE DEF v
<1>6. \A q \in PgConn : Holders(v, q) = Holders(w, q)
  <2>1. FreshResult.conn = "none" /\ "none" \notin PgConn
    BY NetworkAssumption DEF FreshResult
  <2>2. 1..(n + 1) = 1..n \union {n + 1} /\ n + 1 \notin 1..n
    BY <1>2
  <2> QED BY <1>2, <1>4, <1>5, <2>1, <2>2 DEF Holders
<1>7. ConnsCounted(v, "none")
  BY <1>1, <1>5, <1>6 DEF ConnsCounted
<1>8. \A q \in PgConn : w.conns[q].result # n + 1
  <2> TAKE q \in PgConn
  <2>1. w.conns[q].result = 0 \/ w.conns[q].result \in 1..n
    BY <1>1, <1>2 DEF HoldEachOther
  <2> QED BY <1>2, <2>1
<1>9. ResultsCounted(v, 0)
  <2> SUFFICES ASSUME NEW q \in 1..(n + 1)
      PROVE v.results[q].refs = P!One(v.results[q].object) + v.results[q].its
                + (IF \E p \in PgConn : v.conns[p].result = q THEN 1 ELSE 0) + (IF q = 0 THEN 1 ELSE 0)
    BY <1>4, <1>5 DEF ResultsCounted
  <2>1. CASE q = n + 1
    <3>1. v.results[q].refs = 1 /\ v.results[q].object = TRUE /\ v.results[q].its = 0 /\ q # 0
      BY <1>2, <1>4, <1>5, <2>1 DEF FreshResult
    <3>2. ~ \E p \in PgConn : v.conns[p].result = q
      BY <1>5, <1>8, <2>1
    <3>3. P!One(v.results[q].object) = 1
      BY <3>1, OneIs
    <3> QED BY <3>1, <3>2, <3>3
  <2>2. CASE q # n + 1
    <3>1. q \in 1..n
      BY <1>2, <2>2
    <3> QED BY <1>1, <1>2, <1>4, <1>5, <3>1 DEF ResultsCounted
  <2> QED BY <2>1, <2>2
<1>10. HoldEachOther(v)
  <2> SUFFICES ASSUME NEW q \in PgConn, w.conns[q].result # 0
      PROVE w.conns[q].result \in 1..(n + 1) /\ v.results[w.conns[q].result].conn = q
    BY <1>4, <1>5 DEF HoldEachOther
  <2>1. w.conns[q].result \in 1..n /\ w.results[w.conns[q].result].conn = q
    BY <1>1, <1>2 DEF HoldEachOther
  <2> QED BY <1>2, <1>4, <1>5, <2>1
<1>11. Counted(v, "none", 0)
  BY <1>5, <1>7, <1>9, <1>10 DEF Counted
<1>12. n + 1 \in 1..(n + 1)
  BY <1>2
<1> QED BY <1>4, <1>5, <1>8, <1>11, <1>12 DEF v, n

\* The connection forgets its result, whose count is then one too high.
Forgets(w, p) == [w EXCEPT !.conns[p] = [w.conns[p] EXCEPT !.result = 0]]
LEMMA ForgetsIs ==
  ASSUME NEW w, NEW p \in PgConn, Counted(w, "none", 0), w.conns[p].result # 0
  PROVE  LET v == Forgets(w, p)
         IN /\ Counted(v, "none", w.conns[p].result) /\ v.results = w.results
            /\ w.conns[p].result \in DOMAIN w.results
            /\ v.conns[p].result = 0
            /\ \A q \in PgConn : v.conns[q].pq = w.conns[q].pq
<1> DEFINE c == [w.conns[p] EXCEPT !.result = 0]
           v == Forgets(w, p)
           r == w.conns[p].result
<1>1. w \in PgWorld /\ ConnsCounted(w, "none") /\ ResultsCounted(w, 0) /\ HoldEachOther(w)
  BY DEF Counted
<1>2. /\ c \in ConnRecord /\ c.object = w.conns[p].object /\ c.refs = w.conns[p].refs
      /\ c.result = 0 /\ v = [w EXCEPT !.conns[p] = c] /\ c.pq = w.conns[p].pq
  <2>1. PICK b \in ConnRecord : b = w.conns[p]
    BY <1>1, WorldParts
  <2>2. c = [b EXCEPT !.result = 0]
    BY <2>1
  <2>3. v = [w EXCEPT !.conns[p] = c]
    BY DEF Forgets
  <2> HIDE DEF c, v
  <2>4. c \in ConnRecord /\ c.object = b.object /\ c.refs = b.refs /\ c.result = 0 /\ c.pq = b.pq
    BY <2>2 DEF ConnRecord
  <2> QED BY <2>1, <2>3, <2>4
<1> HIDE DEF c, v
<1>3. /\ v \in PgWorld /\ v.results = w.results /\ v.conns[p] = c
      /\ \A q \in PgConn \ {p} : v.conns[q] = w.conns[q]
  BY <1>1, <1>2, ConnReplaced
<1>4. ConnsCounted(v, "none")
  BY <1>1, <1>2, <1>3 DEF ConnsCounted, Holders
<1>5. r \in DOMAIN w.results /\ w.results[r].conn = p
  BY <1>1 DEF HoldEachOther
<1>6. \A q \in DOMAIN w.results : (\E x \in PgConn : v.conns[x].result = q)
                                  <=> (\E x \in PgConn : w.conns[x].result = q) /\ q # r
  <2> TAKE q \in DOMAIN w.results
  <2>0. q # 0
    BY CountOf
  <2>1. CASE q = r
    <3>1. \A x \in PgConn : w.conns[x].result = r => x = p
      BY <1>1, <1>5 DEF HoldEachOther
    <3> QED BY <1>2, <1>3, <2>0, <2>1, <3>1
  <2>2. CASE q # r
    BY <1>2, <1>3, <2>0, <2>2
  <2> QED BY <2>1, <2>2
<1>7. ResultsCounted(v, r)
  <2> SUFFICES ASSUME NEW q \in DOMAIN w.results
      PROVE w.results[q].refs = P!One(w.results[q].object) + w.results[q].its
                + (IF \E x \in PgConn : v.conns[x].result = q THEN 1 ELSE 0) + (IF q = r THEN 1 ELSE 0)
    BY <1>3 DEF ResultsCounted
  <2>1. /\ P!One(w.results[q].object) \in {0, 1} /\ w.results[q].its \in Nat /\ q # 0
        /\ w.results[q].refs = P!One(w.results[q].object) + w.results[q].its
             + (IF \E x \in PgConn : w.conns[x].result = q THEN 1 ELSE 0) + (IF q = 0 THEN 1 ELSE 0)
    BY CountOf
  <2>2. q = r => \E x \in PgConn : w.conns[x].result = q
    OBVIOUS
  <2> QED BY <1>6, <2>1, <2>2
<1>8. HoldEachOther(v)
  BY <1>1, <1>2, <1>3 DEF HoldEachOther
<1>9. Counted(v, "none", r)
  BY <1>3, <1>4, <1>7, <1>8 DEF Counted
<1>10. \A q \in PgConn : v.conns[q].pq = w.conns[q].pq
  BY <1>2, <1>3
<1> QED BY <1>2, <1>3, <1>5, <1>9, <1>10 DEF v


\* A connection and a result come to hold each other, when neither had such a holder.
Holding(w, p, r) ==
  [w EXCEPT !.conns[p] = [w.conns[p] EXCEPT !.result = r, !.refs = w.conns[p].refs + 1],
            !.results[r] = [w.results[r] EXCEPT !.conn = p, !.refs = w.results[r].refs + 1]]
LEMMA HoldingIs ==
  ASSUME NEW w, NEW p \in PgConn, NEW r \in DOMAIN w.results, Counted(w, "none", 0),
         w.conns[p].result = 0, w.results[r].conn = "none"
  PROVE  /\ Counted(Holding(w, p, r), "none", 0)
         /\ \A q \in PgConn : Holding(w, p, r).conns[q].pq = w.conns[q].pq
<1> DEFINE c == [w.conns[p] EXCEPT !.result = r, !.refs = w.conns[p].refs + 1]
           d == [w.results[r] EXCEPT !.conn = p, !.refs = w.results[r].refs + 1]
           u == [w EXCEPT !.conns[p] = c]
           v == Holding(w, p, r)
<1>1. w \in PgWorld /\ ConnsCounted(w, "none") /\ ResultsCounted(w, 0) /\ HoldEachOther(w)
  BY DEF Counted
<1>2. r \in Nat /\ r # 0 /\ "none" \notin PgConn
  <2>1. DOMAIN w.results = 1..Len(w.results) /\ Len(w.results) \in Nat
    BY <1>1, WorldParts
  <2> QED BY <2>1, NetworkAssumption
<1>3. /\ c \in ConnRecord /\ c.object = w.conns[p].object /\ c.refs = w.conns[p].refs + 1
      /\ c.result = r /\ c.pq = w.conns[p].pq
  <2>1. w.conns[p] \in ConnRecord /\ w.conns[p].refs \in Nat
    BY <1>1, WorldParts
  <2>2. w.conns[p].refs + 1 \in Nat
    BY <2>1
  <2> QED BY <1>2, <2>1, <2>2 DEF ConnRecord
<1>4. /\ d \in ResultRecord /\ d.object = w.results[r].object /\ d.its = w.results[r].its
      /\ d.refs = w.results[r].refs + 1 /\ d.conn = p
  <2>1. w.results[r] \in ResultRecord /\ w.results[r].refs \in Nat
    BY <1>1, WorldParts
  <2>2. w.results[r].refs + 1 \in Nat
    BY <2>1
  <2> QED BY <2>1, <2>2 DEF ResultRecord
<1>5. v = [u EXCEPT !.results[r] = d]
  BY <1>1 DEF Holding, PgWorld
<1> HIDE DEF c, d, v
<1>6. /\ u \in PgWorld /\ u.results = w.results /\ u.conns[p] = c
      /\ \A q \in PgConn \ {p} : u.conns[q] = w.conns[q]
  BY <1>1, <1>3, ConnReplaced
<1> HIDE DEF u
<1>7. /\ v \in PgWorld /\ v.conns = u.conns /\ v.results[r] = d
      /\ DOMAIN v.results = DOMAIN w.results
      /\ \A q \in DOMAIN w.results \ {r} : v.results[q] = w.results[q]
  BY <1>4, <1>5, <1>6, ResultReplaced
<1>8. /\ Holders(v, p) = Holders(w, p) \union {r} /\ r \notin Holders(w, p)
      /\ \A q \in PgConn \ {p} : Holders(v, q) = Holders(w, q)
  BY <1>2, <1>4, <1>7 DEF Holders
<1>9. Cardinality(Holders(v, p)) = Cardinality(Holders(w, p)) + 1
  <2>1. IsFiniteSet(Holders(w, p))
    BY <1>1, WorldParts
  <2>2. Cardinality(Holders(w, p) \union {r}) = Cardinality(Holders(w, p)) + 1
    BY <1>8, <2>1, FS_AddElement
  <2> QED BY <1>8, <2>2
<1>10. ConnsCounted(v, "none")
  <2> SUFFICES ASSUME NEW q \in PgConn
      PROVE v.conns[q].refs = P!One(v.conns[q].object) + Cardinality(Holders(v, q)) + 0
    BY <1>2 DEF ConnsCounted
  <2>1. w.conns[q].refs = P!One(w.conns[q].object) + Cardinality(Holders(w, q)) + 0
    BY <1>1, <1>2 DEF ConnsCounted
  <2>2. P!One(w.conns[q].object) \in {0, 1} /\ Cardinality(Holders(w, q)) \in Nat
    BY <1>1, WorldParts, OneIs
  <2>3. CASE q = p
    BY <1>3, <1>6, <1>7, <1>9, <2>1, <2>2, <2>3
  <2>4. CASE q # p
    BY <1>6, <1>7, <1>8, <2>1, <2>4
  <2> QED BY <2>3, <2>4
<1>11. \A x \in PgConn : w.conns[x].result # r
  BY <1>1, <1>2 DEF HoldEachOther
<1>12. ResultsCounted(v, 0)
  <2> SUFFICES ASSUME NEW q \in DOMAIN w.results
      PROVE v.results[q].refs = P!One(v.results[q].object) + v.results[q].its
                + (IF \E x \in PgConn : v.conns[x].result = q THEN 1 ELSE 0) + (IF q = 0 THEN 1 ELSE 0)
    BY <1>7 DEF ResultsCounted
  <2>1. /\ P!One(w.results[q].object) \in {0, 1} /\ w.results[q].its \in Nat /\ q # 0
        /\ w.results[q].refs = P!One(w.results[q].object) + w.results[q].its
             + (IF \E x \in PgConn : w.conns[x].result = q THEN 1 ELSE 0) + (IF q = 0 THEN 1 ELSE 0)
    BY CountOf
  <2>2. CASE q = r
    <3>1. \E x \in PgConn : v.conns[x].result = q
      BY <1>3, <1>6, <1>7, <2>2
    <3>2. v.results[q] = d /\ w.results[q].refs = P!One(w.results[q].object) + w.results[q].its
      BY <1>7, <1>11, <2>1, <2>2
    <3> QED BY <1>4, <2>1, <2>2, <3>1, <3>2
  <2>3. CASE q # r
    <3>1. (\E x \in PgConn : v.conns[x].result = q) <=> (\E x \in PgConn : w.conns[x].result = q)
      BY <1>3, <1>6, <1>7, <2>1, <2>3
    <3> QED BY <1>7, <2>1, <2>3, <3>1
  <2> QED BY <2>2, <2>3
<1>13. HoldEachOther(v)
  BY <1>1, <1>2, <1>3, <1>4, <1>6, <1>7, <1>11 DEF HoldEachOther
<1>14. \A q \in PgConn : v.conns[q].pq = w.conns[q].pq
  BY <1>3, <1>6, <1>7
<1> QED BY <1>7, <1>10, <1>12, <1>13, <1>14 DEF Counted, v

\* pgconn_result(): the old result is released, the new one made.
LEMMA ResultMade ==
  ASSUME NEW w, NEW p \in PgConn, Counted(w, "none", 0)
  PROVE  LET v == P!pgconn_result(w, p)
         IN /\ Counted(v, "none", 0)
            /\ \A q \in PgConn : v.conns[q].pq \in {w.conns[q].pq, "none"}
<1> DEFINE r == Len(w.results) + 1
           new == WithResult(w)
           old == new.conns[p].result
           w1 == IF old = 0 THEN new ELSE P!pgresult_free(Forgets(new, p), old)
<1>1. /\ Counted(new, "none", 0) /\ r \in DOMAIN new.results /\ new.results[r] = FreshResult
      /\ \A q \in PgConn : new.conns[q].result # r
      /\ new.conns = w.conns
  BY WithResultIs
<1>2. P!pgconn_result(w, p) =
        P!pgresult_set_conn([w1 EXCEPT !.conns[p].result = r, !.results[r].refs = w1.results[r].refs + 1], r, p)
  BY DEF P!pgconn_result, P!pgconn_set_result, WithResult, FreshResult, Forgets
<1> HIDE DEF new, r
<1>3. /\ Counted(w1, "none", 0) /\ r \in DOMAIN w1.results /\ w1.conns[p].result = 0
      /\ w1.results[r].conn = "none"
      /\ \A q \in PgConn : w1.conns[q].pq \in {w.conns[q].pq, "none"}
  <2>0. new.results[r].conn = "none"
    BY <1>1 DEF FreshResult
  <2>1. CASE old = 0
    BY <1>1, <2>0, <2>1
  <2>2. CASE old # 0
    <3> DEFINE f == Forgets(new, p)
    <3>1. /\ Counted(f, "none", old) /\ f.results = new.results /\ old \in DOMAIN new.results
          /\ f.conns[p].result = 0
          /\ \A q \in PgConn : f.conns[q].pq = new.conns[q].pq
      BY <1>1, <2>2, ForgetsIs
    <3> HIDE DEF f
    <3>2. w1 = P!pgresult_free(f, old)
      BY <2>2 DEF f
    <3>3. /\ Counted(w1, "none", 0) /\ DOMAIN w1.results = DOMAIN f.results
          /\ \A q \in DOMAIN f.results \ {old} : w1.results[q] = f.results[q]
          /\ SameConns(f, w1)
      <4> HIDE DEF old, w1
      <4> QED BY <3>1, <3>2, ResultFreed
    <3>4. old # r
      BY <1>1
    <3> QED BY <1>1, <2>0, <3>1, <3>3, <3>4 DEF SameConns
  <2> QED BY <2>1, <2>2
<1> HIDE DEF w1
<1>4. P!pgconn_result(w, p) = Holding(w1, p, r)
  <2>1. w1 \in PgWorld /\ w1.conns \in [PgConn -> ConnRecord] /\ w1.results \in Seq(ResultRecord)
    BY <1>3 DEF Counted, PgWorld
  <2> DEFINE s == [w1 EXCEPT !.conns[p].result = r, !.results[r].refs = w1.results[r].refs + 1]
             c1 == [w1.conns EXCEPT ![p] = [w1.conns[p] EXCEPT !.result = r]]
             d1 == [w1.results EXCEPT ![r] = [w1.results[r] EXCEPT !.refs = w1.results[r].refs + 1]]
             c2 == [c1 EXCEPT ![p] = [c1[p] EXCEPT !.refs = c1[p].refs + 1]]
             d2 == [d1 EXCEPT ![r] = [d1[r] EXCEPT !.conn = p]]
  <2>0. w1 = [conns |-> w1.conns, results |-> w1.results]
    BY <2>1 DEF PgWorld
  <2>2. s = [conns |-> c1, results |-> d1]
    <3>1. s = [w1 EXCEPT !.conns = c1, !.results = d1]
      OBVIOUS
    <3> HIDE DEF c1, d1, s
    <3> QED BY <2>0, <3>1
  <2>3. P!pgresult_set_conn(s, r, p) = [conns |-> c2, results |-> d2]
    <3> HIDE DEF c1, d1, s
    <3>1. P!pgresult_set_conn(s, r, p) =
            [s EXCEPT !.results = [s.results EXCEPT ![r] = [s.results[r] EXCEPT !.conn = p]],
                      !.conns = [s.conns EXCEPT ![p] = [s.conns[p] EXCEPT !.refs = s.conns[p].refs + 1]]]
      BY DEF P!pgresult_set_conn
    <3>2. s.conns = c1 /\ s.results = d1
      BY <2>2
    <3>3. P!pgresult_set_conn(s, r, p) = [s EXCEPT !.results = d2, !.conns = c2]
      BY <3>1, <3>2
    <3> HIDE DEF c2, d2
    <3> QED BY <2>2, <3>3
  <2>4. c2 = [w1.conns EXCEPT ![p] = [w1.conns[p] EXCEPT !.result = r, !.refs = w1.conns[p].refs + 1]]
    BY <2>1 DEF ConnRecord
  <2>5. d2 = [w1.results EXCEPT ![r] = [w1.results[r] EXCEPT !.conn = p, !.refs = w1.results[r].refs + 1]]
    <3> DEFINE D == w1.results[r]
               e == [D EXCEPT !.conn = p, !.refs = D.refs + 1]
    <3>1. /\ D \in ResultRecord /\ w1.results = [q \in DOMAIN w1.results |-> w1.results[q]]
      BY <2>1, <1>3
    <3>2. d1[r] = [D EXCEPT !.refs = D.refs + 1] /\ DOMAIN d1 = DOMAIN w1.results
      BY <1>3
    <3>3. [d1[r] EXCEPT !.conn = p] = e
      BY <3>1, <3>2 DEF ResultRecord
    <3>4. d2 = [d1 EXCEPT ![r] = e]
      BY <3>3
    <3> HIDE DEF e
    <3> QED BY <3>4 DEF e
  <2>6. Holding(w1, p, r) = [conns |-> c2, results |-> d2]
    <3>1. Holding(w1, p, r) = [w1 EXCEPT !.conns = c2, !.results = d2]
      <4> HIDE DEF c2, d2
      <4> QED BY <2>4, <2>5 DEF Holding
    <3> HIDE DEF c2, d2
    <3> QED BY <2>0, <3>1
  <2> QED BY <1>2, <2>3, <2>6
<1> QED BY <1>3, <1>4, HoldingIs


-----------------------------------------------------------------------------
(***************************************************************************)
(* The state of the PostgreSQL client.                                     *)
(***************************************************************************)
\* RefsCounted, as PgSQLClient states it of its variables.
CountsAgree(cs, rs) ==
  /\ \A p \in PgConn :
       cs[p].refs = P!One(cs[p].object) + Cardinality({r \in DOMAIN rs : rs[r].conn = p})
  /\ \A r \in DOMAIN rs :
       rs[r].refs = P!One(rs[r].object) + rs[r].its + Cardinality({p \in PgConn : cs[p].result = r})
  /\ \A p \in PgConn : cs[p].result # 0 => rs[cs[p].result].conn = p

\* Since they hold each other, one connection at most holds a result.
LEMMA OneHolder ==
  ASSUME NEW w \in PgWorld, NEW r, r # 0,
         \A p \in PgConn : w.conns[p].result # 0 => w.results[w.conns[p].result].conn = p
  PROVE  Cardinality({p \in PgConn : w.conns[p].result = r})
           = IF \E p \in PgConn : w.conns[p].result = r THEN 1 ELSE 0
<1> DEFINE S == {p \in PgConn : w.conns[p].result = r}
<1>1. CASE \E p \in PgConn : w.conns[p].result = r
  <2>1. PICK p \in PgConn : w.conns[p].result = r
    BY <1>1
  <2>2. S = {p}
    BY <2>1
  <2> QED BY <1>1, <2>2, FS_Singleton
<1>2. CASE ~ \E p \in PgConn : w.conns[p].result = r
  <2>1. S = {}
    BY <1>2
  <2> QED BY <1>2, <2>1, FS_EmptySet
<1> QED BY <1>1, <1>2

LEMMA CountsAgreeIs ==
  ASSUME NEW w \in PgWorld
  PROVE  Counted(w, "none", 0)
           <=> CountsAgree(w.conns, w.results) /\ \A p \in PgConn : w.conns[p].result \in 0..Len(w.results)
<1>0. /\ Len(w.results) \in Nat /\ DOMAIN w.results = 1..Len(w.results) /\ "none" \notin PgConn
      /\ \A p \in PgConn : w.conns[p].result \in Nat
  BY WorldParts, NetworkAssumption
<1>1. \A p \in PgConn : P!One(w.conns[p].object) \in {0, 1} /\ Cardinality(Holders(w, p)) \in Nat
  BY WorldParts, OneIs
<1>2. ConnsCounted(w, "none") <=>
        \A p \in PgConn :
          w.conns[p].refs = P!One(w.conns[p].object)
                            + Cardinality({r \in DOMAIN w.results : w.results[r].conn = p})
  BY <1>0, <1>1 DEF ConnsCounted, Holders
<1>3. HoldEachOther(w) <=>
        /\ \A p \in PgConn : w.conns[p].result # 0 => w.results[w.conns[p].result].conn = p
        /\ \A p \in PgConn : w.conns[p].result \in 0..Len(w.results)
  BY <1>0 DEF HoldEachOther
<1>4. ASSUME \A p \in PgConn : w.conns[p].result # 0 => w.results[w.conns[p].result].conn = p
      PROVE  ResultsCounted(w, 0) <=>
        \A r \in DOMAIN w.results :
          w.results[r].refs = P!One(w.results[r].object) + w.results[r].its
                              + Cardinality({p \in PgConn : w.conns[p].result = r})
  <2>1. \A r \in DOMAIN w.results :
          /\ r # 0 /\ P!One(w.results[r].object) + w.results[r].its \in Int
          /\ Cardinality({p \in PgConn : w.conns[p].result = r})
               = IF \E p \in PgConn : w.conns[p].result = r THEN 1 ELSE 0
    <3> TAKE r \in DOMAIN w.results
    <3>1. r # 0
      BY <1>0
    <3>2. P!One(w.results[r].object) + w.results[r].its \in Int
      BY WorldParts, OneIs
    <3> QED BY <1>4, <3>1, <3>2, OneHolder
  <2> DEFINE a(r) == P!One(w.results[r].object) + w.results[r].its
                      + (IF \E p \in PgConn : w.conns[p].result = r THEN 1 ELSE 0) + (IF r = 0 THEN 1 ELSE 0)
             b(r) == P!One(w.results[r].object) + w.results[r].its
                      + Cardinality({p \in PgConn : w.conns[p].result = r})
  <2>2. \A r \in DOMAIN w.results : a(r) = b(r)
    <3> TAKE r \in DOMAIN w.results
    <3> DEFINE n == P!One(w.results[r].object) + w.results[r].its
               m == Cardinality({p \in PgConn : w.conns[p].result = r})
               l == IF \E p \in PgConn : w.conns[p].result = r THEN 1 ELSE 0
               z == IF r = 0 THEN 1 ELSE 0
    <3>1. n \in Int /\ m = l /\ l \in {0, 1} /\ z = 0
      BY <2>1
    <3> HIDE DEF n, m, l, z
    <3>2. n + l + z = n + m
      BY <3>1
    <3> QED BY <3>2 DEF n, m, l, z
  <2>3. ResultsCounted(w, 0) <=> \A r \in DOMAIN w.results : w.results[r].refs = a(r)
    BY DEF ResultsCounted
  <2> HIDE DEF a
  <2>4. (\A r \in DOMAIN w.results : w.results[r].refs = a(r))
          <=> \A r \in DOMAIN w.results : w.results[r].refs = b(r)
    <3> HIDE DEF b
    <3> QED BY <2>2
  <2> QED BY <2>3, <2>4
<1> QED BY <1>2, <1>3, <1>4 DEF Counted, CountsAgree

\* What libpq is asked is answered by the handler of the connection that asked; one
\* that is up waits for answers only, but for what was left behind.
UpReads == \A p \in PgConn : conns[p].pq = "up" => watch[p]["write"] = 0 \/ P!LeftBehind(p)
PgInv == P!PgTypeOK /\ P!RefsCounted /\ P!HandlersServeTheirPromise /\ UpReads

PgPromise == [conn : PgConn, op : {"connect", "query"}, st : {"pending", "resolved", "rejected"},
              found : BOOLEAN]
PromiseTypes ==
  promises \in Seq(PgPromise) /\ watch \in [PgConn -> [P!Watches -> 0..Len(promises)]]

\* The records of PgTypeOK, whose results are those there are.
LEMMA ConnTypes ==
  ASSUME NEW n \in Nat, NEW cs
  PROVE  cs \in [PgConn -> [object : BOOLEAN, refs : Nat, pq : {"none", "connecting", "up", "bad"},
                            async : {"idle", "busy", "more"}, result : 0..n]]
           <=> cs \in [PgConn -> ConnRecord] /\ \A p \in PgConn : cs[p].result \in 0..n
<1> DEFINE C == [object : BOOLEAN, refs : Nat, pq : {"none", "connecting", "up", "bad"},
                 async : {"idle", "busy", "more"}, result : 0..n]
<1>1. \A c : c \in C <=> c \in ConnRecord /\ c.result \in 0..n
  BY DEF ConnRecord
<1> HIDE DEF C
<1>2. cs \in [PgConn -> C] <=> cs \in [PgConn -> ConnRecord] /\ \A p \in PgConn : cs[p].result \in 0..n
  BY <1>1
<1> QED BY <1>2 DEF C

\* What the invariant says of the world there is.
LEMMA WorldHere ==
  ASSUME PgInv
  PROVE  /\ P!World.conns = conns /\ P!World.results = results
         /\ Counted(P!World, "none", 0) /\ PromiseTypes
         /\ Len(results) \in Nat /\ DOMAIN results = 1..Len(results)
         /\ \A p \in PgConn : conns[p] \in ConnRecord
         /\ \A r \in DOMAIN results : results[r] \in ResultRecord
<1>1. P!World.conns = conns /\ P!World.results = results
  BY DEF P!World
<1>2. results \in Seq(ResultRecord) /\ Len(results) \in Nat /\ PromiseTypes
  BY DEF PgInv, P!PgTypeOK, ResultRecord, PgPromise, PromiseTypes
<1>3. conns \in [PgConn -> ConnRecord] /\ \A p \in PgConn : conns[p].result \in 0..Len(results)
  BY <1>2, ConnTypes DEF PgInv, P!PgTypeOK
<1>4. P!World \in PgWorld
  BY <1>2, <1>3 DEF P!World, PgWorld
<1>5. CountsAgree(conns, results)
  BY SameCardinality DEF CountsAgree, PgInv, P!RefsCounted
<1>6. Counted(P!World, "none", 0)
  BY <1>1, <1>3, <1>4, <1>5, CountsAgreeIs
<1> QED BY <1>1, <1>2, <1>3, <1>6

\* A step to a world whose counts are right.
LEMMA WorldNext ==
  ASSUME NEW v, Counted(v, "none", 0), conns' = v.conns, results' = v.results
  PROVE  /\ P!RefsCounted'
         /\ PromiseTypes' => P!PgTypeOK'
<1>1. v \in PgWorld
  BY DEF Counted
<1>2. CountsAgree(v.conns, v.results) /\ \A p \in PgConn : v.conns[p].result \in 0..Len(v.results)
  BY <1>1, CountsAgreeIs
<1>3. P!RefsCounted'
  <2>1. CountsAgree(conns', results')
    BY <1>2
  <2> QED BY <2>1, SameCardinality DEF CountsAgree, P!RefsCounted
<1>4. results' \in Seq(ResultRecord) /\ Len(results') \in Nat /\ conns' \in [PgConn -> ConnRecord]
  BY <1>1, WorldParts
<1>5. conns' \in [PgConn -> [object : BOOLEAN, refs : Nat, pq : {"none", "connecting", "up", "bad"},
                             async : {"idle", "busy", "more"}, result : 0..Len(results')]]
  BY <1>2, <1>4, ConnTypes
<1>6. PromiseTypes' => P!PgTypeOK'
  BY <1>4, <1>5 DEF P!PgTypeOK, PromiseTypes, PgPromise, ResultRecord
<1> QED BY <1>3, <1>6

\* A connection changes in ways that no count depends on.
LEMMA SameCounts ==
  ASSUME NEW w, Counted(w, "none", 0), NEW p \in PgConn, NEW c \in ConnRecord,
         c.object = w.conns[p].object, c.refs = w.conns[p].refs, c.result = w.conns[p].result
  PROVE  LET v == [w EXCEPT !.conns[p] = c]
         IN /\ Counted(v, "none", 0) /\ v.results = w.results
            /\ v.conns = [w.conns EXCEPT ![p] = c]
<1> DEFINE v == [w EXCEPT !.conns[p] = c]
<1>1. w \in PgWorld /\ ConnsCounted(w, "none") /\ ResultsCounted(w, 0) /\ HoldEachOther(w)
  BY DEF Counted
<1>2. v.conns = [w.conns EXCEPT ![p] = c]
  BY <1>1 DEF PgWorld
<1> HIDE DEF v
<1>3. /\ v \in PgWorld /\ v.results = w.results /\ v.conns[p] = c
      /\ \A q \in PgConn \ {p} : v.conns[q] = w.conns[q]
  BY <1>1, ConnReplaced DEF v
<1>4. \A q \in PgConn : /\ v.conns[q].object = w.conns[q].object /\ v.conns[q].refs = w.conns[q].refs
                        /\ v.conns[q].result = w.conns[q].result
  BY <1>3
<1>5. ConnsCounted(v, "none") /\ ResultsCounted(v, 0) /\ HoldEachOther(v)
  BY <1>1, <1>3, <1>4 DEF ConnsCounted, ResultsCounted, HoldEachOther, Holders
<1>6. Counted(v, "none", 0)
  BY <1>3, <1>5 DEF Counted
<1> QED BY <1>2, <1>3, <1>6 DEF v

-----------------------------------------------------------------------------
(***************************************************************************)
(* Steps of the PostgreSQL client.                                         *)
(***************************************************************************)
\* A handler's promise.
LEMMA Handled ==
  ASSUME PgInv, NEW p \in PgConn, NEW d \in P!Watches
  PROVE  /\ watch[p][d] \in 0..Len(promises) /\ Len(promises) \in Nat
         /\ DOMAIN promises = 1..Len(promises)
         /\ watch[p][d] # 0 =>
              /\ watch[p][d] \in DOMAIN promises /\ promises[watch[p][d]] \in PgPromise
              /\ promises[watch[p][d]].conn = p /\ promises[watch[p][d]].st # "resolved"
              /\ \A e \in P!Watches \ {d} :
                   watch[p][e] # watch[p][d] /\ (watch[p][e] = 0 \/ P!LeftBehind(p))
<1>1. PromiseTypes
  BY WorldHere
<1>2. /\ watch[p][d] \in 0..Len(promises) /\ Len(promises) \in Nat
      /\ DOMAIN promises = 1..Len(promises)
  BY <1>1 DEF PromiseTypes
<1>3. watch[p][d] # 0 => watch[p][d] \in DOMAIN promises /\ promises[watch[p][d]] \in PgPromise
  BY <1>1, <1>2 DEF PromiseTypes
<1>4. watch[p][d] # 0 =>
        /\ promises[watch[p][d]].conn = p /\ promises[watch[p][d]].st # "resolved"
        /\ \A e \in P!Watches \ {d} :
             watch[p][e] # watch[p][d] /\ (watch[p][e] = 0 \/ P!LeftBehind(p))
  BY DEF PgInv, P!HandlersServeTheirPromise
<1> QED BY <1>2, <1>3, <1>4

\* Where the promises and handlers stay and none is up that was not.
LEMMA QuietStep ==
  ASSUME PgInv, UNCHANGED <<promises, watch>>, NEW v, Counted(v, "none", 0),
         conns' = v.conns, results' = v.results,
         \A q \in PgConn : v.conns[q].pq = "up" => conns[q].pq = "up"
  PROVE  PgInv'
<1>1. PromiseTypes'
  BY WorldHere DEF PromiseTypes
<1>2. P!PgTypeOK' /\ P!RefsCounted'
  BY <1>1, WorldNext
<1>3. P!HandlersServeTheirPromise'
  BY DEF PgInv, P!HandlersServeTheirPromise, P!LeftBehind
<1>4. UpReads'
  BY DEF PgInv, UpReads, P!LeftBehind
<1> QED BY <1>2, <1>3, <1>4 DEF PgInv

LEMMA RowAndClose ==
  ASSUME PgInv, NEW p \in PgConn, P!result_row(p) \/ P!js_pgconn_close(p)
  PROVE  PgInv'
<1>1. PICK x \in {"up", "none"} :
        /\ conns' = [conns EXCEPT ![p].pq = x, ![p].async = "idle"]
        /\ x = "up" => conns[p].pq = "up"
  <2>1. CASE P!result_row(p)
    <3>1. [conns EXCEPT ![p].pq = "up", ![p].async = "idle"] = [conns EXCEPT ![p].async = "idle"]
      BY <2>1, WorldHere DEF P!result_row, ConnRecord
    <3> QED BY <2>1, <3>1 DEF P!result_row
  <2>2. CASE P!js_pgconn_close(p)
    BY <2>2 DEF P!js_pgconn_close
  <2> QED BY <2>1, <2>2
<1> DEFINE c == [conns[p] EXCEPT !.pq = x, !.async = "idle"]
           v == [P!World EXCEPT !.conns[p] = c]
<1>2. /\ Counted(P!World, "none", 0) /\ P!World.conns = conns /\ P!World.results = results
      /\ conns[p] \in ConnRecord
  BY WorldHere
<1>3. /\ c \in ConnRecord /\ c.object = conns[p].object /\ c.refs = conns[p].refs
      /\ c.result = conns[p].result /\ c.pq = x
  BY <1>2 DEF ConnRecord
<1>4. conns' = [conns EXCEPT ![p] = c]
  BY <1>1
<1>5. UNCHANGED <<results, promises, watch>>
  BY DEF P!result_row, P!js_pgconn_close
<1> HIDE DEF c
<1>6. Counted(v, "none", 0) /\ v.results = results /\ v.conns = [conns EXCEPT ![p] = c]
  BY <1>2, <1>3, SameCounts
<1> HIDE DEF v
<1>7. \A q \in PgConn : v.conns[q].pq = "up" => conns[q].pq = "up"
  <2> TAKE q \in PgConn
  <2>1. v.conns[q] = IF q = p THEN c ELSE conns[q]
    BY <1>6, WorldHere DEF PgInv, P!PgTypeOK
  <2> QED BY <1>1, <1>3, <2>1
<1> QED BY <1>4, <1>5, <1>6, <1>7, QuietStep

\* An object of a connection goes: until it is released there is one reference more
\* than holders; the same for results and for their iterators.
LEMMA ObjectGone ==
  ASSUME NEW w, NEW p \in PgConn, Counted(w, "none", 0), w.conns[p].object
  PROVE  LET v == [w EXCEPT !.conns[p] = [w.conns[p] EXCEPT !.object = FALSE]]
         IN Counted(v, p, 0) /\ \A q \in PgConn : v.conns[q].pq = w.conns[q].pq
<1> DEFINE c == [w.conns[p] EXCEPT !.object = FALSE]
           v == [w EXCEPT !.conns[p] = c]
<1>1. w \in PgWorld /\ ConnsCounted(w, "none") /\ ResultsCounted(w, 0) /\ HoldEachOther(w)
  BY DEF Counted
<1>2. /\ c \in ConnRecord /\ c.object = FALSE /\ c.refs = w.conns[p].refs
      /\ c.result = w.conns[p].result /\ c.pq = w.conns[p].pq
  <2>1. PICK b \in ConnRecord : b = w.conns[p]
    BY <1>1, WorldParts
  <2>2. c = [b EXCEPT !.object = FALSE]
    BY <2>1
  <2> HIDE DEF c, v
  <2>3. c \in ConnRecord /\ c.object = FALSE /\ c.refs = b.refs /\ c.result = b.result /\ c.pq = b.pq
    BY <2>2 DEF ConnRecord
  <2> QED BY <2>1, <2>3
<1> HIDE DEF c
<1>3. /\ v \in PgWorld /\ v.results = w.results /\ v.conns[p] = c
      /\ \A q \in PgConn \ {p} : v.conns[q] = w.conns[q]
  BY <1>1, <1>2, ConnReplaced
<1> HIDE DEF v
<1>4. \A q \in PgConn : v.conns[q].result = w.conns[q].result /\ v.conns[q].pq = w.conns[q].pq
  BY <1>2, <1>3
<1>5. ConnsCounted(v, p)
  <2> SUFFICES ASSUME NEW q \in PgConn
      PROVE v.conns[q].refs = P!One(v.conns[q].object) + Cardinality(Holders(v, q)) + (IF q = p THEN 1 ELSE 0)
    BY DEF ConnsCounted
  <2>1. /\ w.conns[q].refs = P!One(w.conns[q].object) + Cardinality(Holders(w, q)) + 0
        /\ Cardinality(Holders(w, q)) \in Nat /\ Holders(v, q) = Holders(w, q)
    <3>1. q # "none"
      BY NetworkAssumption
    <3>2. w.conns[q].refs = P!One(w.conns[q].object) + Cardinality(Holders(w, q)) + 0
      BY <1>1, <3>1 DEF ConnsCounted
    <3>3. Cardinality(Holders(w, q)) \in Nat
      BY <1>1, WorldParts
    <3>4. Holders(v, q) = Holders(w, q)
      BY <1>3 DEF Holders
    <3> QED BY <3>2, <3>3, <3>4
  <2>2. CASE q = p
    <3>1. P!One(w.conns[q].object) = 1 /\ P!One(v.conns[q].object) = 0
      <4>1. w.conns[q].object = TRUE /\ v.conns[q].object = FALSE
        BY <1>1, <1>2, <1>3, <2>2, WorldParts
      <4> QED BY <4>1, OneIs
    <3> QED BY <1>2, <1>3, <2>1, <2>2, <3>1
  <2>3. CASE q # p
    BY <1>3, <2>1, <2>3
  <2> QED BY <2>2, <2>3
<1>6. ResultsCounted(v, 0) /\ HoldEachOther(v)
  BY <1>1, <1>3, <1>4 DEF ResultsCounted, HoldEachOther
<1>7. Counted(v, p, 0)
  BY <1>3, <1>5, <1>6 DEF Counted
<1> QED BY <1>4, <1>7 DEF v, c

\* "more" is what the count of r has too much when its record is c.
LEMMA HoldersChange ==
  ASSUME NEW w, NEW r \in DOMAIN w.results, Counted(w, "none", 0), NEW c \in ResultRecord,
         NEW more \in {0, 1}, c.conn = w.results[r].conn,
         c.refs - w.results[r].refs
           = (P!One(c.object) + c.its) - (P!One(w.results[r].object) + w.results[r].its) + more
  PROVE  LET v == [w EXCEPT !.results[r] = c]
         IN /\ Counted(v, "none", IF more = 1 THEN r ELSE 0) /\ v.conns = w.conns
            /\ DOMAIN v.results = DOMAIN w.results
<1> DEFINE v == [w EXCEPT !.results[r] = c]
           r0 == IF more = 1 THEN r ELSE 0
<1>1. w \in PgWorld /\ ConnsCounted(w, "none") /\ ResultsCounted(w, 0) /\ HoldEachOther(w)
  BY DEF Counted
<1>2. /\ v \in PgWorld /\ v.conns = w.conns /\ v.results[r] = c
      /\ DOMAIN v.results = DOMAIN w.results
      /\ \A q \in DOMAIN w.results \ {r} : v.results[q] = w.results[q]
  BY <1>1, ResultReplaced
<1> HIDE DEF v
<1>3. \A q \in DOMAIN w.results : v.results[q].conn = w.results[q].conn
  BY <1>2
<1>4. ConnsCounted(v, "none") /\ HoldEachOther(v)
  BY <1>1, <1>2, <1>3 DEF ConnsCounted, HoldEachOther, Holders
<1>5. ResultsCounted(v, r0)
  <2> SUFFICES ASSUME NEW q \in DOMAIN w.results
      PROVE v.results[q].refs = P!One(v.results[q].object) + v.results[q].its
                + (IF \E x \in PgConn : v.conns[x].result = q THEN 1 ELSE 0) + (IF q = r0 THEN 1 ELSE 0)
    BY <1>2 DEF ResultsCounted
  <2>1. /\ P!One(w.results[q].object) \in {0, 1} /\ w.results[q].its \in Nat /\ q # 0
        /\ w.results[q].refs = P!One(w.results[q].object) + w.results[q].its
             + (IF \E x \in PgConn : w.conns[x].result = q THEN 1 ELSE 0) + (IF q = 0 THEN 1 ELSE 0)
    BY CountOf
  <2> DEFINE held == IF \E x \in PgConn : w.conns[x].result = q THEN 1 ELSE 0
  <2>2. held \in {0, 1} /\ (IF \E x \in PgConn : v.conns[x].result = q THEN 1 ELSE 0) = held
    BY <1>2
  <2>3. w.results[q].refs = P!One(w.results[q].object) + w.results[q].its + held
    BY <2>1
  <2> HIDE DEF held
  <2>4. CASE q = r
    <3>1. c.refs \in Nat /\ c.its \in Int /\ P!One(c.object) \in {0, 1}
      <4>1. c.its \in 0..MaxIterators /\ c.object \in BOOLEAN /\ c.refs \in Nat
        BY DEF ResultRecord
      <4> QED BY <4>1, OneIs
    <3>2. (IF q = r0 THEN 1 ELSE 0) = more
      BY <2>1, <2>4
    <3>3. c.refs = P!One(c.object) + c.its + held + more
      BY <2>1, <2>2, <2>3, <2>4, <3>1
    <3> QED BY <1>2, <2>2, <2>4, <3>2, <3>3
  <2>5. CASE q # r
    <3>1. q # r0 /\ v.results[q] = w.results[q]
      BY <1>2, <2>1, <2>5
    <3> QED BY <2>1, <2>2, <2>3, <3>1
  <2> QED BY <2>4, <2>5
<1>6. Counted(v, "none", r0)
  BY <1>2, <1>4, <1>5 DEF Counted
<1> QED BY <1>2, <1>6 DEF v

LEMMA ConnFinalized ==
  ASSUME PgInv, NEW p \in PgConn, P!js_pgconn_finalizer(p)
  PROVE  PgInv'
<1> DEFINE w == P!World
           f == [w EXCEPT !.conns[p] = [w.conns[p] EXCEPT !.object = FALSE]]
           v == P!pgconn_free(f, p)
<1>1. Counted(w, "none", 0) /\ w.conns = conns
  BY WorldHere
<1>2. conns[p].object /\ UNCHANGED <<promises, watch>>
  BY DEF P!js_pgconn_finalizer
<1>3. P!Becomes(v)
  BY DEF P!js_pgconn_finalizer
<1> HIDE DEF w
<1>4. Counted(f, p, 0) /\ \A q \in PgConn : f.conns[q].pq = conns[q].pq
  BY <1>1, <1>2, ObjectGone
<1> HIDE DEF f
<1>5. Counted(v, "none", 0) /\ SameConns(f, v)
  BY <1>4, ConnFreed
<1> HIDE DEF v
<1>6. \A q \in PgConn : v.conns[q].pq = "up" => conns[q].pq = "up"
  BY <1>4, <1>5 DEF SameConns
<1>7. conns' = v.conns /\ results' = v.results
  BY <1>3 DEF P!Becomes
<1> QED BY <1>2, <1>5, <1>6, <1>7, QuietStep

LEMMA ResultSteps ==
  ASSUME PgInv, NEW r \in DOMAIN results,
         P!js_pgresult_finalizer(r) \/ P!js_pgresult_iterator(r) \/ P!js_pgresult_iterator_free(r)
  PROVE  PgInv'
<1> DEFINE w == P!World
           d == results[r]
<1>1. /\ Counted(w, "none", 0) /\ w.conns = conns /\ w.results = results
      /\ d \in ResultRecord
  BY WorldHere
<1>2. /\ d.object \in BOOLEAN /\ d.its \in 0..MaxIterators /\ d.refs \in Nat /\ MaxIterators \in Nat
      /\ P!One(d.object) \in {0, 1} /\ d.its \in Nat
  BY <1>1, NetworkAssumption, OneIs DEF ResultRecord
<1>3. UNCHANGED <<promises, watch>>
  BY DEF P!js_pgresult_finalizer, P!js_pgresult_iterator, P!js_pgresult_iterator_free
<1>4. ASSUME NEW c \in ResultRecord, c.conn = d.conn,
             c.refs - d.refs = (P!One(c.object) + c.its) - (P!One(d.object) + d.its) + 1,
             P!Becomes(P!pgresult_free([w EXCEPT !.results[r] = c], r))
      PROVE  PgInv'
  <2> DEFINE f == [w EXCEPT !.results[r] = c]
             v == P!pgresult_free(f, r)
  <2> HIDE DEF w
  <2>1. Counted(f, "none", r) /\ f.conns = conns /\ DOMAIN f.results = DOMAIN results
    BY <1>1, <1>4, HoldersChange
  <2> HIDE DEF f
  <2>2. Counted(v, "none", 0) /\ SameConns(f, v)
    BY <2>1, ResultFreed
  <2>3. conns' = v.conns /\ results' = v.results
    BY <1>4 DEF P!Becomes, f
  <2> HIDE DEF v
  <2>4. \A q \in PgConn : v.conns[q].pq = "up" => conns[q].pq = "up"
    BY <2>1, <2>2 DEF SameConns
  <2> QED BY <1>3, <2>2, <2>3, <2>4, QuietStep
<1>5. CASE P!js_pgresult_finalizer(r)
  <2> DEFINE c == [d EXCEPT !.object = FALSE]
  <2>1. c \in ResultRecord /\ c.conn = d.conn /\ c.object = FALSE /\ c.its = d.its /\ c.refs = d.refs
    BY <1>1 DEF ResultRecord
  <2>2. P!One(c.object) = 0 /\ P!One(d.object) = 1
    BY <1>2, <1>5, <2>1, OneIs DEF P!js_pgresult_finalizer
  <2>3. P!Becomes(P!pgresult_free([w EXCEPT !.results[r] = c], r))
    BY <1>5, <1>1 DEF P!js_pgresult_finalizer
  <2> HIDE DEF c
  <2>4. c.refs - d.refs = (P!One(c.object) + c.its) - (P!One(d.object) + d.its) + 1
    BY <1>2, <2>1, <2>2
  <2> QED BY <1>4, <2>1, <2>3, <2>4
<1>6. CASE P!js_pgresult_iterator_free(r)
  <2> DEFINE c == [d EXCEPT !.its = d.its - 1]
  <2>1. d.its > 0 /\ P!Becomes(P!pgresult_free([w EXCEPT !.results[r] = c], r))
    BY <1>6, <1>1 DEF P!js_pgresult_iterator_free
  <2>2. d.its - 1 \in 0..MaxIterators
    BY <1>2, <2>1
  <2>3. c \in ResultRecord /\ c.conn = d.conn /\ c.object = d.object /\ c.its = d.its - 1 /\ c.refs = d.refs
    BY <1>1, <2>2 DEF ResultRecord
  <2> HIDE DEF c
  <2>4. c.refs - d.refs = (P!One(c.object) + c.its) - (P!One(d.object) + d.its) + 1
    BY <1>2, <2>3
  <2> QED BY <1>4, <2>1, <2>3, <2>4
<1>7. CASE P!js_pgresult_iterator(r)
  <2> DEFINE c == [d EXCEPT !.its = d.its + 1, !.refs = d.refs + 1]
             v == [w EXCEPT !.results[r] = c]
  <2>1. d.its < MaxIterators /\ P!Becomes([w EXCEPT !.results[r].its = d.its + 1, !.results[r].refs = d.refs + 1])
    BY <1>7, <1>1 DEF P!js_pgresult_iterator
  <2>2. d.its + 1 \in 0..MaxIterators /\ d.refs + 1 \in Nat
    BY <1>2, <2>1
  <2>3. c \in ResultRecord /\ c.conn = d.conn /\ c.object = d.object /\ c.its = d.its + 1 /\ c.refs = d.refs + 1
    BY <1>1, <2>2 DEF ResultRecord
  <2>5. P!Becomes(v)
    <3>1. [w EXCEPT !.results[r].its = d.its + 1, !.results[r].refs = d.refs + 1] = v
      BY <1>1 DEF Counted, PgWorld, ResultRecord
    <3> QED BY <2>1, <3>1
  <2> HIDE DEF c, w
  <2>4. c.refs - d.refs = (P!One(c.object) + c.its) - (P!One(d.object) + d.its) + 0
    BY <1>2, <2>3
  <2>6. Counted(v, "none", 0) /\ v.conns = conns
    <3>1. Counted(v, "none", IF 0 = 1 THEN r ELSE 0) /\ v.conns = w.conns
      BY <1>1, <2>3, <2>4, HoldersChange
    <3> QED BY <1>1, <3>1
  <2>7. conns' = v.conns /\ results' = v.results
    BY <2>5 DEF P!Becomes
  <2> HIDE DEF v
  <2> QED BY <1>3, <2>6, <2>7, QuietStep
<1> QED BY <1>5, <1>6, <1>7

\* A promise is made.
LEMMA Asked ==
  ASSUME PgInv, NEW p \in PgConn, NEW op \in {"connect", "query"},
         NEW st \in {"pending", "resolved", "rejected"}, P!Asks(p, op, st)
  PROVE  /\ promises' \in Seq(PgPromise) /\ Len(promises') = Len(promises) + 1
         /\ Len(promises) \in Nat /\ DOMAIN promises = 1..Len(promises)
         /\ \A k \in DOMAIN promises : promises'[k] = promises[k]
         /\ LET n == Len(promises) + 1
            IN /\ promises'[n].conn = p /\ promises'[n].st = st
               /\ op = "connect" /\ P!Waits(p) => promises'[n].found
         /\ \A q : P!LeftBehind(q) => P!LeftBehind(q)'
<1> DEFINE new == [conn |-> p, op |-> op, st |-> st, found |-> op = "connect" /\ P!Waits(p)]
<1>1. promises \in Seq(PgPromise) /\ new \in PgPromise
  BY WorldHere DEF PromiseTypes, PgPromise
<1>2. promises' = Append(promises, new)
  BY DEF P!Asks
<1>3. new.conn = p /\ new.st = st /\ (op = "connect" /\ P!Waits(p) => new.found)
  OBVIOUS
<1> HIDE DEF new
<1>4. /\ promises' \in Seq(PgPromise) /\ Len(promises') = Len(promises) + 1
      /\ Len(promises) \in Nat /\ DOMAIN promises = 1..Len(promises)
      /\ DOMAIN promises' = 1..(Len(promises) + 1)
      /\ \A k \in DOMAIN promises : promises'[k] = promises[k]
      /\ promises'[Len(promises) + 1] = new
  BY <1>1, <1>2
<1>5. \A q : P!LeftBehind(q) => P!LeftBehind(q)'
  BY <1>4 DEF P!LeftBehind
<1> QED BY <1>3, <1>4, <1>5

\* The handlers of others still belong to their promises when one is made; one more
\* is installed at most, for the connection that asks, and none other of it is there
\* unless it was left behind.
LEMMA AskStep ==
  ASSUME PgInv, NEW p \in PgConn, NEW op \in {"connect", "query"},
         NEW st \in {"pending", "resolved", "rejected"}, P!Asks(p, op, st),
         \/ UNCHANGED watch
         \/ watch' = [watch EXCEPT ![p]["read"] = 0]
         \/ st = "pending" /\ \E d \in P!Watches :
              /\ watch' = [watch EXCEPT ![p][d] = Len(promises')]
              /\ \A e \in P!Watches \ {d} : watch[p][e] = 0 \/ P!LeftBehind(p)'
  PROVE  /\ PromiseTypes' /\ P!HandlersServeTheirPromise'
         /\ \A q \in PgConn : P!LeftBehind(q) => P!LeftBehind(q)'
<1> DEFINE n == Len(promises) + 1
<1>1. /\ promises' \in Seq(PgPromise) /\ Len(promises') = n
      /\ Len(promises) \in Nat /\ DOMAIN promises = 1..Len(promises)
      /\ \A k \in DOMAIN promises : promises'[k] = promises[k]
      /\ promises'[n].conn = p /\ promises'[n].st = st
      /\ \A q : P!LeftBehind(q) => P!LeftBehind(q)'
  BY Asked
<1>2. watch \in [PgConn -> [P!Watches -> 0..Len(promises)]]
  BY WorldHere DEF PromiseTypes
<1>3. ASSUME NEW q \in PgConn, NEW d \in P!Watches, watch[q][d] # 0
      PROVE  /\ promises'[watch[q][d]].conn = q /\ promises'[watch[q][d]].st # "resolved"
             /\ watch[q][d] \in 1..Len(promises)
             /\ \A e \in P!Watches \ {d} :
                  watch[q][e] # watch[q][d] /\ (watch[q][e] = 0 \/ P!LeftBehind(q)')
  BY <1>1, <1>3, Handled
<1>4. CASE \/ UNCHANGED watch
           \/ watch' = [watch EXCEPT ![p]["read"] = 0]
  <2>1. watch' \in [PgConn -> [P!Watches -> 0..Len(promises)]]
        /\ \A q \in PgConn, d \in P!Watches : watch'[q][d] \in {0, watch[q][d]}
    <3>1. CASE UNCHANGED watch
      BY <1>2, <3>1
    <3>2. CASE watch' = [watch EXCEPT ![p]["read"] = 0]
      <4>1. [watch[p] EXCEPT !["read"] = 0] \in [P!Watches -> 0..Len(promises)]
            /\ \A d \in P!Watches : [watch[p] EXCEPT !["read"] = 0][d] \in {0, watch[p][d]}
        <5>1. PICK old \in [P!Watches -> 0..Len(promises)] : old = watch[p]
          BY <1>2
        <5>2. 0 \in 0..Len(promises)
          BY <1>1
        <5> QED BY <5>1, <5>2
      <4> DEFINE row == [watch[p] EXCEPT !["read"] = 0]
      <4>2. watch' = [watch EXCEPT ![p] = row]
        BY <3>2
      <4> HIDE DEF row
      <4>3. watch'[p] = row /\ \A q \in PgConn \ {p} : watch'[q] = watch[q]
        BY <1>2, <4>2
      <4> QED BY <1>2, <4>1, <4>2, <4>3 DEF row
    <3> QED BY <1>4, <3>1, <3>2
  <2>2. PromiseTypes'
    BY <1>1, <2>1 DEF PromiseTypes
  <2>3. ASSUME NEW q \in PgConn, NEW d \in P!Watches, watch'[q][d] # 0
        PROVE  /\ promises'[watch'[q][d]].conn = q /\ promises'[watch'[q][d]].st # "resolved"
               /\ \A e \in P!Watches \ {d} :
                    watch'[q][e] # watch'[q][d] /\ (watch'[q][e] = 0 \/ P!LeftBehind(q)')
    <3>1. watch'[q][d] = watch[q][d]
      BY <2>1, <2>3
    <3> QED BY <1>3, <2>1, <2>3, <3>1
  <2> QED BY <1>1, <2>2, <2>3 DEF P!HandlersServeTheirPromise
<1>5. CASE st = "pending" /\ \E d \in P!Watches :
             /\ watch' = [watch EXCEPT ![p][d] = Len(promises')]
             /\ \A e \in P!Watches \ {d} : watch[p][e] = 0 \/ P!LeftBehind(p)'
  <2>1. PICK d \in P!Watches : /\ watch' = [watch EXCEPT ![p][d] = n]
                               /\ \A e \in P!Watches \ {d} : watch[p][e] = 0 \/ P!LeftBehind(p)'
    BY <1>1, <1>5
  <2>2. /\ watch' \in [PgConn -> [P!Watches -> 0..n]] /\ watch'[p][d] = n
        /\ \A e \in P!Watches \ {d} : watch'[p][e] = watch[p][e]
        /\ \A q \in PgConn \ {p} : watch'[q] = watch[q]
    BY <1>1, <1>2, <2>1
  <2>3. PromiseTypes'
    BY <1>1, <2>2 DEF PromiseTypes
  <2>4. \A e \in P!Watches : watch[p][e] # n
    BY <1>1, <1>2
  <2>5. ASSUME NEW q \in PgConn, NEW e \in P!Watches, watch'[q][e] # 0
        PROVE  /\ promises'[watch'[q][e]].conn = q /\ promises'[watch'[q][e]].st # "resolved"
               /\ \A x \in P!Watches \ {e} :
                    watch'[q][x] # watch'[q][e] /\ (watch'[q][x] = 0 \/ P!LeftBehind(q)')
    <3>1. CASE q = p /\ e = d
      <4>1. promises'[n].conn = p /\ promises'[n].st = "pending"
        BY <1>1, <1>5
      <4> HIDE DEF n
      <4> QED BY <2>1, <2>2, <2>4, <3>1, <4>1
    <3>2. CASE q = p /\ e # d
      <4>1. watch'[q][e] = watch[q][e] /\ watch[q][e] # 0
        BY <2>2, <2>5, <3>2
      <4>2. P!LeftBehind(q)'
        BY <2>1, <3>2, <4>1
      <4>3. /\ promises'[watch[q][e]].conn = q /\ promises'[watch[q][e]].st # "resolved"
            /\ watch[q][e] \in 1..Len(promises)
            /\ \A x \in P!Watches \ {e} : watch[q][x] # watch[q][e]
        BY <1>3, <4>1
      <4>4. \A x \in P!Watches \ {e} : watch'[q][x] # watch'[q][e]
        BY <2>2, <2>4, <3>2, <4>1, <4>3
      <4> QED BY <4>1, <4>2, <4>3, <4>4
    <3>3. CASE q # p
      <4>1. watch'[q] = watch[q]
        BY <2>2, <3>3
      <4> QED BY <1>3, <2>5, <4>1
    <3> QED BY <3>1, <3>2, <3>3
  <2> QED BY <1>1, <2>3, <2>5 DEF P!HandlersServeTheirPromise
<1> QED BY <1>4, <1>5

\* A handler settles its promise, or leaves it; then it goes, unless it did not resolve
\* and stays or changes to the other direction.
LEMMA SettleStep ==
  ASSUME PgInv, NEW p \in PgConn, NEW d \in P!Watches, watch[p][d] # 0,
         NEW how \in {"resolved", "rejected", "pending"},
         \/ P!Settles(watch[p][d], how)
         \/ how = "pending" /\ UNCHANGED promises,
         \/ watch' = [watch EXCEPT ![p] = [watch[p] EXCEPT ![d] = 0]]
         \/ /\ how # "resolved"
            /\ \E e \in P!Watches :
                 watch' = [watch EXCEPT ![p] = [[watch[p] EXCEPT ![d] = 0] EXCEPT ![e] = watch[p][d]]]
         \/ how # "resolved" /\ UNCHANGED watch
  PROVE  /\ PromiseTypes' /\ P!HandlersServeTheirPromise'
         /\ \A q \in PgConn : P!LeftBehind(q) => P!LeftBehind(q)'
<1> DEFINE k == watch[p][d]
<1>1. /\ promises \in Seq(PgPromise) /\ watch \in [PgConn -> [P!Watches -> 0..Len(promises)]]
      /\ Len(promises) \in Nat /\ DOMAIN promises = 1..Len(promises)
  BY WorldHere DEF PromiseTypes
<1>2. /\ k \in DOMAIN promises /\ promises[k].conn = p /\ promises[k].st # "resolved"
      /\ \A e \in P!Watches \ {d} : watch[p][e] # k /\ (watch[p][e] = 0 \/ P!LeftBehind(p))
      /\ promises[k] \in PgPromise
  BY Handled
<1>3. PICK st \in {"pending", "resolved", "rejected"} :
        /\ promises' = [promises EXCEPT ![k] = [promises[k] EXCEPT !.st = st]]
        /\ st = "resolved" => how = "resolved"
  <2>1. CASE P!Settles(k, how) /\ promises[k].st = "pending"
    BY <1>2, <2>1 DEF P!Settles
  <2>2. CASE UNCHANGED promises
    <3>1. promises[k] = [promises[k] EXCEPT !.st = promises[k].st] /\ promises[k].st \in {"pending", "rejected"}
      BY <1>2 DEF PgPromise
    <3>2. promises' = [promises EXCEPT ![k] = [promises[k] EXCEPT !.st = promises[k].st]]
      BY <1>1, <2>2, <3>1
    <3> QED BY <3>1, <3>2
  <2> QED BY <2>1, <2>2 DEF P!Settles
<1>4. /\ promises' \in Seq(PgPromise) /\ Len(promises') = Len(promises)
      /\ DOMAIN promises' = DOMAIN promises
      /\ promises'[k].conn = p /\ promises'[k].st = st /\ promises'[k].found = promises[k].found
      /\ \A i \in DOMAIN promises \ {k} : promises'[i] = promises[i]
  <2>1. [promises[k] EXCEPT !.st = st] \in PgPromise
    BY <1>2 DEF PgPromise
  <2>2. /\ [promises[k] EXCEPT !.st = st].conn = p /\ [promises[k] EXCEPT !.st = st].st = st
        /\ [promises[k] EXCEPT !.st = st].found = promises[k].found
    BY <1>2 DEF PgPromise
  <2> QED BY <1>1, <1>2, <1>3, <2>1, <2>2
<1>5. \A q \in PgConn : P!LeftBehind(q) => P!LeftBehind(q)'
  <2> SUFFICES ASSUME NEW q \in PgConn, P!LeftBehind(q) PROVE P!LeftBehind(q)'
    OBVIOUS
  <2>1. PICK i \in DOMAIN promises : promises[i].conn = q /\ promises[i].found
    BY DEF P!LeftBehind
  <2>2. i \in DOMAIN promises' /\ promises'[i].conn = q /\ promises'[i].found
    BY <1>2, <1>4, <2>1
  <2> QED BY <2>2 DEF P!LeftBehind
\* The handlers of p that there are then: what they were, or k where it is now.
<1>6. /\ watch' \in [PgConn -> [P!Watches -> 0..Len(promises)]]
      /\ \A q \in PgConn \ {p} : watch'[q] = watch[q]
      /\ \A e \in P!Watches : watch'[p][e] # 0 =>
           \/ /\ how # "resolved" /\ watch'[p][e] = k
              /\ \A x \in P!Watches \ {e} : watch'[p][x] \in {0, watch[p][x]} /\ watch'[p][x] # k
           \/ watch'[p][e] = watch[p][e] /\ watch'[p][e] # k
  <2>0. k \in 0..Len(promises)
    BY <1>1, <1>2
  <2>1. CASE watch' = [watch EXCEPT ![p] = [watch[p] EXCEPT ![d] = 0]]
    BY <1>1, <1>2, <2>1
  <2>2. CASE how # "resolved" /\ UNCHANGED watch
    BY <1>1, <1>2, <2>2
  <2>3. CASE how # "resolved" /\ \E e \in P!Watches :
               watch' = [watch EXCEPT ![p] = [[watch[p] EXCEPT ![d] = 0] EXCEPT ![e] = k]]
    <3>1. PICK e \in P!Watches : watch' = [watch EXCEPT ![p] = [[watch[p] EXCEPT ![d] = 0] EXCEPT ![e] = k]]
      BY <2>3
    <3> DEFINE row == [[watch[p] EXCEPT ![d] = 0] EXCEPT ![e] = k]
    <3>2. /\ row \in [P!Watches -> 0..Len(promises)] /\ row[e] = k
          /\ \A x \in P!Watches \ {e} : row[x] \in {0, watch[p][x]} /\ row[x] # k
      <4> DEFINE off == [watch[p] EXCEPT ![d] = 0]
      <4>1. /\ off \in [P!Watches -> 0..Len(promises)]
            /\ \A x \in P!Watches : off[x] \in {0, watch[p][x]} /\ off[x] # k
        BY <1>1, <1>2
      <4>2. row = [off EXCEPT ![e] = k]
        OBVIOUS
      <4> HIDE DEF k, off, row
      <4> QED BY <2>0, <4>1, <4>2
    <3>3. watch' = [watch EXCEPT ![p] = row]
      BY <3>1
    <3> HIDE DEF row, k
    <3>4. watch' \in [PgConn -> [P!Watches -> 0..Len(promises)]] /\ watch'[p] = row
          /\ \A q \in PgConn \ {p} : watch'[q] = watch[q]
      BY <1>1, <3>2, <3>3
    <3> QED BY <2>3, <3>2, <3>4
  <2> QED BY <2>1, <2>2, <2>3
<1>7. PromiseTypes'
  BY <1>4, <1>6 DEF PromiseTypes
<1>8. ASSUME NEW q \in PgConn, NEW e \in P!Watches, watch'[q][e] # 0
      PROVE  /\ promises'[watch'[q][e]].conn = q /\ promises'[watch'[q][e]].st # "resolved"
             /\ \A x \in P!Watches \ {e} :
                  watch'[q][x] # watch'[q][e] /\ (watch'[q][x] = 0 \/ P!LeftBehind(q)')
  <2>1. CASE q = p /\ watch'[p][e] = k
    <3>1. how # "resolved" /\ \A x \in P!Watches \ {e} : watch'[p][x] \in {0, watch[p][x]} /\ watch'[p][x] # k
      BY <1>6, <1>8, <2>1
    <3>2. \A x \in P!Watches \ {e} : watch'[p][x] = 0 \/ P!LeftBehind(p)
      <4> SUFFICES ASSUME NEW x \in P!Watches \ {e}, watch'[p][x] # 0 PROVE P!LeftBehind(p)
        OBVIOUS
      <4>1. watch[p][x] = watch'[p][x] /\ watch'[p][x] # k
        BY <3>1
      <4>2. x # d
        BY <4>1
      <4> QED BY <1>2, <4>1, <4>2
    <3> QED BY <1>3, <1>4, <1>5, <2>1, <3>1, <3>2
  <2>2. CASE q = p /\ watch'[p][e] # k
    <3>1. watch'[p][e] = watch[p][e] /\ watch[p][e] # 0
      BY <1>6, <1>8, <2>2
    <3>2. /\ watch[p][e] \in DOMAIN promises /\ promises[watch[p][e]].conn = p
          /\ promises[watch[p][e]].st # "resolved"
          /\ \A x \in P!Watches \ {e} : watch[p][x] # watch[p][e] /\ (watch[p][x] = 0 \/ P!LeftBehind(p))
      BY <3>1, Handled
    <3>3. P!LeftBehind(p)
      BY <1>2, <2>2, <3>1, <3>2
    <3>4. \A x \in P!Watches \ {e} : watch'[p][x] # watch'[p][e]
      BY <1>6, <2>2, <3>1, <3>2
    <3> QED BY <1>4, <1>5, <2>2, <3>1, <3>2, <3>3, <3>4
  <2>3. CASE q # p
    <3>1. watch'[q] = watch[q] /\ watch[q][e] # 0
      BY <1>6, <1>8, <2>3
    <3>2. /\ watch[q][e] \in DOMAIN promises /\ promises[watch[q][e]].conn = q
          /\ promises[watch[q][e]].st # "resolved"
          /\ \A x \in P!Watches \ {e} : watch[q][x] # watch[q][e] /\ (watch[q][x] = 0 \/ P!LeftBehind(q))
      BY <3>1, Handled
    <3>3. watch[q][e] # k
      BY <1>2, <2>3, <3>2
    <3> QED BY <1>4, <1>5, <3>1, <3>2, <3>3
  <2> QED BY <2>1, <2>2, <2>3
<1> QED BY <1>5, <1>7, <1>8 DEF P!HandlersServeTheirPromise

\* Steps that change a connection's state with libpq only.
LEMMA PqStep ==
  ASSUME PgInv, NEW p \in PgConn, NEW c \in ConnRecord,
         c.object = conns[p].object, c.refs = conns[p].refs, c.result = conns[p].result,
         conns' = [conns EXCEPT ![p] = c], UNCHANGED results,
         PromiseTypes', P!HandlersServeTheirPromise',
         \A q \in PgConn : P!LeftBehind(q) => P!LeftBehind(q)',
         \A q \in PgConn \ {p} : watch'[q] = watch[q],
         c.pq = "up" => watch'[p]["write"] = 0 \/ P!LeftBehind(p)'
  PROVE  PgInv'
<1> DEFINE v == [P!World EXCEPT !.conns[p] = c]
<1>1. Counted(P!World, "none", 0) /\ P!World.conns = conns /\ P!World.results = results
  BY WorldHere
<1>2. Counted(v, "none", 0) /\ v.results = results /\ v.conns = [conns EXCEPT ![p] = c]
  BY <1>1, SameCounts
<1> HIDE DEF v
<1>3. P!PgTypeOK' /\ P!RefsCounted'
  BY <1>2, WorldNext
<1>4. UpReads'
  BY DEF PgInv, P!PgTypeOK, UpReads
<1> QED BY <1>3, <1>4 DEF PgInv

LEMMA ConnectStart ==
  ASSUME PgInv, NEW p \in PgConn, P!js_pgconn_connect_start(p)
  PROVE  PgInv'
<1>1. /\ UNCHANGED results /\ conns[p] \in ConnRecord /\ "write" \in P!Watches
      /\ watch \in [PgConn -> [P!Watches -> 0..Len(promises)]]
  BY WorldHere DEF P!js_pgconn_connect_start, PromiseTypes, P!Watches
<1>2. PICK x \in {"connecting", "up", "bad"} :
        /\ P!Connects(p, x)
        /\ \/ /\ x = "connecting" /\ P!Asks(p, "connect", "pending")
              /\ \E d \in P!Watches : watch' = [watch EXCEPT ![p][d] = Len(promises')]
           \/ x = "up" /\ P!Asks(p, "connect", "resolved") /\ watch' = [watch EXCEPT ![p]["read"] = 0]
           \/ x = "bad" /\ UNCHANGED watch /\ (P!Asks(p, "connect", "pending") \/ UNCHANGED promises)
  BY DEF P!js_pgconn_connect_start
<1>3. \A d \in P!Watches, st \in {"pending", "resolved", "rejected"} :
        P!Asks(p, "connect", st) => watch[p][d] = 0 \/ P!LeftBehind(p)'
  <2> SUFFICES ASSUME NEW d \in P!Watches, NEW st \in {"pending", "resolved", "rejected"},
                      P!Asks(p, "connect", st), watch[p][d] # 0
               PROVE  P!LeftBehind(p)'
    OBVIOUS
  <2>1. P!Waits(p)
    BY DEF P!Waits
  <2> DEFINE n == Len(promises) + 1
  <2>2. /\ promises' \in Seq(PgPromise) /\ Len(promises') = n /\ n \in Nat \ {0}
        /\ promises'[n].conn = p /\ promises'[n].found
    BY <2>1, Asked
  <2> HIDE DEF n
  <2>3. n \in DOMAIN promises'
    BY <2>2
  <2> QED BY <2>2, <2>3 DEF P!LeftBehind
<1>4. /\ PromiseTypes' /\ P!HandlersServeTheirPromise'
      /\ \A q \in PgConn : P!LeftBehind(q) => P!LeftBehind(q)'
  <2>1. CASE UNCHANGED <<promises, watch>>
    BY <2>1, WorldHere DEF PgInv, PromiseTypes, P!HandlersServeTheirPromise, P!LeftBehind
  <2>2. CASE /\ P!Asks(p, "connect", "pending")
             /\ \E d \in P!Watches : watch' = [watch EXCEPT ![p][d] = Len(promises')]
    BY <1>3, <2>2, AskStep
  <2>3. CASE /\ P!Asks(p, "connect", "resolved") /\ watch' = [watch EXCEPT ![p]["read"] = 0]
    BY <2>3, AskStep
  <2>4. CASE P!Asks(p, "connect", "pending") /\ UNCHANGED watch
    BY <2>4, AskStep
  <2> QED BY <1>2, <2>1, <2>2, <2>3, <2>4
<1> DEFINE c == [conns[p] EXCEPT !.pq = x, !.async = "idle"]
<1>5. /\ c \in ConnRecord /\ c.object = conns[p].object /\ c.refs = conns[p].refs
      /\ c.result = conns[p].result /\ c.pq = x
  BY <1>1 DEF ConnRecord
<1>6. conns' = [conns EXCEPT ![p] = c]
  BY <1>2 DEF P!Connects
<1> HIDE DEF c
<1>7. \A q \in PgConn \ {p} : watch'[q] = watch[q]
  BY <1>1, <1>2
<1>8. x = "up" => watch'[p]["write"] = 0 \/ P!LeftBehind(p)'
  <2> SUFFICES ASSUME x = "up" PROVE watch'[p]["write"] = 0 \/ P!LeftBehind(p)'
    OBVIOUS
  <2>1. P!Asks(p, "connect", "resolved") /\ watch' = [watch EXCEPT ![p]["read"] = 0]
    BY <1>2
  <2>2. watch'[p]["write"] = watch[p]["write"]
    BY <1>1, <2>1
  <2> QED BY <1>1, <1>3, <2>1, <2>2
<1> QED BY <1>1, <1>4, <1>5, <1>6, <1>7, <1>8, PqStep

LEMMA ConnectCont ==
  ASSUME PgInv, NEW p \in PgConn, NEW d \in P!Watches, P!js_pgconn_connect_cont(p, d)
  PROVE  PgInv'
<1> DEFINE k == watch[p][d]
           off == [watch[p] EXCEPT ![d] = 0]
<1>1. k # 0 /\ UNCHANGED results /\ conns[p] \in ConnRecord /\ "read" \in P!Watches /\ "write" \in P!Watches
  BY WorldHere DEF P!js_pgconn_connect_cont, P!Polled, P!Watches
<1>2. watch \in [PgConn -> [P!Watches -> 0..Len(promises)]]
  BY WorldHere DEF PromiseTypes
<1>4. PICK x \in {"connecting", "up", "bad"}, async \in {"idle", conns[p].async} :
        /\ conns' = [conns EXCEPT ![p] = [conns[p] EXCEPT !.pq = x, !.async = async]]
        /\ \/ x = "up" /\ P!Settles(k, "resolved") /\ watch' = [watch EXCEPT ![p] = off]
           \/ /\ x # "up" /\ UNCHANGED promises
              /\ \E e \in P!Watches : watch' = [watch EXCEPT ![p] = [off EXCEPT ![e] = k]]
  <2>0. conns \in [PgConn -> ConnRecord]
    BY ConnTypes, WorldHere DEF PgInv, P!PgTypeOK
  <2>1. CASE /\ conns[p].pq = "connecting" /\ UNCHANGED <<conns, promises>>
             /\ \E e \in P!Watches \ {d} : watch' = [watch EXCEPT ![p] = [off EXCEPT ![e] = k]]
    <3>1. [conns[p] EXCEPT !.pq = "connecting", !.async = conns[p].async] = conns[p]
      BY <1>1, <2>1 DEF ConnRecord
    <3>2. conns' = [conns EXCEPT ![p] = [conns[p] EXCEPT !.pq = "connecting", !.async = conns[p].async]]
      BY <2>0, <2>1, <3>1
    <3> QED BY <2>1, <3>2
  <2>2. CASE /\ P!Connects(p, "up") /\ P!Settles(k, "resolved")
             /\ watch' = [watch EXCEPT ![p] = off]
    BY <2>2 DEF P!Connects
  <2>3. CASE conns' = [conns EXCEPT ![p].pq = "bad"] /\ UNCHANGED promises
             /\ watch' = [watch EXCEPT ![p] = [off EXCEPT !["read"] = k]]
    <3>1. [conns[p] EXCEPT !.pq = "bad", !.async = conns[p].async] = [conns[p] EXCEPT !.pq = "bad"]
      BY <1>1 DEF ConnRecord
    <3>2. conns' = [conns EXCEPT ![p] = [conns[p] EXCEPT !.pq = "bad", !.async = conns[p].async]]
      BY <2>3, <3>1
    <3> QED BY <1>1, <2>3, <3>2
  <2> QED BY <2>1, <2>2, <2>3 DEF P!js_pgconn_connect_cont, P!Polled
<1>5. /\ PromiseTypes' /\ P!HandlersServeTheirPromise'
      /\ \A q \in PgConn : P!LeftBehind(q) => P!LeftBehind(q)'
  <2>1. CASE x = "up"
    BY <1>1, <1>4, <2>1, SettleStep
  <2>2. CASE x # "up"
    BY <1>1, <1>4, <2>2, SettleStep
  <2> QED BY <2>1, <2>2
<1> DEFINE c == [conns[p] EXCEPT !.pq = x, !.async = async]
<1>6. /\ c \in ConnRecord /\ c.object = conns[p].object /\ c.refs = conns[p].refs
      /\ c.result = conns[p].result /\ c.pq = x
  BY <1>1 DEF ConnRecord
<1>7. \A q \in PgConn \ {p} : watch'[q] = watch[q]
  BY <1>2, <1>4
<1>8. x = "up" => watch'[p]["write"] = 0 \/ P!LeftBehind(p)'
  <2> SUFFICES ASSUME x = "up", watch'[p]["write"] # 0 PROVE P!LeftBehind(p)
    BY <1>5
  <2>1. watch' = [watch EXCEPT ![p] = off]
    BY <1>4
  <2>2. "write" # d /\ watch[p]["write"] # 0
    BY <1>1, <1>2, <2>1
  <2> QED BY <1>1, <2>2, Handled
<1> HIDE DEF c
<1>9. conns' = [conns EXCEPT ![p] = c]
  BY <1>4 DEF c
<1> QED BY <1>1, <1>5, <1>6, <1>7, <1>8, <1>9, PqStep

\* A result is fetched: the promise of the query is resolved.
LEMMA FetchStep ==
  ASSUME PgInv, NEW p \in PgConn, NEW async \in {"idle", "busy", "more"}, P!Fetches(p, async),
         PromiseTypes', P!HandlersServeTheirPromise',
         \A q \in PgConn : P!LeftBehind(q) => P!LeftBehind(q)',
         \A q \in PgConn : watch[q]["write"] = 0 => watch'[q]["write"] = 0
  PROVE  PgInv'
<1> DEFINE c == [conns[p] EXCEPT !.async = async]
           f == [P!World EXCEPT !.conns[p] = c]
           v == P!pgconn_result(f, p)
<1>1. /\ Counted(P!World, "none", 0) /\ P!World.conns = conns /\ P!World.results = results
      /\ conns[p] \in ConnRecord
  BY WorldHere
<1>2. /\ c \in ConnRecord /\ c.object = conns[p].object /\ c.refs = conns[p].refs
      /\ c.result = conns[p].result /\ c.pq = conns[p].pq
  BY <1>1 DEF ConnRecord
<1>3. P!Becomes(v)
  BY <1>1 DEF P!Fetches
<1> HIDE DEF c
<1>4. Counted(f, "none", 0) /\ f.conns = [conns EXCEPT ![p] = c]
  BY <1>1, <1>2, SameCounts
<1> HIDE DEF f
<1>5. Counted(v, "none", 0) /\ \A q \in PgConn : v.conns[q].pq \in {f.conns[q].pq, "none"}
  BY <1>4, ResultMade
<1> HIDE DEF v
<1>6. conns' = v.conns /\ results' = v.results
  BY <1>3 DEF P!Becomes
<1>7. P!PgTypeOK' /\ P!RefsCounted'
  BY <1>5, <1>6, WorldNext
<1>8. \A q \in PgConn : conns'[q].pq = "up" => conns[q].pq = "up"
  BY <1>2, <1>4, <1>5, <1>6 DEF PgInv, P!PgTypeOK
<1>9. UpReads'
  BY <1>8 DEF PgInv, UpReads
<1> QED BY <1>7, <1>9 DEF PgInv

LEMMA QueryStart ==
  ASSUME PgInv, NEW p \in PgConn, P!js_pgconn_query_start(p) \/ P!QuerySent(p)
  PROVE  PgInv'
<1>0. /\ conns[p] \in ConnRecord /\ watch \in [PgConn -> [P!Watches -> 0..Len(promises)]]
      /\ "read" \in P!Watches /\ "write" \in P!Watches
  BY WorldHere DEF PromiseTypes, P!Watches
<1>1. CASE P!js_pgconn_query_start(p)
  <2>1. UNCHANGED <<conns, results, watch>> /\ P!Asks(p, "query", "rejected")
    BY <1>1 DEF P!js_pgconn_query_start
  <2>2. /\ PromiseTypes' /\ P!HandlersServeTheirPromise'
        /\ \A q \in PgConn : P!LeftBehind(q) => P!LeftBehind(q)'
    BY <2>1, AskStep
  <2>3. conns' = [conns EXCEPT ![p] = conns[p]]
    BY <2>1 DEF PgInv, P!PgTypeOK
  <2>4. conns[p].pq = "up" => watch'[p]["write"] = 0 \/ P!LeftBehind(p)'
    BY <2>1, <2>2 DEF PgInv, UpReads
  <2> QED BY <1>0, <2>1, <2>2, <2>3, <2>4, PqStep
<1>2. CASE /\ P!QuerySent(p) /\ P!Fetches(p, "more") /\ P!Asks(p, "query", "resolved")
           /\ watch' = [watch EXCEPT ![p]["read"] = 0]
  <2>1. /\ PromiseTypes' /\ P!HandlersServeTheirPromise'
        /\ \A q \in PgConn : P!LeftBehind(q) => P!LeftBehind(q)'
    BY <1>2, AskStep
  <2>2. \A q \in PgConn : watch[q]["write"] = 0 => watch'[q]["write"] = 0
    BY <1>0, <1>2
  <2> QED BY <1>2, <2>1, <2>2, FetchStep
<1>3. CASE /\ P!QuerySent(p) /\ conns' = [conns EXCEPT ![p].async = "busy"]
           /\ P!Asks(p, "query", "pending") /\ UNCHANGED results
           /\ watch' = [watch EXCEPT ![p]["read"] = Len(promises')]
  <2>1. conns[p].pq = "up" /\ (watch[p]["write"] = 0 \/ P!LeftBehind(p))
    BY <1>3 DEF P!QuerySent, PgInv, UpReads
  <2>2. \A e \in P!Watches \ {"read"} : watch[p][e] = 0 \/ P!LeftBehind(p)'
    <3>1. P!LeftBehind(p) => P!LeftBehind(p)'
      BY <1>3, Asked
    <3> QED BY <2>1, <3>1 DEF P!Watches
  <2>4. /\ PromiseTypes' /\ P!HandlersServeTheirPromise'
        /\ \A q \in PgConn : P!LeftBehind(q) => P!LeftBehind(q)'
    BY <1>0, <1>3, <2>2, AskStep
  <2> DEFINE c == [conns[p] EXCEPT !.async = "busy"]
  <2>5. /\ c \in ConnRecord /\ c.object = conns[p].object /\ c.refs = conns[p].refs
        /\ c.result = conns[p].result
    BY <1>0 DEF ConnRecord
  <2>6. conns' = [conns EXCEPT ![p] = c]
    BY <1>3
  <2> HIDE DEF c
  <2>7. \A q \in PgConn \ {p} : watch'[q] = watch[q]
    BY <1>0, <1>3
  <2>8. watch'[p]["write"] = 0 \/ P!LeftBehind(p)'
    BY <1>0, <1>3, <2>1, <2>4
  <2> QED BY <1>3, <2>4, <2>5, <2>6, <2>7, <2>8, PqStep
<1> QED BY <1>1, <1>2, <1>3 DEF P!QuerySent

LEMMA QueryCont ==
  ASSUME PgInv, NEW p \in PgConn, P!js_pgconn_query_cont(p)
  PROVE  PgInv'
<1> DEFINE k == watch[p]["read"]
           x == IF conns[p].pq = "none" THEN "none" ELSE "bad"
<1>0. /\ conns[p] \in ConnRecord /\ watch \in [PgConn -> [P!Watches -> 0..Len(promises)]]
      /\ "read" \in P!Watches /\ "write" \in P!Watches
  BY WorldHere DEF PromiseTypes, P!Watches
<1>1. k # 0
  BY DEF P!js_pgconn_query_cont
<1>2. CASE /\ \E async \in {"idle", "busy", "more"} : P!Fetches(p, async)
           /\ P!Settles(k, "resolved") /\ watch' = [watch EXCEPT ![p]["read"] = 0]
  <2>1. /\ PromiseTypes' /\ P!HandlersServeTheirPromise'
        /\ \A q \in PgConn : P!LeftBehind(q) => P!LeftBehind(q)'
    BY <1>0, <1>1, <1>2, SettleStep
  <2>2. \A q \in PgConn : watch[q]["write"] = 0 => watch'[q]["write"] = 0
    BY <1>0, <1>2
  <2> QED BY <1>2, <2>1, <2>2, FetchStep
<1>3. CASE conns' = [conns EXCEPT ![p].pq = x] /\ P!Settles(k, "rejected") /\ UNCHANGED <<results, watch>>
  <2>1. /\ PromiseTypes' /\ P!HandlersServeTheirPromise'
        /\ \A q \in PgConn : P!LeftBehind(q) => P!LeftBehind(q)'
    BY <1>0, <1>1, <1>3, SettleStep
  <2> DEFINE c == [conns[p] EXCEPT !.pq = x]
  <2>2. /\ c \in ConnRecord /\ c.object = conns[p].object /\ c.refs = conns[p].refs
        /\ c.result = conns[p].result /\ c.pq = x /\ x # "up"
    BY <1>0 DEF ConnRecord
  <2>3. conns' = [conns EXCEPT ![p] = c]
    BY <1>3
  <2> HIDE DEF c
  <2> QED BY <1>3, <2>1, <2>2, <2>3, PqStep
<1>4. /\ conns[p].async \in {"idle", "busy", "more"}
      /\ [conns EXCEPT ![p].pq = IF @ = "none" THEN @ ELSE "bad"] = [conns EXCEPT ![p].pq = x]
  BY <1>0 DEF ConnRecord
<1> QED BY <1>2, <1>3, <1>4 DEF P!js_pgconn_query_cont

LEMMA PgStart == P!PgInit => PgInv
<1> SUFFICES ASSUME P!PgInit PROVE PgInv
  OBVIOUS
<1>1. /\ results = <<>> /\ promises = <<>> /\ Len(results) = 0 /\ Len(promises) = 0
      /\ DOMAIN results = {} /\ conns = [p \in PgConn |-> P!NewConn] /\ "none" \notin PgConn
      /\ watch = [p \in PgConn |-> P!NoWatch]
  BY NetworkAssumption DEF P!PgInit
<1>2. P!PgTypeOK
  BY <1>1 DEF P!PgTypeOK, P!NewConn, P!NoWatch
<1>3. P!RefsCounted
  <2>1. \A p \in PgConn : conns[p].refs = 1 /\ conns[p].object = TRUE /\ conns[p].result = 0
    BY <1>1 DEF P!NewConn
  <2>2. \A p \in PgConn : {r \in DOMAIN results : results[r].conn = p} = {}
    BY <1>1
  <2>3. Cardinality({}) = 0
    BY FS_EmptySet
  <2>4. \A p \in PgConn : conns[p].refs = P!One(conns[p].object)
                            + P!Cardinality({r \in DOMAIN results : results[r].conn = p})
    <3> TAKE p \in PgConn
    <3>1. P!One(conns[p].object) = 1
      BY <2>1, OneIs
    <3>2. P!Cardinality({r \in DOMAIN results : results[r].conn = p}) = 0
      BY <2>2, <2>3, SameCardinality
    <3> QED BY <2>1, <3>1, <3>2
  <2> QED BY <1>1, <2>1, <2>4 DEF P!RefsCounted
<1>4. P!HandlersServeTheirPromise /\ UpReads
  BY <1>1 DEF P!HandlersServeTheirPromise, UpReads, P!NoWatch, P!Watches
<1> QED BY <1>2, <1>3, <1>4 DEF PgInv

LEMMA PgStep == PgInv /\ [P!PgNext]_pgVars => PgInv'
<1> SUFFICES ASSUME PgInv, [P!PgNext]_pgVars PROVE PgInv'
  OBVIOUS
<1>1. CASE UNCHANGED pgVars
  BY <1>1 DEF pgVars, PgInv, P!PgTypeOK, P!RefsCounted, P!HandlersServeTheirPromise, P!LeftBehind, UpReads
<1>2. ASSUME NEW p \in PgConn,
             \/ P!js_pgconn_connect_start(p) \/ P!js_pgconn_query_start(p) \/ P!QuerySent(p)
             \/ P!js_pgconn_query_cont(p) \/ P!result_row(p) \/ P!js_pgconn_close(p)
             \/ P!js_pgconn_finalizer(p) \/ \E d \in P!Watches : P!js_pgconn_connect_cont(p, d)
      PROVE  PgInv'
  BY <1>2, ConnectStart, QueryStart, QueryCont, RowAndClose, ConnFinalized, ConnectCont
<1>3. ASSUME NEW r \in DOMAIN results,
             \/ P!js_pgresult_finalizer(r) \/ P!js_pgresult_iterator(r)
             \/ P!js_pgresult_iterator_free(r)
      PROVE  PgInv'
  BY <1>3, ResultSteps
<1> QED BY <1>1, <1>2, <1>3 DEF P!PgNext

-----------------------------------------------------------------------------
(***************************************************************************)
(* AsyncClosure: its functions take and give the list of closures and the  *)
(* handlers, w.                                                            *)
(***************************************************************************)
ClosureWorld == [list : Seq(M!ClosureType), io : [Fd -> [M!Watches -> Nat]]]
Active(w, k) == w.list[k].state # "none"

\* HandlersAsWanted of w, and that a closure that wants something has a descriptor for
\* itself.
Wanted(w) ==
  \A f \in Fd, d \in M!Watches, k \in DOMAIN w.list :
    w.io[f][d] = k <=> w.list[k].fd = f /\ w.list[k].state = d
Alone(w) ==
  \A k \in DOMAIN w.list : Active(w, k) =>
    /\ w.list[k].fd \in Fd
    /\ \A j \in DOMAIN w.list : Active(w, j) /\ w.list[j].fd = w.list[k].fd => j = k
Handlers(w) == \A f \in Fd, d \in M!Watches : w.io[f][d] \in 0..Len(w.list)
Serves(w) == w \in ClosureWorld /\ Wanted(w) /\ Alone(w) /\ Handlers(w)

\* A closure's record with another state, promise or place in the list.
LEMMA ClosureIs ==
  ASSUME NEW a \in M!ClosureType
  PROVE  a.state \in M!Wants /\ a.fd \in Fd \union {-1} /\ a.who.conn \in Conn /\ a.listed \in BOOLEAN
<1>1. \A x \in [conn : Conn, op : {"connect", "query", "next"}] : x.conn \in Conn
  OBVIOUS
<1> QED BY <1>1 DEF M!ClosureType

LEMMA StateIs ==
  ASSUME NEW a \in M!ClosureType, NEW s \in M!Wants, NEW b, b = [a EXCEPT !.state = s]
  PROVE  /\ b \in M!ClosureType /\ b.state = s /\ b.fd = a.fd /\ b.who = a.who
         /\ b.listed = a.listed /\ b.st = a.st
<1> DEFINE Who == [conn : Conn, op : {"connect", "query", "next"}]
<1> HIDE DEF Who
<1>1. M!ClosureType = [who : Who, fd : Fd \union {-1}, state : M!Wants, listed : BOOLEAN,
                       st : {"pending", "resolved", "rejected"}]
  BY DEF M!ClosureType, Who
<1> QED BY <1>1

LEMMA PromiseIs ==
  ASSUME NEW a \in M!ClosureType, NEW s \in {"pending", "resolved", "rejected"},
         NEW b, b = [a EXCEPT !.st = s]
  PROVE  /\ b \in M!ClosureType /\ b.state = a.state /\ b.fd = a.fd /\ b.who = a.who
         /\ b.listed = a.listed /\ b.st = s
<1> DEFINE Who == [conn : Conn, op : {"connect", "query", "next"}]
<1> HIDE DEF Who
<1>1. M!ClosureType = [who : Who, fd : Fd \union {-1}, state : M!Wants, listed : BOOLEAN,
                       st : {"pending", "resolved", "rejected"}]
  BY DEF M!ClosureType, Who
<1> QED BY <1>1

LEMMA ListedIs ==
  ASSUME NEW a \in M!ClosureType, NEW b, b = [a EXCEPT !.listed = FALSE]
  PROVE  /\ b \in M!ClosureType /\ b.state = a.state /\ b.fd = a.fd /\ b.who = a.who
         /\ b.listed = FALSE /\ b.st = a.st
<1> DEFINE Who == [conn : Conn, op : {"connect", "query", "next"}]
<1> HIDE DEF Who
<1>1. M!ClosureType = [who : Who, fd : Fd \union {-1}, state : M!Wants, listed : BOOLEAN,
                       st : {"pending", "resolved", "rejected"}]
  BY DEF M!ClosureType, Who
<1> QED BY <1>1

\* The entry of one closure is replaced, or the handlers of one descriptor.
LEMMA EntryReplaced ==
  ASSUME NEW w \in ClosureWorld, NEW k \in DOMAIN w.list, NEW a \in M!ClosureType
  PROVE  LET v == [w EXCEPT !.list[k] = a]
         IN /\ v \in ClosureWorld /\ v.io = w.io /\ v.list = [w.list EXCEPT ![k] = a]
            /\ v.list[k] = a /\ DOMAIN v.list = DOMAIN w.list /\ Len(v.list) = Len(w.list)
            /\ \A j \in DOMAIN w.list \ {k} : v.list[j] = w.list[j]
<1> DEFINE ls == [w.list EXCEPT ![k] = a]
           v == [w EXCEPT !.list = ls]
<1>1. w.list \in Seq(M!ClosureType) /\ w.io \in [Fd -> [M!Watches -> Nat]]
  BY DEF ClosureWorld
<1>2. /\ ls \in Seq(M!ClosureType) /\ ls[k] = a /\ Len(ls) = Len(w.list) /\ DOMAIN ls = DOMAIN w.list
      /\ \A j \in DOMAIN w.list \ {k} : ls[j] = w.list[j]
  BY <1>1
<1> HIDE DEF ls
<1>3. v \in ClosureWorld /\ v.list = ls /\ v.io = w.io
  BY <1>1, <1>2 DEF ClosureWorld
<1>4. [w EXCEPT !.list[k] = a] = v /\ ls = [w.list EXCEPT ![k] = a]
  BY DEF ls
<1> QED BY <1>2, <1>3, <1>4

LEMMA HandlerSet ==
  ASSUME NEW w \in ClosureWorld, NEW f \in Fd, NEW d \in M!Watches, NEW k \in Nat
  PROVE  LET v == M!Sets(w, f, d, k)
         IN /\ v \in ClosureWorld /\ v.list = w.list /\ v.io[f][d] = k
            /\ \A g \in Fd, e \in M!Watches : g # f \/ e # d => v.io[g][e] = w.io[g][e]
<1> DEFINE hs == [w.io EXCEPT ![f] = [w.io[f] EXCEPT ![d] = k]]
           v == [w EXCEPT !.io = hs]
<1>1. w.list \in Seq(M!ClosureType) /\ w.io \in [Fd -> [M!Watches -> Nat]]
  BY DEF ClosureWorld
<1>2. /\ hs \in [Fd -> [M!Watches -> Nat]] /\ hs[f][d] = k
      /\ \A g \in Fd, e \in M!Watches : g # f \/ e # d => hs[g][e] = w.io[g][e]
  BY <1>1
<1> HIDE DEF hs
<1>3. v \in ClosureWorld /\ v.list = w.list /\ v.io = hs
  BY <1>1, <1>2 DEF ClosureWorld
<1>4. M!Sets(w, f, d, k) = v
  BY DEF hs, M!Sets
<1> QED BY <1>2, <1>3, <1>4

\* asyncclosure_change_event(): the handlers follow, if a closure that begins to want
\* something is alone with its descriptor.
LEMMA ChangeEvent ==
  ASSUME NEW w, Serves(w), NEW k \in DOMAIN w.list, NEW new \in M!Wants,
         new # "none" =>
           /\ w.list[k].fd \in Fd
           /\ \A j \in DOMAIN w.list : Active(w, j) /\ w.list[j].fd = w.list[k].fd => j = k
  PROVE  LET v == M!asyncclosure_change_event(w, k, new)
         IN Serves(v) /\ v.list = [w.list EXCEPT ![k] = [w.list[k] EXCEPT !.state = new]]
<1>0. w \in ClosureWorld /\ w.list \in Seq(M!ClosureType) /\ w.list[k] \in M!ClosureType
  BY DEF Serves, ClosureWorld
<1>a. PICK a \in M!ClosureType : a = w.list[k]
  BY <1>0
<1>b. PICK b : b = [a EXCEPT !.state = new]
  OBVIOUS
<1> DEFINE off == IF a.state = "none" THEN w ELSE M!Sets(w, a.fd, a.state, 0)
           on == [off EXCEPT !.list[k] = b]
           v == M!asyncclosure_change_event(w, k, new)
<1>1. /\ w \in ClosureWorld /\ Wanted(w) /\ Alone(w) /\ Handlers(w)
      /\ Len(w.list) \in Nat /\ DOMAIN w.list = 1..Len(w.list) /\ k \in Nat /\ k # 0 /\ 0 \in Nat
  BY <1>0 DEF Serves
<1>2. /\ a.state \in M!Wants /\ M!Wants = {"none", "read", "write"} /\ M!Watches = {"read", "write"}
      /\ b \in M!ClosureType /\ b.state = new /\ b.fd = a.fd
  <2>1. M!Wants = {"none", "read", "write"} /\ M!Watches = {"read", "write"}
    BY DEF M!Wants, M!Watches
  <2>2. a.state \in M!Wants
    BY ClosureIs
  <2>3. b \in M!ClosureType /\ b.state = new /\ b.fd = a.fd
    BY <1>b, StateIs
  <2> QED BY <2>1, <2>2, <2>3
<1>3. CASE a.state = new
  <2>1. v = w
    BY <1>3, <1>a DEF M!asyncclosure_change_event
  <2>2. b = a
    BY <1>b, <1>3 DEF M!ClosureType
  <2>3. w.list = [w.list EXCEPT ![k] = b]
    BY <1>0, <1>a, <2>2
  <2> QED BY <1>a, <1>b, <2>1, <2>3
<1>4. CASE a.state # new
  <2>1. v = IF new = "none" THEN on ELSE M!Sets(on, a.fd, new, k)
    <3>1. on = [off EXCEPT !.list[k].state = new]
      <4>1. off.list[k] = a
        <5>1. CASE a.state = "none"
          BY <1>a, <5>1
        <5>2. CASE a.state # "none"
          <6>1. a.fd \in Fd /\ a.state \in M!Watches
            BY <1>1, <1>2, <1>a, <5>2 DEF Alone, Active
          <6>2. M!Sets(w, a.fd, a.state, 0).list = w.list
            BY <1>1, <6>1, HandlerSet
          <6> QED BY <1>a, <5>2, <6>2
        <5> QED BY <5>1, <5>2
      <4> HIDE DEF off
      <4> QED BY <1>b, <4>1
    <3> QED BY <1>4, <1>a, <3>1 DEF M!asyncclosure_change_event
  <2>2. /\ off \in ClosureWorld /\ off.list = w.list
        /\ \A g \in Fd, e \in M!Watches :
             off.io[g][e] = IF g = a.fd /\ e = a.state THEN 0 ELSE w.io[g][e]
    <3>1. CASE a.state = "none"
      BY <1>1, <1>2, <3>1
    <3>2. CASE a.state # "none"
      <4>1. a.fd \in Fd /\ a.state \in M!Watches
        BY <1>1, <1>2, <1>a, <3>2 DEF Alone, Active
      <4>2. off = M!Sets(w, a.fd, a.state, 0)
        BY <3>2
      <4> HIDE DEF off, on, v
      <4>0. w \in ClosureWorld /\ 0 \in Nat
        BY <1>1
      <4>3. /\ off \in ClosureWorld /\ off.list = w.list /\ off.io[a.fd][a.state] = 0
            /\ \A g \in Fd, e \in M!Watches : g # a.fd \/ e # a.state => off.io[g][e] = w.io[g][e]
        BY <4>0, <4>1, <4>2, HandlerSet
      <4> QED BY <4>3
    <3> QED BY <3>1, <3>2
  <2> HIDE DEF off
  <2>3. /\ on \in ClosureWorld /\ on.io = off.io /\ on.list = [w.list EXCEPT ![k] = b]
        /\ on.list[k] = b /\ DOMAIN on.list = DOMAIN w.list /\ Len(on.list) = Len(w.list)
        /\ \A j \in DOMAIN w.list \ {k} : on.list[j] = w.list[j]
    BY <1>2, <2>2, EntryReplaced
  <2> HIDE DEF on
  <2>4. /\ v \in ClosureWorld /\ v.list = on.list
        /\ \A g \in Fd, e \in M!Watches :
             v.io[g][e] = IF g = a.fd /\ e = new THEN k
                          ELSE IF g = a.fd /\ e = a.state THEN 0 ELSE w.io[g][e]
    <3>1. CASE new = "none"
      BY <1>2, <2>1, <2>2, <2>3, <3>1
    <3>2. CASE new # "none"
      <4>1. a.fd \in Fd /\ new \in M!Watches
        BY <1>2, <1>a, <3>2
      <4>2. v = M!Sets(on, a.fd, new, k)
        BY <2>1, <3>2
      <4> HIDE DEF v, on
      <4>0. on \in ClosureWorld /\ k \in Nat
        BY <1>1, <2>3
      <4>3. /\ v \in ClosureWorld /\ v.list = on.list /\ v.io[a.fd][new] = k
            /\ \A g \in Fd, e \in M!Watches : g # a.fd \/ e # new => v.io[g][e] = on.io[g][e]
        BY <4>0, <4>1, <4>2, HandlerSet
      <4> QED BY <2>2, <2>3, <4>3
    <3> QED BY <3>1, <3>2
  <2> HIDE DEF v
  <2>5. Handlers(v)
    BY <1>1, <2>3, <2>4 DEF Handlers
  <2>6. \A j \in DOMAIN w.list \ {k} : Active(w, j) /\ (new # "none" \/ a.state # "none") => w.list[j].fd # a.fd
    BY <1>1, <1>a DEF Alone, Active
  <2>7. Wanted(v)
    <3> SUFFICES ASSUME NEW g \in Fd, NEW e \in M!Watches, NEW j \in DOMAIN w.list
        PROVE v.io[g][e] = j <=> v.list[j].fd = g /\ v.list[j].state = e
      BY <2>3, <2>4 DEF Wanted
    <3>0. /\ w.io[g][e] = j <=> w.list[j].fd = g /\ w.list[j].state = e
          /\ w.io[g][e] = k <=> a.fd = g /\ a.state = e
          /\ j # 0 /\ e # "none"
      BY <1>1, <1>2, <1>a DEF Wanted
    <3>1. CASE j = k
      BY <1>1, <1>2, <1>4, <2>3, <2>4, <3>0, <3>1
    <3>2. CASE j # k
      <4>1. v.list[j] = w.list[j]
        BY <2>3, <2>4, <3>2
      <4>2. CASE g = a.fd /\ (e = new \/ e = a.state)
        <5>1. v.io[g][e] # j
          BY <1>1, <2>4, <3>0, <3>2, <4>2
        <5>2. ~(w.list[j].fd = g /\ w.list[j].state = e)
          BY <2>6, <3>0, <3>2, <4>2 DEF Active
        <5> QED BY <4>1, <5>1, <5>2
      <4>3. CASE ~(g = a.fd /\ (e = new \/ e = a.state))
        BY <2>4, <3>0, <4>1, <4>3
      <4> QED BY <4>2, <4>3
    <3> QED BY <3>1, <3>2
  <2>8. Alone(v)
    <3> SUFFICES ASSUME NEW j \in DOMAIN w.list, Active(v, j)
        PROVE /\ v.list[j].fd \in Fd
              /\ \A i \in DOMAIN w.list : Active(v, i) /\ v.list[i].fd = v.list[j].fd => i = j
      BY <2>3, <2>4 DEF Alone
    <3>1. \A i \in DOMAIN w.list : v.list[i].fd = w.list[i].fd
      BY <1>2, <1>a, <2>3, <2>4
    <3>2. \A i \in DOMAIN w.list \ {k} : Active(v, i) <=> Active(w, i)
      BY <2>3, <2>4 DEF Active
    <3>3. Active(v, k) => new # "none"
      BY <1>2, <2>3, <2>4 DEF Active
    <3>4. v.list[j].fd \in Fd
      BY <1>1, <1>a, <2>6, <3>1, <3>2, <3>3 DEF Alone
    <3>5. ASSUME NEW i \in DOMAIN w.list, Active(v, i), v.list[i].fd = v.list[j].fd PROVE i = j
      BY <1>1, <1>a, <2>6, <3>1, <3>2, <3>3, <3>5 DEF Alone
    <3> QED BY <3>4, <3>5
  <2>9. Serves(v)
    BY <2>4, <2>5, <2>7, <2>8 DEF Serves
  <2> QED BY <1>a, <1>b, <2>3, <2>4, <2>9 DEF v
<1> QED BY <1>3, <1>4

\* v is w and a closure that wants "want".
Adds(w, v, n, who, f, want) ==
  /\ Serves(v) /\ Len(v.list) = n /\ DOMAIN v.list = DOMAIN w.list \union {n}
  /\ n \notin DOMAIN w.list /\ \A j \in DOMAIN w.list : j < n /\ v.list[j] = w.list[j]
  /\ v.list[n].who = who /\ v.list[n].fd = f
  /\ v.list[n].state = want /\ v.list[n].listed = TRUE

\* asyncclosure_new(): one closure more, the newest.
LEMMA ClosureMade ==
  ASSUME NEW w, Serves(w), NEW who \in [conn : Conn, op : {"connect", "query", "next"}],
         NEW f \in Fd \union {-1}, NEW want \in M!Wants,
         want # "none" => f \in Fd /\ \A j \in DOMAIN w.list : Active(w, j) => w.list[j].fd # f,
         NEW v, v = M!asyncclosure_new(w, who, f, want), NEW n, n = Len(w.list) + 1
  PROVE  Adds(w, v, n, who, f, want)
<1> DEFINE a == [who |-> who, fd |-> f, state |-> "none", listed |-> TRUE,
                 st |-> "pending"]
           u == [w EXCEPT !.list = Append(w.list, a)]
<1>1. /\ w \in ClosureWorld /\ Wanted(w) /\ Alone(w) /\ Handlers(w) /\ w.list \in Seq(M!ClosureType)
      /\ w.io \in [Fd -> [M!Watches -> Nat]] /\ Len(w.list) \in Nat /\ DOMAIN w.list = 1..Len(w.list)
  BY DEF Serves, ClosureWorld
<1>2. /\ a \in M!ClosureType /\ a.who = who /\ a.fd = f /\ a.state = "none"
      /\ a.listed = TRUE /\ "none" \notin M!Watches
  BY DEF M!ClosureType, M!Wants, M!Watches
<1>3. v = M!asyncclosure_change_event(u, n, want)
  BY DEF M!asyncclosure_new
<1> HIDE DEF a
<1>4. /\ u.list = Append(w.list, a) /\ u.io = w.io /\ u \in ClosureWorld
  <2>1. PICK ls : ls = Append(w.list, a)
    OBVIOUS
  <2>2. ls \in Seq(M!ClosureType)
    BY <1>1, <1>2, <2>1
  <2>3. u = [w EXCEPT !.list = ls]
    BY <2>1
  <2> HIDE DEF u
  <2>4. u.list = ls /\ u.io = w.io /\ u \in ClosureWorld
    BY <1>1, <2>2, <2>3 DEF ClosureWorld
  <2> QED BY <2>1, <2>4
<1> HIDE DEF u
<1>5. /\ Len(u.list) = n /\ DOMAIN u.list = DOMAIN w.list \union {n} /\ n \notin DOMAIN w.list
      /\ u.list[n] = a /\ \A j \in DOMAIN w.list : j < n /\ u.list[j] = w.list[j]
  BY <1>1, <1>2, <1>4
<1>6. Serves(u)
  <2>1. Handlers(u)
    BY <1>1, <1>4, <1>5 DEF Handlers
  <2>2. Wanted(u)
    <3> SUFFICES ASSUME NEW g \in Fd, NEW e \in M!Watches, NEW j \in DOMAIN u.list
        PROVE u.io[g][e] = j <=> u.list[j].fd = g /\ u.list[j].state = e
      BY DEF Wanted
    <3>1. CASE j \in DOMAIN w.list
      BY <1>1, <1>4, <1>5, <3>1 DEF Wanted
    <3>2. CASE j = n
      <4>1. u.io[g][e] \in 0..Len(w.list)
        BY <1>1, <1>4 DEF Handlers
      <4>2. u.io[g][e] # n
        BY <1>1, <4>1
      <4> QED BY <1>2, <1>5, <3>2, <4>2
    <3> QED BY <1>5, <3>1, <3>2
  <2>3. Alone(u)
    <3>1. ~Active(u, n) /\ \A j \in DOMAIN w.list : Active(u, j) <=> Active(w, j)
      BY <1>2, <1>5 DEF Active
    <3>2. \A j \in DOMAIN u.list : Active(u, j) => j \in DOMAIN w.list
      BY <1>5, <3>1
    <3> QED BY <1>1, <1>5, <3>1, <3>2 DEF Alone
  <2> QED BY <1>4, <2>1, <2>2, <2>3 DEF Serves
<1>7. want # "none" => /\ u.list[n].fd \in Fd
                       /\ \A j \in DOMAIN u.list : Active(u, j) /\ u.list[j].fd = u.list[n].fd => j = n
  BY <1>2, <1>5 DEF Active
<1>8. Serves(v) /\ v.list = [u.list EXCEPT ![n] = [u.list[n] EXCEPT !.state = want]]
  <2>1. n \in DOMAIN u.list
    BY <1>5
  <2> QED BY <1>3, <1>6, <1>7, <2>1, ChangeEvent
<1>9. PICK b : b = [a EXCEPT !.state = want]
  OBVIOUS
<1>10. b.who = a.who /\ b.fd = f /\ b.state = want /\ b.listed = TRUE
  BY <1>2, <1>9, StateIs
<1>11. u.list \in Seq(M!ClosureType) /\ v.list = [u.list EXCEPT ![n] = b]
  BY <1>4, <1>5, <1>8, <1>9 DEF ClosureWorld
<1>12. /\ Len(v.list) = n /\ DOMAIN v.list = DOMAIN u.list /\ v.list[n] = b
       /\ \A j \in DOMAIN w.list : v.list[j] = u.list[j]
  <2>1. n \in DOMAIN u.list
    BY <1>5
  <2> QED BY <1>5, <1>11, <2>1
<1> QED BY <1>2, <1>5, <1>8, <1>10, <1>12 DEF Adds

-----------------------------------------------------------------------------
(***************************************************************************)
(* A closure that stops wanting anything.                                  *)
(***************************************************************************)
Ends(w, v, k) ==
  /\ Serves(v) /\ Len(v.list) = Len(w.list) /\ DOMAIN v.list = DOMAIN w.list
  /\ \A j \in DOMAIN w.list \ {k} : v.list[j] = w.list[j]
  /\ v.list[k].state = "none" /\ v.list[k].fd = w.list[k].fd

\* What the handlers serve does not depend on the promise or the place in the list.
LEMMA SameHandlers ==
  ASSUME NEW w, Serves(w), NEW k \in DOMAIN w.list, NEW b \in M!ClosureType,
         b.state = w.list[k].state, b.fd = w.list[k].fd
  PROVE  LET v == [w EXCEPT !.list[k] = b]
         IN /\ Serves(v) /\ v.list[k] = b /\ DOMAIN v.list = DOMAIN w.list /\ Len(v.list) = Len(w.list)
            /\ \A j \in DOMAIN w.list \ {k} : v.list[j] = w.list[j]
<1> DEFINE v == [w EXCEPT !.list[k] = b]
<1>1. /\ w \in ClosureWorld /\ Wanted(w) /\ Alone(w) /\ Handlers(w)
  BY DEF Serves
<1>2. /\ v \in ClosureWorld /\ v.io = w.io /\ v.list[k] = b /\ DOMAIN v.list = DOMAIN w.list
      /\ Len(v.list) = Len(w.list) /\ \A j \in DOMAIN w.list \ {k} : v.list[j] = w.list[j]
  BY <1>1, EntryReplaced
<1> HIDE DEF v
<1>3. \A j \in DOMAIN w.list : v.list[j].state = w.list[j].state /\ v.list[j].fd = w.list[j].fd
  BY <1>2
<1>4. Wanted(v) /\ Handlers(v)
  BY <1>1, <1>2, <1>3 DEF Wanted, Handlers
<1>5. Alone(v)
  BY <1>1, <1>2, <1>3 DEF Alone, Active
<1> QED BY <1>2, <1>4, <1>5 DEF Serves, v

\* asyncclosure_change_event() to nothing.
LEMMA StopsWanting ==
  ASSUME NEW w, Serves(w), NEW k \in DOMAIN w.list
  PROVE  Ends(w, M!asyncclosure_change_event(w, k, "none"), k)
<1>0. PICK v : v = M!asyncclosure_change_event(w, k, "none")
  OBVIOUS
<1>1. "none" \in M!Wants /\ w.list \in Seq(M!ClosureType) /\ w.list[k] \in M!ClosureType
  BY DEF M!Wants, Serves, ClosureWorld
<1>2. PICK b : b = [w.list[k] EXCEPT !.state = "none"]
  OBVIOUS
<1>3. b.state = "none" /\ b.fd = w.list[k].fd
  BY <1>1, <1>2, StateIs
<1>4. Serves(v) /\ v.list = [w.list EXCEPT ![k] = b]
  BY <1>0, <1>1, <1>2, ChangeEvent
<1>5. v.list[k] = b /\ Len(v.list) = Len(w.list) /\ DOMAIN v.list = DOMAIN w.list
      /\ \A j \in DOMAIN w.list \ {k} : v.list[j] = w.list[j]
  BY <1>1, <1>4
<1> QED BY <1>0, <1>3, <1>4, <1>5 DEF Ends

\* asyncclosure_done(), asyncclosure_resolve() and asyncclosure_error().
LEMMA DoneEnds ==
  ASSUME NEW w, Serves(w), NEW k \in DOMAIN w.list
  PROVE  Ends(w, M!asyncclosure_done(w, k), k)
<1>0. PICK u : u = M!asyncclosure_change_event(w, k, "none")
  OBVIOUS
<1>1. Ends(w, u, k)
  BY <1>0, StopsWanting
<1>2. Serves(u) /\ k \in DOMAIN u.list /\ u.list \in Seq(M!ClosureType)
  BY <1>1 DEF Ends, Serves, ClosureWorld
<1>a. PICK a \in M!ClosureType : a = u.list[k]
  BY <1>2
<1>b. PICK b : b = [a EXCEPT !.listed = FALSE]
  OBVIOUS
<1>3. b \in M!ClosureType /\ b.state = a.state /\ b.fd = a.fd
  BY <1>b, ListedIs
<1>4. M!asyncclosure_done(w, k) = [u EXCEPT !.list[k] = b]
  BY <1>0, <1>a, <1>b DEF M!asyncclosure_done
<1>v. PICK v : v = [u EXCEPT !.list[k] = b]
  OBVIOUS
<1>5. /\ Serves(v) /\ v.list[k] = b /\ DOMAIN v.list = DOMAIN u.list /\ Len(v.list) = Len(u.list)
      /\ \A j \in DOMAIN u.list \ {k} : v.list[j] = u.list[j]
  BY <1>2, <1>3, <1>a, <1>v, SameHandlers
<1> QED BY <1>1, <1>3, <1>4, <1>5, <1>a, <1>v DEF Ends

LEMMA SettledEnds ==
  ASSUME NEW w, Serves(w), NEW k \in DOMAIN w.list
  PROVE  /\ Ends(w, M!asyncclosure_resolve(w, k), k)
         /\ Ends(w, M!asyncclosure_error(w, k), k)
<1>1. ASSUME NEW s \in {"resolved", "rejected"}
      PROVE Ends(w, M!asyncclosure_done([w EXCEPT !.list[k].st = s], k), k)
  <2>0. w.list \in Seq(M!ClosureType)
    BY DEF Serves, ClosureWorld
  <2>a. PICK a \in M!ClosureType : a = w.list[k]
    BY <2>0
  <2>b. PICK b : b = [a EXCEPT !.st = s]
    OBVIOUS
  <2>1. b \in M!ClosureType /\ b.state = a.state /\ b.fd = a.fd
    BY <2>b, PromiseIs
  <2>v. PICK v : v = [w EXCEPT !.list[k] = b]
    OBVIOUS
  <2>2. /\ Serves(v) /\ DOMAIN v.list = DOMAIN w.list /\ Len(v.list) = Len(w.list)
        /\ v.list[k] = b /\ \A j \in DOMAIN w.list \ {k} : v.list[j] = w.list[j]
    BY <2>1, <2>a, <2>v, SameHandlers
  <2>3. v = [w EXCEPT !.list[k].st = s]
    BY <2>a, <2>b, <2>v
  <2>4. k \in DOMAIN v.list
    BY <2>2
  <2>5. Ends(v, M!asyncclosure_done(v, k), k)
    BY <2>2, <2>4, DoneEnds
  <2>6. Ends(w, M!asyncclosure_done(v, k), k)
    BY <2>1, <2>2, <2>5, <2>a DEF Ends
  <2> QED BY <2>3, <2>6
<1>2. "resolved" \in {"resolved", "rejected"} /\ "rejected" \in {"resolved", "rejected"}
  OBVIOUS
<1> QED BY <1>1, <1>2 DEF M!asyncclosure_resolve, M!asyncclosure_error

\* A second function of the file goes on where the first has stopped.
LEMMA EndsAgain ==
  ASSUME NEW w, NEW u, NEW v, NEW k, Ends(w, u, k), Ends(u, v, k)
  PROVE  Ends(w, v, k)
BY DEF Ends

\* asyncclosure_lookup(): the newest of the list with that descriptor.
LEMMA LookupIs ==
  ASSUME NEW w \in ClosureWorld, NEW f
  PROVE  LET k == M!asyncclosure_lookup(w, f)
         IN \/ k = 0 /\ \A j \in DOMAIN w.list : ~(w.list[j].listed /\ w.list[j].fd = f)
            \/ /\ k \in DOMAIN w.list /\ w.list[k].listed /\ w.list[k].fd = f
               /\ \A j \in DOMAIN w.list : w.list[j].listed /\ w.list[j].fd = f => j <= k
<1> DEFINE at == {k \in DOMAIN w.list : w.list[k].listed /\ w.list[k].fd = f}
<1>1. Len(w.list) \in Nat /\ DOMAIN w.list = 1..Len(w.list)
  BY DEF ClosureWorld
<1>2. CASE at = {}
  BY <1>2 DEF M!asyncclosure_lookup
<1>3. CASE at # {}
  <2>1. at \subseteq 1..Len(w.list)
    BY <1>1
  <2>2. M!asyncclosure_lookup(w, f) = M!Max(at)
    BY <1>3 DEF M!asyncclosure_lookup
  <2>3. M!Max(at) \in at /\ \A j \in at : j <= M!Max(at)
    <3> HIDE DEF at
    <3> DEFINE Rest == {Len(w.list) - x : x \in at}
    <3>1. Rest \in SUBSET Nat /\ Rest # {}
      BY <1>1, <1>3, <2>1
    <3>2. PICK m \in Rest : \A y \in Rest : m <= y
      BY <3>1, LeastElement
    <3>3. PICK x \in at : m = Len(w.list) - x
      BY <3>2
    <3>4. \A y \in at : x >= y
      <4> TAKE y \in at
      <4>1. m <= Len(w.list) - y
        BY <3>2
      <4>2. x \in Nat /\ y \in Nat /\ Len(w.list) \in Nat
        BY <1>1, <2>1
      <4> HIDE DEF Rest
      <4> QED BY <3>3, <4>1, <4>2
    <3>5. M!Max(at) \in at /\ \A y \in at : M!Max(at) >= y
      BY <3>3, <3>4 DEF M!Max
    <3> QED BY <1>1, <2>1, <3>5
  <2> QED BY <2>2, <2>3
<1> QED BY <1>2, <1>3

-----------------------------------------------------------------------------
(***************************************************************************)
(* MySQLClient.                                                            *)
(***************************************************************************)
\* A closure that waits works for a connection that is open, with its descriptor, is
\* the connection's only one and the newest of the list with that descriptor.
Awaited(w, sk, rw) ==
  \A k \in DOMAIN w.list : Active(w, k) =>
    /\ w.list[k].fd = sk[w.list[k].who.conn] /\ w.list[k].listed
    /\ w.list[k].who.op = "next" => rw[w.list[k].who.conn] > 0
    /\ \A j \in DOMAIN w.list :
         /\ j > k => w.list[j].fd # w.list[k].fd
         /\ Active(w, j) /\ w.list[j].who.conn = w.list[k].who.conn => j = k

\* Open connections have descriptors, each its own.
Socks(st, sk) ==
  \A c \in Conn :
    /\ sk[c] # -1 <=> st[c] \in {"trying", "up"}
    /\ \A b \in Conn : sk[c] # -1 /\ sk[b] = sk[c] => b = c

MyTypes(st, sk, rw, ab) ==
  /\ st \in [Conn -> {"new", "trying", "up", "lost", "closed"}]
  /\ sk \in [Conn -> Fd \union {-1}] /\ rw \in [Conn -> 0..MaxRows + 1] /\ ab \in BOOLEAN

MyInv ==
  /\ Serves(M!World) /\ Awaited(M!World, sock, rows) /\ Socks(standing, sock)
  /\ MyTypes(standing, sock, rows, aborted) /\ Len(M!World.list) <= MaxOps

LEMMA MyNumbers == MaxOps \in Nat /\ MaxRows \in Nat /\ -1 \notin Fd
BY NetworkAssumption

LEMMA WorldIs == M!World.list = closures /\ M!World.io = io
BY DEF M!World

LEMMA MyReached ==
  ASSUME NEW v, Serves(v), M!Becomes(v), Awaited(v, sock', rows'), Socks(standing', sock'),
         MyTypes(standing', sock', rows', aborted'), Len(v.list) <= MaxOps
  PROVE  MyInv'
<1>1. v = [list |-> v.list, io |-> v.io]
  BY DEF Serves, ClosureWorld
<1>2. M!World' = v
  BY <1>1 DEF M!World, M!Becomes
<1> QED BY <1>2 DEF MyInv

\* Nothing changes but the connections.
LEMMA MyKept ==
  ASSUME MyInv, UNCHANGED <<closures, io>>, Awaited(M!World, sock', rows'), Socks(standing', sock'),
         MyTypes(standing', sock', rows', aborted')
  PROVE  MyInv'
<1>1. M!Becomes(M!World)
  BY DEF M!World, M!Becomes
<1>2. PICK w : w = M!World
  OBVIOUS
<1> QED BY <1>1, <1>2, MyReached DEF MyInv

\* What a closure that waits stands on.
LEMMA WaitingIs ==
  ASSUME NEW w, Serves(w), NEW k \in DOMAIN w.list
  PROVE  w.list[k].who.conn \in Conn /\ (Active(w, k) => w.list[k].fd \in Fd)
<1>1. w.list[k] \in M!ClosureType
  BY DEF Serves, ClosureWorld
<1> QED BY <1>1, ClosureIs DEF Serves, Alone

\* The handler that is called belongs to a closure that waits.
LEMMA CalledIs ==
  ASSUME MyInv, NEW k \in 1..Len(closures), M!Waits(k)
  PROVE  k \in DOMAIN M!World.list /\ Active(M!World, k) /\ M!World.list[k] = closures[k]
<1>1. k \in DOMAIN M!World.list /\ M!World.list[k] = closures[k]
  BY WorldIs DEF MyInv, Serves, ClosureWorld
<1>2. PICK f \in Fd, d \in M!Watches : io[f][d] = k
  BY DEF M!Waits
<1>3. closures[k].state = d
  BY <1>1, <1>2, WorldIs DEF MyInv, Serves, Wanted
<1>4. d # "none"
  BY DEF M!Watches
<1> QED BY <1>1, <1>3, <1>4 DEF Active

\* A closure of c may be made that wants "want" of f: sk and rw are what sock and rows
\* come to be.
MayMake(c, op, f, want, sk, rw) ==
  /\ ~M!Busy(c) /\ op \in {"connect", "query", "next"} /\ f \in Fd \union {-1} /\ want \in M!Wants
  /\ \A b \in Conn \ {c} : sk[b] = sock[b] /\ rw[b] = rows[b] /\ (f # -1 => sock[b] # f)
  /\ want # "none" => f \in Fd /\ f = sk[c] /\ (op = "next" => rw[c] > 0)

\* A new closure for a connection that has none waiting.
LEMMA CallStarted ==
  ASSUME MyInv, NEW c \in Conn, NEW op, NEW f, NEW want, NEW sk, NEW rw,
         MayMake(c, op, f, want, sk, rw),
         NEW v, v = M!asyncclosure_new(M!World, [conn |-> c, op |-> op], f, want)
  PROVE  /\ Serves(v) /\ Awaited(v, sk, rw) /\ Len(v.list) = Len(closures) + 1
         /\ Len(v.list) \in DOMAIN v.list
         /\ \A j \in DOMAIN v.list : Active(v, j) /\ v.list[j].who.conn = c => j = Len(v.list)
<1>0. /\ ~M!Busy(c) /\ op \in {"connect", "query", "next"} /\ f \in Fd \union {-1} /\ want \in M!Wants
      /\ \A b \in Conn \ {c} : sk[b] = sock[b] /\ rw[b] = rows[b] /\ (f # -1 => sock[b] # f)
      /\ want # "none" => f \in Fd /\ f = sk[c] /\ (op = "next" => rw[c] > 0)
  BY DEF MayMake
<1>w. PICK w : w = M!World
  OBVIOUS
<1>v. v = M!asyncclosure_new(w, [conn |-> c, op |-> op], f, want)
  BY <1>w
<1>1. Serves(w) /\ Awaited(w, sock, rows) /\ w.list = closures
  BY <1>w, WorldIs DEF MyInv
<1>2. \A j \in DOMAIN w.list : Active(w, j) => w.list[j].who.conn \in Conn \ {c} /\ w.list[j].fd \in Fd
  BY <1>0, <1>1, WaitingIs DEF M!Busy, Active
<1>3. \A j \in DOMAIN w.list : Active(w, j) => w.list[j].fd # f
  BY <1>0, <1>1, <1>2, MyNumbers DEF Awaited
<1>4. PICK n : n = Len(w.list) + 1
  OBVIOUS
<1>a. want # "none" => f \in Fd /\ \A j \in DOMAIN w.list : Active(w, j) => w.list[j].fd # f
  BY <1>0, <1>3
<1>o. PICK who \in [conn : Conn, op : {"connect", "query", "next"}] : who = [conn |-> c, op |-> op]
  BY <1>0
<1>n. who.conn = c /\ who.op = op /\ v = M!asyncclosure_new(w, who, f, want)
  BY <1>o, <1>v
<1>r. Serves(w)
  BY <1>1
<1>s. Adds(w, v, n, who, f, want)
  BY <1>0, <1>4, <1>a, <1>n, <1>r, ClosureMade
<1>5. /\ Serves(v) /\ Len(v.list) = n /\ DOMAIN v.list = DOMAIN w.list \union {n}
      /\ n \notin DOMAIN w.list /\ \A j \in DOMAIN w.list : j < n /\ v.list[j] = w.list[j]
      /\ v.list[n].who.conn = c /\ v.list[n].who.op = op /\ v.list[n].fd = f
      /\ v.list[n].state = want /\ v.list[n].listed = TRUE
  BY <1>n, <1>s DEF Adds
<1>7. \A j \in DOMAIN w.list : Active(v, j) <=> Active(w, j)
  BY <1>5 DEF Active
<1>8. \A j \in DOMAIN w.list : j \in Nat
  BY <1>1 DEF Serves, ClosureWorld
<1>9. Awaited(v, sk, rw)
  <2> SUFFICES ASSUME NEW k \in DOMAIN v.list, Active(v, k)
      PROVE /\ v.list[k].fd = sk[v.list[k].who.conn] /\ v.list[k].listed
            /\ v.list[k].who.op = "next" => rw[v.list[k].who.conn] > 0
            /\ \A j \in DOMAIN v.list :
                 /\ j > k => v.list[j].fd # v.list[k].fd
                 /\ Active(v, j) /\ v.list[j].who.conn = v.list[k].who.conn => j = k
    BY DEF Awaited
  <2>1. CASE k = n
    <3>1. want # "none"
      BY <1>5, <2>1 DEF Active
    <3>2. \A j \in DOMAIN w.list : ~(j > n)
      BY <1>1, <1>4, <1>5, <1>8
    <3>3. \A j \in DOMAIN w.list : Active(v, j) => v.list[j].who.conn # c
      BY <1>2, <1>5, <1>7
    <3>4. ~(n > n)
      BY <1>1, <1>4 DEF Serves, ClosureWorld
    <3> QED BY <1>0, <1>5, <2>1, <3>1, <3>2, <3>3, <3>4
  <2>2. CASE k \in DOMAIN w.list
    <3>1. Active(w, k) /\ v.list[k] = w.list[k] /\ w.list[k].who.conn \in Conn \ {c}
      BY <1>2, <1>5, <1>7, <2>2
    <3>2. /\ w.list[k].fd = sock[w.list[k].who.conn] /\ w.list[k].listed
          /\ w.list[k].who.op = "next" => rows[w.list[k].who.conn] > 0
          /\ \A j \in DOMAIN w.list :
               /\ j > k => w.list[j].fd # w.list[k].fd
               /\ Active(w, j) /\ w.list[j].who.conn = w.list[k].who.conn => j = k
      BY <1>1, <2>2, <3>1 DEF Awaited
    <3>3. w.list[k].fd # f
      BY <1>3, <2>2, <3>1
    <3>4. \A j \in DOMAIN w.list :
            /\ j > k => v.list[j].fd # v.list[k].fd
            /\ Active(v, j) /\ v.list[j].who.conn = v.list[k].who.conn => j = k
      BY <1>5, <1>7, <3>1, <3>2
    <3>5. /\ v.list[n].fd # v.list[k].fd
          /\ v.list[n].who.conn # v.list[k].who.conn
      BY <1>5, <3>1, <3>3
    <3> QED BY <1>0, <1>5, <3>1, <3>2, <3>4, <3>5
  <2> QED BY <1>5, <2>1, <2>2
<1>10. \A j \in DOMAIN v.list : Active(v, j) /\ v.list[j].who.conn = c => j = n
  BY <1>2, <1>5, <1>7
<1> QED BY <1>1, <1>4, <1>5, <1>9, <1>10, <1>v, <1>w

\* The connection's closure stops waiting, if one waits: the others go on waiting.
LEMMA CallEnded ==
  ASSUME NEW w, Serves(w), NEW v, NEW k, NEW c, NEW sk, NEW rw, NEW tk, NEW qw,
         Awaited(w, sk, rw), Ends(w, v, k),
         \A b \in Conn \ {c} : tk[b] = sk[b] /\ qw[b] = rw[b],
         \A j \in DOMAIN w.list : Active(w, j) /\ w.list[j].who.conn = c => j = k
  PROVE  Awaited(v, tk, qw)
<1>1. /\ DOMAIN v.list = DOMAIN w.list /\ \A j \in DOMAIN w.list \ {k} : v.list[j] = w.list[j]
      /\ v.list[k].state = "none" /\ v.list[k].fd = w.list[k].fd
  BY DEF Ends
<1> SUFFICES ASSUME NEW i \in DOMAIN w.list, Active(v, i)
    PROVE /\ v.list[i].fd = tk[v.list[i].who.conn] /\ v.list[i].listed
          /\ v.list[i].who.op = "next" => qw[v.list[i].who.conn] > 0
          /\ \A j \in DOMAIN w.list :
               /\ j > i => v.list[j].fd # v.list[i].fd
               /\ Active(v, j) /\ v.list[j].who.conn = v.list[i].who.conn => j = i
  BY <1>1 DEF Awaited
<1>2. i # k /\ v.list[i] = w.list[i] /\ Active(w, i)
  BY <1>1 DEF Active
<1>3. w.list[i].who.conn \in Conn \ {c}
  BY <1>2, WaitingIs
<1>4. /\ w.list[i].fd = sk[w.list[i].who.conn] /\ w.list[i].listed
      /\ w.list[i].who.op = "next" => rw[w.list[i].who.conn] > 0
      /\ \A j \in DOMAIN w.list :
           /\ j > i => w.list[j].fd # w.list[i].fd
           /\ Active(w, j) /\ w.list[j].who.conn = w.list[i].who.conn => j = i
  BY <1>2 DEF Awaited
<1> QED BY <1>1, <1>2, <1>3, <1>4 DEF Active

-----------------------------------------------------------------------------
\* What connect() comes to, with a descriptor or without.
Goes(c, f, want, s) ==
  /\ f # -1 => f \in M!Unused
  /\ (f = -1 <=> s = "lost") /\ (s = "lost" => want = "none")
  /\ standing' = [standing EXCEPT ![c] = s]
  /\ sock' = [sock EXCEPT ![c] = f] \/ (f = -1 /\ sock' = sock)
  /\ M!Starts(c, "connect", f, want)

LEMMA ConnectGoes ==
  ASSUME MyInv, NEW c \in Conn, M!js_mysql_connect(c), NEW f \in Fd \union {-1},
         NEW want \in M!Wants, NEW s \in {"trying", "up", "lost"}, Goes(c, f, want, s)
  PROVE  MyInv'
<1>n. MaxOps \in Nat /\ MaxRows \in Nat /\ -1 \notin Fd
  BY MyNumbers
<1>1. /\ ~M!Busy(c) /\ Len(closures) < MaxOps /\ standing[c] = "new" /\ rows' = rows /\ aborted' = aborted
      /\ Len(closures) \in Nat
  BY DEF M!js_mysql_connect, M!May, MyInv, Serves, ClosureWorld, M!World
<1>2. /\ MyTypes(standing, sock, rows, aborted) /\ Socks(standing, sock)
      /\ standing \in [Conn -> {"new", "trying", "up", "lost", "closed"}]
      /\ sock \in [Conn -> Fd \union {-1}] /\ rows[c] \in 0..MaxRows + 1 /\ aborted \in BOOLEAN
  BY DEF MyInv, MyTypes
<1>3. sock[c] = -1
  BY <1>1, <1>2 DEF Socks
<1>4. /\ standing' = [standing EXCEPT ![c] = s] /\ sock' = [sock EXCEPT ![c] = f]
      /\ f # -1 => f \in M!Unused
      /\ (f = -1 <=> s = "lost") /\ (s = "lost" => want = "none")
  BY <1>2, <1>3 DEF Goes
<1>5. \A b \in Conn \ {c} : sock'[b] = sock[b] /\ rows'[b] = rows[b] /\ (f # -1 => sock[b] # f)
  BY <1>1, <1>2, <1>4 DEF M!Unused
<1>6. want # "none" => f \in Fd /\ f = sock'[c] /\ ("connect" = "next" => rows'[c] > 0)
  BY <1>2, <1>4
<1>7. PICK v : v = M!asyncclosure_new(M!World, [conn |-> c, op |-> "connect"], f, want)
  OBVIOUS
<1>8. Serves(v) /\ Awaited(v, sock', rows') /\ Len(v.list) = Len(closures) + 1
  <2>1. MayMake(c, "connect", f, want, sock', rows')
    BY <1>1, <1>5, <1>6 DEF MayMake
  <2> QED BY <1>7, <2>1, CallStarted
<1>9. M!Becomes(v) /\ Len(v.list) <= MaxOps
  BY <1>1, <1>n, <1>7, <1>8 DEF M!Starts, Goes
<1>10. Socks(standing', sock')
  <2>1. sock'[c] = f /\ standing'[c] = s /\ \A b \in Conn \ {c} : sock'[b] = sock[b] /\ standing'[b] = standing[b]
    BY <1>2, <1>4
  <2>2. f # -1 <=> s \in {"trying", "up"}
    BY <1>4
  <2> QED BY <1>2, <1>5, <2>1, <2>2 DEF Socks
<1>11. MyTypes(standing', sock', rows', aborted')
  <2>1. /\ standing' \in [Conn -> {"new", "trying", "up", "lost", "closed"}]
        /\ sock' \in [Conn -> Fd \union {-1}]
    BY <1>2, <1>4
  <2> QED BY <1>1, <1>2, <2>1 DEF MyTypes
<1> QED BY <1>8, <1>9, <1>10, <1>11, MyReached

LEMMA StartConnect ==
  ASSUME MyInv, NEW c \in Conn, M!js_mysql_connect(c)
  PROVE  MyInv'
<1>n. -1 \notin Fd
  BY MyNumbers
<1>1. M!Unused \subseteq Fd /\ {"read", "write"} \subseteq M!Wants /\ "none" \in M!Wants
  BY DEF M!Unused, M!Wants
<1>2. CASE \E f \in M!Unused, want \in {"read", "write"} :
             /\ standing' = [standing EXCEPT ![c] = "trying"] /\ sock' = [sock EXCEPT ![c] = f]
             /\ M!Starts(c, "connect", f, want)
  <2>1. PICK f \in M!Unused, want \in {"read", "write"} :
             /\ standing' = [standing EXCEPT ![c] = "trying"] /\ sock' = [sock EXCEPT ![c] = f]
             /\ M!Starts(c, "connect", f, want)
    BY <1>2
  <2>2. f \in Fd \union {-1} /\ f # -1 /\ want \in M!Wants
    BY <1>1, <1>n
  <2>3. Goes(c, f, want, "trying")
    BY <2>1, <2>2 DEF Goes
  <2> QED BY <2>2, <2>3, ConnectGoes
<1>3. CASE \E f \in M!Unused :
             /\ standing' = [standing EXCEPT ![c] = "up"] /\ sock' = [sock EXCEPT ![c] = f]
             /\ M!Starts(c, "connect", f, "none")
  <2>1. PICK f \in M!Unused :
             /\ standing' = [standing EXCEPT ![c] = "up"] /\ sock' = [sock EXCEPT ![c] = f]
             /\ M!Starts(c, "connect", f, "none")
    BY <1>3
  <2>2. f \in Fd \union {-1} /\ f # -1
    BY <1>1, <1>n
  <2>3. Goes(c, f, "none", "up")
    BY <2>1, <2>2 DEF Goes
  <2> QED BY <1>1, <2>2, <2>3, ConnectGoes
<1>4. CASE /\ standing' = [standing EXCEPT ![c] = "lost"] /\ sock' = sock
           /\ M!Starts(c, "connect", -1, "none")
  <2>1. Goes(c, -1, "none", "lost")
    BY <1>4 DEF Goes
  <2> QED BY <1>1, <2>1, ConnectGoes
<1> QED BY <1>2, <1>3, <1>4 DEF M!js_mysql_connect

LEMMA StartQuery ==
  ASSUME MyInv, NEW c \in Conn, M!js_mysql_query(c)
  PROVE  MyInv'
<1>n. MaxOps \in Nat /\ MaxRows \in Nat /\ -1 \notin Fd
  BY MyNumbers
<1>1. /\ ~M!Busy(c) /\ Len(closures) < MaxOps /\ rows' = rows /\ aborted' = aborted
      /\ standing' = standing /\ sock' = sock /\ Len(closures) \in Nat
  BY DEF M!js_mysql_query, M!May, MyInv, Serves, ClosureWorld, M!World
<1>2. /\ MyTypes(standing, sock, rows, aborted) /\ Socks(standing, sock)
      /\ sock[c] \in Fd \union {-1}
  BY DEF MyInv, MyTypes
<1>3. PICK want \in M!Wants : (want # "none" => standing[c] = "up") /\ M!Starts(c, "query", sock[c], want)
  BY DEF M!js_mysql_query, M!Wants
<1>4. \A b \in Conn \ {c} : sock'[b] = sock[b] /\ rows'[b] = rows[b] /\ (sock[c] # -1 => sock[b] # sock[c])
  BY <1>1, <1>2 DEF Socks
<1>5. want # "none" => sock[c] \in Fd /\ sock[c] = sock'[c] /\ ("query" = "next" => rows'[c] > 0)
  BY <1>1, <1>2, <1>3 DEF Socks
<1>6. PICK v : v = M!asyncclosure_new(M!World, [conn |-> c, op |-> "query"], sock[c], want)
  OBVIOUS
<1>7. Serves(v) /\ Awaited(v, sock', rows') /\ Len(v.list) = Len(closures) + 1
  <2>1. MayMake(c, "query", sock[c], want, sock', rows')
    BY <1>1, <1>2, <1>4, <1>5 DEF MayMake
  <2> QED BY <1>6, <2>1, CallStarted
<1>8. M!Becomes(v) /\ Len(v.list) <= MaxOps
  BY <1>1, <1>3, <1>n, <1>6, <1>7 DEF M!Starts
<1> QED BY <1>1, <1>2, <1>7, <1>8, MyReached

LEMMA StartNext ==
  ASSUME MyInv, NEW c \in Conn, M!js_mysqlresult_next(c)
  PROVE  MyInv'
<1>n. MaxOps \in Nat /\ MaxRows \in Nat /\ -1 \notin Fd
  BY MyNumbers
<1>1. /\ ~M!Busy(c) /\ Len(closures) < MaxOps /\ rows[c] > 0 /\ aborted' = aborted
      /\ standing[c] = "up" /\ standing' = standing /\ sock' = sock /\ Len(closures) \in Nat
  BY DEF M!js_mysqlresult_next, M!May, MyInv, Serves, ClosureWorld, M!World
<1>2. /\ MyTypes(standing, sock, rows, aborted) /\ Socks(standing, sock)
      /\ sock[c] \in Fd /\ rows \in [Conn -> 0..MaxRows + 1] /\ aborted \in BOOLEAN
  BY <1>1, <1>n DEF MyInv, MyTypes, Socks
<1>3. \A b \in Conn \ {c} : sock'[b] = sock[b] /\ (sock[c] # -1 => sock[b] # sock[c])
  BY <1>1, <1>2 DEF Socks
<1>4. CASE \E want \in M!Watches : M!Starts(c, "next", sock[c], want) /\ rows' = rows
  <2>1. PICK want \in M!Wants : M!Starts(c, "next", sock[c], want)
    BY <1>4 DEF M!Wants, M!Watches
  <2>2. PICK v : v = M!asyncclosure_new(M!World, [conn |-> c, op |-> "next"], sock[c], want)
    OBVIOUS
  <2>3. /\ \A b \in Conn \ {c} : sock'[b] = sock[b] /\ rows'[b] = rows[b] /\ (sock[c] # -1 => sock[b] # sock[c])
        /\ want # "none" => sock[c] \in Fd /\ sock[c] = sock'[c] /\ ("next" = "next" => rows'[c] > 0)
    BY <1>1, <1>2, <1>3, <1>4
  <2>4. Serves(v) /\ Awaited(v, sock', rows') /\ Len(v.list) = Len(closures) + 1
    <3>1. MayMake(c, "next", sock[c], want, sock', rows')
      BY <1>1, <1>2, <2>3 DEF MayMake
    <3> QED BY <2>2, <3>1, CallStarted
  <2>5. M!Becomes(v) /\ Len(v.list) <= MaxOps
    BY <1>1, <1>n, <2>1, <2>2, <2>4 DEF M!Starts
  <2> QED BY <1>1, <1>2, <1>4, <2>4, <2>5, MyReached
<1>5. CASE /\ rows' = [rows EXCEPT ![c] = @ - 1]
           /\ LET w == M!asyncclosure_new(M!World, [conn |-> c, op |-> "next"], sock[c], "none")
              IN M!Becomes(M!asyncclosure_resolve(w, Len(w.list)))
  <2>1. PICK w : w = M!asyncclosure_new(M!World, [conn |-> c, op |-> "next"], sock[c], "none")
    OBVIOUS
  <2>2. PICK v : v = M!asyncclosure_resolve(w, Len(w.list))
    OBVIOUS
  <2>3. "none" \in M!Wants
    BY DEF M!Wants
  <2>4. /\ Serves(w) /\ Awaited(w, sock, rows) /\ Len(w.list) = Len(closures) + 1 /\ Len(w.list) \in DOMAIN w.list
        /\ \A j \in DOMAIN w.list : Active(w, j) /\ w.list[j].who.conn = c => j = Len(w.list)
    <3>1. MayMake(c, "next", sock[c], "none", sock, rows)
      BY <1>1, <1>2, <1>3, <2>3 DEF MayMake
    <3> QED BY <2>1, <3>1, CallStarted
  <2>5. Ends(w, v, Len(w.list))
    BY <2>2, <2>4, SettledEnds
  <2>6. \A b \in Conn \ {c} : sock'[b] = sock[b] /\ rows'[b] = rows[b]
    BY <1>2, <1>3, <1>5
  <2>7. Awaited(v, sock', rows')
    BY <2>4, <2>5, <2>6, CallEnded
  <2>8. Serves(v) /\ Len(v.list) <= MaxOps
    BY <1>1, <1>n, <2>4, <2>5 DEF Ends
  <2>9. M!Becomes(v)
    BY <1>5, <2>1, <2>2
  <2>10. rows[c] - 1 \in 0..MaxRows + 1
    BY <1>1, <1>2, <1>n
  <2>11. MyTypes(standing', sock', rows', aborted')
    <3>1. rows' \in [Conn -> 0..MaxRows + 1]
      BY <1>2, <1>5, <2>10
    <3> QED BY <1>1, <1>2, <3>1 DEF MyTypes
  <2> QED BY <1>1, <1>2, <2>7, <2>8, <2>9, <2>11, MyReached
<1> QED BY <1>4, <1>5 DEF M!js_mysqlresult_next

\* A closure that waits wants something else.
LEMMA WaitsMore ==
  ASSUME MyInv, NEW k \in 1..Len(closures), NEW want \in M!Watches, M!WaitMore(k, want)
  PROVE  MyInv'
<1>1. /\ M!Waits(k) /\ rows' = rows /\ sock' = sock /\ standing' = standing /\ aborted' = aborted
      /\ M!Becomes(M!asyncclosure_change_event(M!World, k, want))
  BY DEF M!WaitMore
<1>w. PICK w : w = M!World
  OBVIOUS
<1>v. PICK v : v = M!asyncclosure_change_event(w, k, want)
  OBVIOUS
<1>2. /\ Serves(w) /\ Awaited(w, sock, rows) /\ k \in DOMAIN w.list /\ Active(w, k)
      /\ w.list \in Seq(M!ClosureType) /\ w.list[k] \in M!ClosureType
  BY <1>1, <1>w, CalledIs DEF MyInv, Serves, ClosureWorld
<1>3. want \in M!Wants /\ want # "none"
  BY DEF M!Wants, M!Watches
<1>4. /\ w.list[k].fd \in Fd
      /\ \A j \in DOMAIN w.list : Active(w, j) /\ w.list[j].fd = w.list[k].fd => j = k
  BY <1>2 DEF Serves, Alone
<1>b. PICK b : b = [w.list[k] EXCEPT !.state = want]
  OBVIOUS
<1>5. Serves(v) /\ v.list = [w.list EXCEPT ![k] = b]
  <2>1. Serves(w)
    BY <1>2
  <2> QED BY <1>2, <1>3, <1>4, <1>b, <1>v, <2>1, ChangeEvent
<1>6. b.state = want /\ b.fd = w.list[k].fd /\ b.who = w.list[k].who /\ b.listed = w.list[k].listed
  BY <1>2, <1>3, <1>b, StateIs
<1>7. /\ DOMAIN v.list = DOMAIN w.list /\ Len(v.list) = Len(w.list)
      /\ \A j \in DOMAIN w.list : /\ v.list[j].fd = w.list[j].fd /\ v.list[j].who = w.list[j].who
                                  /\ v.list[j].listed = w.list[j].listed /\ (Active(v, j) <=> Active(w, j))
  BY <1>2, <1>3, <1>5, <1>6 DEF Active
<1>8. Awaited(v, sock, rows)
  <2> SUFFICES ASSUME NEW i \in DOMAIN w.list, Active(v, i)
      PROVE /\ v.list[i].fd = sock[v.list[i].who.conn] /\ v.list[i].listed
            /\ v.list[i].who.op = "next" => rows[v.list[i].who.conn] > 0
            /\ \A j \in DOMAIN w.list :
                 /\ j > i => v.list[j].fd # v.list[i].fd
                 /\ Active(v, j) /\ v.list[j].who.conn = v.list[i].who.conn => j = i
    BY <1>7 DEF Awaited
  <2>1. /\ w.list[i].fd = sock[w.list[i].who.conn] /\ w.list[i].listed
        /\ w.list[i].who.op = "next" => rows[w.list[i].who.conn] > 0
        /\ \A j \in DOMAIN w.list :
             /\ j > i => w.list[j].fd # w.list[i].fd
             /\ Active(w, j) /\ w.list[j].who.conn = w.list[i].who.conn => j = i
    BY <1>2, <1>7 DEF Awaited
  <2> QED BY <1>7, <2>1
<1>9. MyTypes(standing, sock, rows, aborted) /\ Socks(standing, sock) /\ Len(v.list) <= MaxOps
  BY <1>7, <1>w DEF MyInv
<1> QED BY <1>1, <1>5, <1>8, <1>9, <1>v, <1>w, MyReached

\* The handler of closure k is called and its operation is over.
LEMMA GoesOn ==
  ASSUME MyInv, NEW k \in 1..Len(closures), M!Waits(k), NEW c, c = closures[k].who.conn,
         NEW u, u = M!asyncclosure_change_event(M!World, k, "none"),
         NEW v, v \in {M!asyncclosure_resolve(u, k), M!asyncclosure_error(u, k)},
         M!Becomes(v), \A b \in Conn \ {c} : sock'[b] = sock[b] /\ rows'[b] = rows[b],
         Socks(standing', sock'), MyTypes(standing', sock', rows', aborted')
  PROVE  MyInv'
<1>w. PICK w : w = M!World
  OBVIOUS
<1>1. /\ Serves(w) /\ Awaited(w, sock, rows) /\ Len(w.list) <= MaxOps /\ w.list[k] = closures[k]
      /\ k \in DOMAIN w.list /\ Active(w, k)
  BY <1>w, CalledIs DEF MyInv
<1>2. Ends(w, u, k)
  <2>1. Serves(w) /\ k \in DOMAIN w.list
    BY <1>1
  <2> QED BY <1>w, <2>1, StopsWanting
<1>3. Serves(u) /\ k \in DOMAIN u.list
  BY <1>1, <1>2 DEF Ends
<1>4. Ends(u, v, k)
  BY <1>3, SettledEnds
<1>5. Ends(w, v, k)
  BY <1>2, <1>4, EndsAgain
<1>6. \A j \in DOMAIN w.list : Active(w, j) /\ w.list[j].who.conn = c => j = k
  BY <1>1 DEF Awaited
<1>7. Awaited(v, sock', rows')
  <2>1. Serves(w) /\ Awaited(w, sock, rows)
    BY <1>1
  <2> QED BY <1>5, <1>6, <2>1, CallEnded
<1>8. Serves(v) /\ Len(v.list) <= MaxOps
  BY <1>1, <1>5 DEF Ends
<1> QED BY <1>7, <1>8, MyReached

\* A connection's standing and descriptor change: the others keep theirs.
LEMMA SockReplaced ==
  ASSUME MyInv, NEW c \in Conn, NEW s \in {"new", "trying", "up", "lost", "closed"},
         standing' = [standing EXCEPT ![c] = s], s \notin {"trying", "up"},
         sock' = [sock EXCEPT ![c] = -1]
  PROVE  /\ Socks(standing', sock') /\ sock' \in [Conn -> Fd \union {-1}]
         /\ standing' \in [Conn -> {"new", "trying", "up", "lost", "closed"}]
         /\ \A b \in Conn \ {c} : sock'[b] = sock[b]
<1>1. /\ standing \in [Conn -> {"new", "trying", "up", "lost", "closed"}]
      /\ sock \in [Conn -> Fd \union {-1}] /\ Socks(standing, sock)
  BY DEF MyInv, MyTypes
<1>2. /\ standing'[c] = s /\ sock'[c] = -1
      /\ \A b \in Conn \ {c} : standing'[b] = standing[b] /\ sock'[b] = sock[b]
  BY <1>1
<1>3. Socks(standing', sock')
  BY <1>1, <1>2 DEF Socks
<1> QED BY <1>1, <1>2, <1>3

LEMMA ConnectGoesOn ==
  ASSUME MyInv, NEW k \in 1..Len(closures), M!js_mysql_connect_continue(k)
  PROVE  MyInv'
<1>c. PICK c : c = closures[k].who.conn
  OBVIOUS
<1>u. PICK u : u = M!asyncclosure_change_event(M!World, k, "none")
  OBVIOUS
<1>v. PICK v : v = M!asyncclosure_resolve(u, k)
  OBVIOUS
<1>1. /\ M!Waits(k) /\ M!Becomes(v) /\ rows' = rows /\ aborted' = aborted
      /\ \/ standing' = [standing EXCEPT ![c] = "up"] /\ sock' = sock
         \/ standing' = [standing EXCEPT ![c] = "lost"] /\ sock' = [sock EXCEPT ![c] = -1]
  BY <1>c, <1>u, <1>v DEF M!js_mysql_connect_continue
<1>2. /\ standing \in [Conn -> {"new", "trying", "up", "lost", "closed"}]
      /\ sock \in [Conn -> Fd \union {-1}] /\ MyTypes(standing, sock, rows, aborted) /\ Socks(standing, sock)
  BY DEF MyInv, MyTypes
<1>3. c \in Conn /\ sock[c] \in Fd
  <2>1. k \in DOMAIN M!World.list /\ Active(M!World, k) /\ M!World.list[k] = closures[k]
    BY <1>1, CalledIs
  <2> QED BY <1>c, <2>1, WaitingIs DEF MyInv, Awaited
<1>4. /\ Socks(standing', sock') /\ sock' \in [Conn -> Fd \union {-1}]
      /\ standing' \in [Conn -> {"new", "trying", "up", "lost", "closed"}]
      /\ \A b \in Conn \ {c} : sock'[b] = sock[b]
  <2>1. CASE standing' = [standing EXCEPT ![c] = "up"] /\ sock' = sock
    <3>1. standing'[c] = "up" /\ sock'[c] # -1 /\ \A b \in Conn \ {c} : standing'[b] = standing[b]
      BY <1>2, <1>3, <2>1, MyNumbers
    <3>2. Socks(standing', sock')
      BY <1>2, <2>1, <3>1 DEF Socks
    <3> QED BY <1>2, <2>1, <3>2
  <2>2. CASE standing' = [standing EXCEPT ![c] = "lost"] /\ sock' = [sock EXCEPT ![c] = -1]
    BY <1>3, <2>2, SockReplaced
  <2> QED BY <1>1, <2>1, <2>2
<1>5. MyTypes(standing', sock', rows', aborted')
  BY <1>1, <1>2, <1>4 DEF MyTypes
<1>6. \A b \in Conn \ {c} : sock'[b] = sock[b] /\ rows'[b] = rows[b]
  BY <1>1, <1>4
<1> QED BY <1>1, <1>4, <1>5, <1>6, <1>c, <1>u, <1>v, GoesOn

LEMMA QueryGoesOn ==
  ASSUME MyInv, NEW k \in 1..Len(closures), M!js_mysql_query_continue(k)
  PROVE  MyInv'
<1>c. PICK c : c = closures[k].who.conn
  OBVIOUS
<1>u. PICK u : u = M!asyncclosure_change_event(M!World, k, "none")
  OBVIOUS
<1>1. /\ M!Waits(k) /\ aborted' = aborted
      /\ \/ /\ \E n \in 0..MaxRows + 1 : rows' = [rows EXCEPT ![c] = n]
            /\ standing' = standing /\ sock' = sock
         \/ standing' = standing /\ sock' = sock /\ rows' = rows
         \/ standing' = [standing EXCEPT ![c] = "lost"] /\ sock' = [sock EXCEPT ![c] = -1] /\ rows' = rows
  BY <1>c DEF M!js_mysql_query_continue
<1>v. PICK v \in {M!asyncclosure_resolve(u, k), M!asyncclosure_error(u, k)} : M!Becomes(v)
  BY <1>u DEF M!js_mysql_query_continue
<1>2. /\ standing \in [Conn -> {"new", "trying", "up", "lost", "closed"}] /\ rows \in [Conn -> 0..MaxRows + 1]
      /\ sock \in [Conn -> Fd \union {-1}] /\ MyTypes(standing, sock, rows, aborted) /\ Socks(standing, sock)
  BY DEF MyInv, MyTypes
<1>3. c \in Conn
  <2>1. k \in DOMAIN M!World.list /\ M!World.list[k] = closures[k]
    BY <1>1, CalledIs
  <2> QED BY <1>c, <2>1, WaitingIs DEF MyInv
<1>4. rows' \in [Conn -> 0..MaxRows + 1] /\ \A b \in Conn \ {c} : rows'[b] = rows[b]
  BY <1>1, <1>2, <1>3
<1>5. /\ Socks(standing', sock') /\ sock' \in [Conn -> Fd \union {-1}]
      /\ standing' \in [Conn -> {"new", "trying", "up", "lost", "closed"}]
      /\ \A b \in Conn \ {c} : sock'[b] = sock[b]
  <2>1. CASE standing' = standing /\ sock' = sock
    BY <1>2, <2>1
  <2>2. CASE standing' = [standing EXCEPT ![c] = "lost"] /\ sock' = [sock EXCEPT ![c] = -1]
    BY <1>3, <2>2, SockReplaced
  <2> QED BY <1>1, <2>1, <2>2
<1>6. MyTypes(standing', sock', rows', aborted')
  BY <1>1, <1>2, <1>4, <1>5 DEF MyTypes
<1>7. \A b \in Conn \ {c} : sock'[b] = sock[b] /\ rows'[b] = rows[b]
  BY <1>4, <1>5
<1> QED BY <1>1, <1>5, <1>6, <1>7, <1>c, <1>u, <1>v, GoesOn

LEMMA NextGoesOn ==
  ASSUME MyInv, NEW k \in 1..Len(closures), M!js_mysqlresult_next_continue(k)
  PROVE  MyInv'
<1>c. PICK c : c = closures[k].who.conn
  OBVIOUS
<1>u. PICK u : u = M!asyncclosure_change_event(M!World, k, "none")
  OBVIOUS
<1>1. /\ M!Waits(k) /\ aborted' = aborted /\ standing' = standing /\ sock' = sock
      /\ rows' = [rows EXCEPT ![c] = rows[c] - 1] /\ closures[k].who.op = "next"
  BY <1>c DEF M!js_mysqlresult_next_continue
<1>v. PICK v \in {M!asyncclosure_resolve(u, k), M!asyncclosure_error(u, k)} : M!Becomes(v)
  BY <1>u DEF M!js_mysqlresult_next_continue
<1>2. /\ standing \in [Conn -> {"new", "trying", "up", "lost", "closed"}] /\ rows \in [Conn -> 0..MaxRows + 1]
      /\ sock \in [Conn -> Fd \union {-1}] /\ MyTypes(standing, sock, rows, aborted) /\ Socks(standing, sock)
  BY DEF MyInv, MyTypes
<1>3. c \in Conn /\ rows[c] > 0
  <2>1. k \in DOMAIN M!World.list /\ Active(M!World, k) /\ M!World.list[k] = closures[k]
    BY <1>1, CalledIs
  <2> QED BY <1>1, <1>c, <2>1, WaitingIs DEF MyInv, Awaited
<1>4. rows[c] - 1 \in 0..MaxRows + 1
  BY <1>2, <1>3, MyNumbers
<1>5. rows' \in [Conn -> 0..MaxRows + 1] /\ \A b \in Conn \ {c} : rows'[b] = rows[b]
  BY <1>1, <1>2, <1>3, <1>4
<1>6. Socks(standing', sock') /\ MyTypes(standing', sock', rows', aborted')
  BY <1>1, <1>2, <1>5 DEF MyTypes
<1>7. \A b \in Conn \ {c} : sock'[b] = sock[b] /\ rows'[b] = rows[b]
  BY <1>1, <1>5
<1>8. M!Waits(k)
  BY <1>1
<1> QED BY <1>6, <1>7, <1>8, <1>c, <1>u, <1>v, GoesOn

\* close() and the finalizer: what they do to the connection.
LEMMA ClosesKeeps ==
  ASSUME MyInv, NEW c \in Conn, M!Closes(c), aborted' = aborted
  PROVE  /\ Socks(standing', sock') /\ MyTypes(standing', sock', rows', aborted')
         /\ \A b \in Conn \ {c} : sock'[b] = sock[b] /\ rows'[b] = rows[b]
<1>1. /\ standing' = [standing EXCEPT ![c] = "closed"] /\ sock' = [sock EXCEPT ![c] = -1]
      /\ rows' = [rows EXCEPT ![c] = 0]
  BY DEF M!Closes
<1>2. /\ rows \in [Conn -> 0..MaxRows + 1] /\ 0 \in 0..MaxRows + 1 /\ aborted \in BOOLEAN
  BY MyNumbers DEF MyInv, MyTypes
<1>3. rows' \in [Conn -> 0..MaxRows + 1] /\ \A b \in Conn \ {c} : rows'[b] = rows[b]
  BY <1>1, <1>2
<1>4. /\ Socks(standing', sock') /\ sock' \in [Conn -> Fd \union {-1}]
      /\ standing' \in [Conn -> {"new", "trying", "up", "lost", "closed"}]
      /\ \A b \in Conn \ {c} : sock'[b] = sock[b]
  BY <1>1, SockReplaced
<1> QED BY <1>2, <1>3, <1>4 DEF MyTypes

LEMMA CloseKeeps ==
  ASSUME MyInv, NEW c \in Conn, M!js_mysql_close(c)
  PROVE  MyInv'
<1>k. PICK k : k = IF sock[c] = -1 THEN 0 ELSE M!asyncclosure_lookup(M!World, sock[c])
  OBVIOUS
<1>w. PICK w : w = M!World
  OBVIOUS
<1>1. /\ Serves(w) /\ Awaited(w, sock, rows) /\ Len(w.list) <= MaxOps /\ w \in ClosureWorld
      /\ DOMAIN w.list = 1..Len(w.list)
  BY <1>w DEF MyInv, Serves, ClosureWorld
<1>2. \A j \in DOMAIN w.list : Active(w, j) /\ w.list[j].who.conn = c =>
        /\ w.list[j].fd = sock[c] /\ sock[c] \in Fd /\ w.list[j].listed
        /\ \A i \in DOMAIN w.list : i > j => w.list[i].fd # sock[c]
  BY <1>1, WaitingIs DEF Awaited
<1>3. /\ k = 0 => \A j \in DOMAIN w.list : ~(Active(w, j) /\ w.list[j].who.conn = c)
      /\ k # 0 => k \in DOMAIN w.list /\ \A j \in DOMAIN w.list : Active(w, j) /\ w.list[j].who.conn = c => j = k
  <2>1. CASE sock[c] = -1
    BY <1>2, <1>k, <2>1, MyNumbers
  <2>2. CASE sock[c] # -1
    <3>1. k = M!asyncclosure_lookup(w, sock[c])
      BY <1>k, <1>w, <2>2
    <3>2. \/ k = 0 /\ \A j \in DOMAIN w.list : ~(w.list[j].listed /\ w.list[j].fd = sock[c])
          \/ /\ k \in DOMAIN w.list /\ w.list[k].listed /\ w.list[k].fd = sock[c]
             /\ \A j \in DOMAIN w.list : w.list[j].listed /\ w.list[j].fd = sock[c] => j <= k
      BY <1>1, <3>1, LookupIs
    <3>3. 0 \notin DOMAIN w.list /\ \A j \in DOMAIN w.list : j \in Int
      BY <1>1
    <3> QED BY <1>2, <3>2, <3>3
  <2> QED BY <2>1, <2>2
<1>4. CASE k = 0
  <2>1. M!Closes(c) /\ UNCHANGED <<closures, io>> /\ aborted' = aborted
    BY <1>4, <1>k DEF M!js_mysql_close
  <2>2. /\ Socks(standing', sock') /\ MyTypes(standing', sock', rows', aborted')
        /\ \A b \in Conn \ {c} : sock'[b] = sock[b] /\ rows'[b] = rows[b]
    BY <2>1, ClosesKeeps
  <2>3. \A j \in DOMAIN w.list : Active(w, j) => w.list[j].who.conn \in Conn \ {c}
    BY <1>1, <1>3, <1>4, WaitingIs
  <2>4. Awaited(w, sock', rows')
    BY <1>1, <2>2, <2>3 DEF Awaited
  <2> QED BY <1>w, <2>1, <2>2, <2>4, MyKept
<1>5. CASE k # 0 /\ M!Closes(c) /\ M!Becomes(M!asyncclosure_done(M!World, k)) /\ aborted' = aborted
  <2>1. PICK v : v = M!asyncclosure_done(w, k)
    OBVIOUS
  <2>2. /\ Socks(standing', sock') /\ MyTypes(standing', sock', rows', aborted')
        /\ \A b \in Conn \ {c} : sock'[b] = sock[b] /\ rows'[b] = rows[b]
    BY <1>5, ClosesKeeps
  <2>3. Serves(w) /\ k \in DOMAIN w.list
    BY <1>1, <1>3, <1>5
  <2>4. Ends(w, v, k)
    BY <2>1, <2>3, DoneEnds
  <2>5. \A j \in DOMAIN w.list : Active(w, j) /\ w.list[j].who.conn = c => j = k
    BY <1>3, <1>5
  <2>6. Awaited(v, sock', rows')
    <3>1. Awaited(w, sock, rows)
      BY <1>1
    <3> QED BY <2>2, <2>3, <2>4, <2>5, <3>1, CallEnded
  <2>7. Serves(v) /\ Len(v.list) <= MaxOps /\ M!Becomes(v)
    BY <1>1, <1>5, <1>w, <2>1, <2>4 DEF Ends
  <2> QED BY <2>2, <2>6, <2>7, MyReached
<1>6. CASE aborted' = TRUE /\ UNCHANGED <<closures, io, standing, sock, rows>>
  <2>1. Socks(standing, sock) /\ MyTypes(standing, sock, rows, TRUE)
    BY DEF MyInv, MyTypes
  <2> QED BY <1>1, <1>6, <1>w, <2>1, MyKept
<1> QED BY <1>4, <1>5, <1>6, <1>k DEF M!js_mysql_close

LEMMA FinalizerKeeps ==
  ASSUME MyInv, NEW c \in Conn, M!js_mysql_finalizer(c)
  PROVE  MyInv'
<1>w. PICK w : w = M!World
  OBVIOUS
<1>1. Serves(w) /\ Awaited(w, sock, rows) /\ w.list = closures
  BY <1>w, WorldIs DEF MyInv
<1>2. M!Closes(c) /\ UNCHANGED <<closures, io>> /\ aborted' = aborted /\ ~M!Busy(c)
  BY DEF M!js_mysql_finalizer
<1>3. /\ Socks(standing', sock') /\ MyTypes(standing', sock', rows', aborted')
      /\ \A b \in Conn \ {c} : sock'[b] = sock[b] /\ rows'[b] = rows[b]
  BY <1>2, ClosesKeeps
<1>4. \A j \in DOMAIN w.list : Active(w, j) => w.list[j].who.conn \in Conn \ {c}
  BY <1>1, <1>2, WaitingIs DEF M!Busy, Active
<1>5. Awaited(w, sock', rows')
  BY <1>1, <1>3, <1>4 DEF Awaited
<1> QED BY <1>2, <1>3, <1>5, <1>w, MyKept

-----------------------------------------------------------------------------
LEMMA MyStart ==
  ASSUME M!MyInit
  PROVE  MyInv
<1>1. /\ closures = <<>> /\ io = [f \in Fd |-> [d \in M!Watches |-> 0]]
      /\ standing = [c \in Conn |-> "new"] /\ sock = [c \in Conn |-> -1]
      /\ rows = [c \in Conn |-> 0] /\ aborted = FALSE
  BY DEF M!MyInit
<1>w. PICK w : w = M!World
  OBVIOUS
<1>2. w.list = <<>> /\ DOMAIN w.list = {} /\ Len(w.list) = 0 /\ w.io = io
  BY <1>1, <1>w, WorldIs
<1>3. w \in ClosureWorld
  <2>1. closures \in Seq(M!ClosureType) /\ io \in [Fd -> [M!Watches -> Nat]]
    BY <1>1
  <2>2. w = [list |-> closures, io |-> io]
    BY <1>w DEF M!World
  <2> QED BY <2>1, <2>2 DEF ClosureWorld
<1>4. Wanted(w) /\ Alone(w) /\ Awaited(w, sock, rows)
  BY <1>2 DEF Wanted, Alone, Awaited
<1>5. Handlers(w)
  BY <1>1, <1>2 DEF Handlers
<1>6. Socks(standing, sock)
  BY <1>1 DEF Socks
<1>7. MyTypes(standing, sock, rows, aborted)
  <2>1. 0 \in 0..MaxRows + 1 /\ FALSE \in BOOLEAN
    BY MyNumbers
  <2>2. /\ rows \in [Conn -> 0..MaxRows + 1] /\ sock \in [Conn -> Fd \union {-1}]
        /\ standing \in [Conn -> {"new", "trying", "up", "lost", "closed"}]
    BY <1>1, <2>1
  <2> QED BY <1>1, <2>2 DEF MyTypes
<1>8. Len(w.list) <= MaxOps
  BY <1>2, MyNumbers
<1> QED BY <1>3, <1>4, <1>5, <1>6, <1>7, <1>8, <1>w DEF MyInv, Serves

LEMMA MyStep ==
  ASSUME MyInv, [M!MyNext]_myVars
  PROVE  MyInv'
<1>1. ASSUME NEW c \in Conn, \/ M!js_mysql_connect(c) \/ M!js_mysql_query(c) \/ M!js_mysqlresult_next(c)
                             \/ M!js_mysql_close(c) \/ M!js_mysql_finalizer(c)
      PROVE  MyInv'
  BY <1>1, StartConnect, StartQuery, StartNext, CloseKeeps, FinalizerKeeps
<1>2. ASSUME NEW k \in 1..Len(closures), NEW want \in M!Watches, M!WaitMore(k, want)
      PROVE  MyInv'
  BY <1>2, WaitsMore
<1>3. ASSUME NEW k \in 1..Len(closures), \/ M!js_mysql_connect_continue(k) \/ M!js_mysql_query_continue(k)
                                         \/ M!js_mysqlresult_next_continue(k)
      PROVE  MyInv'
  BY <1>3, ConnectGoesOn, QueryGoesOn, NextGoesOn
<1>4. CASE UNCHANGED myVars
  <2>1. UNCHANGED <<closures, io>> /\ standing' = standing /\ sock' = sock /\ rows' = rows /\ aborted' = aborted
    BY <1>4 DEF myVars
  <2> QED BY <2>1, MyKept DEF MyInv
<1> QED BY <1>1, <1>2, <1>3, <1>4 DEF M!MyNext

\* What the invariant says of the types, the handlers and closed connections.
LEMMA MyMeans ==
  ASSUME MyInv
  PROVE  M!MyTypeOK /\ M!HandlersAsWanted /\ M!NothingGoesOnAfterClose
<1>w. PICK w : w = M!World
  OBVIOUS
<1>1. /\ Serves(w) /\ Awaited(w, sock, rows) /\ w.list = closures /\ w.io = io /\ Len(closures) <= MaxOps
      /\ w \in ClosureWorld /\ Wanted(w) /\ Alone(w) /\ Handlers(w) /\ Len(closures) \in Nat
      /\ DOMAIN w.list = 1..Len(closures)
  BY <1>w, WorldIs DEF MyInv, Serves, ClosureWorld
<1>2. M!HandlersAsWanted
  BY <1>1 DEF M!HandlersAsWanted, Wanted
<1>3. M!MyTypeOK
  <2>1. closures \in Seq(M!ClosureType) /\ io \in [Fd -> [M!Watches -> Nat]]
    BY <1>1 DEF ClosureWorld
  <2>2. io \in [Fd -> [M!Watches -> 0..Len(closures)]]
    BY <1>1, <2>1 DEF Handlers
  <2> QED BY <1>1, <2>1, <2>2 DEF MyInv, MyTypes, M!MyTypeOK
<1>4. M!NothingGoesOnAfterClose
  <2> SUFFICES ASSUME NEW f \in Fd, NEW d \in M!Watches, io[f][d] # 0
      PROVE  standing[closures[io[f][d]].who.conn] # "closed" /\ sock[closures[io[f][d]].who.conn] = f
    BY DEF M!NothingGoesOnAfterClose
  <2>1. PICK k : k = io[f][d]
    OBVIOUS
  <2>2. k \in DOMAIN w.list
    BY <1>1, <2>1 DEF Handlers
  <2>3. w.list[k].fd = f /\ w.list[k].state = d
    BY <1>1, <2>1, <2>2 DEF Wanted
  <2>4. Active(w, k)
    BY <2>3 DEF Active, M!Watches
  <2>5. sock[w.list[k].who.conn] = f /\ w.list[k].who.conn \in Conn
    BY <1>1, <2>2, <2>3, <2>4, WaitingIs DEF Awaited
  <2>6. standing[w.list[k].who.conn] \in {"trying", "up"}
    BY <2>5, MyNumbers DEF MyInv, Socks
  <2> QED BY <1>1, <2>1, <2>5, <2>6
<1> QED BY <1>2, <1>3, <1>4

-----------------------------------------------------------------------------
(***************************************************************************)
(* EventEmitter: handlers are called in the order of their registrations,  *)
(* which the array of an emit() keeps while it grows and shrinks.          *)
(***************************************************************************)
\* The registrations of an array are in their order, and no two arrays share one.
HandlerType == [id : Nat, fn : HandlerFns, once : BOOLEAN]
EmitType ==
  [array : Nat, next : Nat, inside : BOOLEAN, called : Seq(Nat), removed : Nat, start : SUBSET Nat]

Sorted(s, n) ==
  /\ \A i \in 1..Len(s) : s[i].id \in 1..n
  /\ \A i \in 1..Len(s) : \A j \in 1..Len(s) : i < j => s[i].id < s[j].id
Apart(a) ==
  \A x \in 1..Len(a) : \A y \in 1..Len(a) :
    \A i \in 1..Len(a[x]) : \A j \in 1..Len(a[y]) : a[x][i].id = a[y][j].id => x = y

\* What an emit() in the array s went by without a call, and what it has still to call.
Passed(s, m) == {s[j].id : j \in {i \in 1..Len(s) : i < m}}
Missed(e, s) == (Passed(s, e.next) \intersect e.start) \ Elements(e.called)
Heeds(e, s, n) ==
  /\ e.next >= 1 /\ e.start \subseteq 1..n /\ Elements(e.called) \subseteq 1..n
  /\ \A j \in 1..Len(e.called) : \A k \in 1..Len(e.called) : j < k => e.called[j] < e.called[k]
  /\ \A k \in 1..Len(e.called) : \A i \in 1..Len(s) : i >= e.next => e.called[k] < s[i].id
  /\ Cardinality(Missed(e, s)) <= e.removed

\* Registrations up to n, arrays a of which c is in use, and running emits em.
EmSound(a, c, em, n) ==
  /\ n \in Nat /\ a \in Seq(Seq(HandlerType)) /\ c \in 0..Len(a) /\ em \in Seq(EmitType)
  /\ \A x \in 1..Len(a) : Sorted(a[x], n)
  /\ Apart(a)
  /\ \A k \in 1..Len(em) : em[k].array \in 1..Len(a) /\ Heeds(em[k], a[em[k].array], n)

\* Without removeAllListeners() in an emit(), every emit() that has something to call goes
\* through the array in use, and no handler of once() was called that is still there.
AtWork(a, c, em) == \A k \in 1..Len(em) : em[k].array = c \/ a[em[k].array] = <<>>
Unfired(a, f) == \A x \in 1..Len(a) : \A i \in 1..Len(a[x]) : a[x][i].once => f[a[x][i].id] = 0

EmInv ==
  /\ fired \in Seq(Nat) /\ parted \in BOOLEAN
  /\ EmSound(arrays, current, emits, Len(fired))
  /\ parted \/ (AtWork(arrays, current, emits) /\ Unfired(arrays, fired))

-----------------------------------------------------------------------------
\* Images of intervals, and a set that grows by few.
LEMMA ImageSmall ==
  ASSUME NEW a \in Int, NEW n \in Nat, NEW f
  PROVE  IsFiniteSet({f[j] : j \in a..(a + n - 1)}) /\ Cardinality({f[j] : j \in a..(a + n - 1)}) <= n
<1> DEFINE I == a..(a + n - 1)
<1> DEFINE S == {f[j] : j \in I}
<1> DEFINE h == [j \in I |-> f[j]]
<1>1. IsFiniteSet(I) /\ Cardinality(I) = n
  <2>1. a + n - 1 \in Int /\ (a > a + n - 1 <=> n = 0) /\ (a + n - 1) - a + 1 = n
    OBVIOUS
  <2> QED BY <2>1, FS_Interval
<1>2. h \in Surjection(I, S)
  BY DEF Surjection
<1>3. IsFiniteSet(S) /\ Cardinality(S) <= Cardinality(I)
  BY <1>1, <1>2, FS_Surjection
<1> QED BY <1>1, <1>3

LEMMA SmallUnion ==
  ASSUME NEW A, NEW B, NEW C, IsFiniteSet(A), IsFiniteSet(B), C \subseteq A \union B
  PROVE  IsFiniteSet(C) /\ Cardinality(C) <= Cardinality(A) + Cardinality(B)
<1>1. IsFiniteSet(A \union B) /\ Cardinality(A \union B) = Cardinality(A) + Cardinality(B) - Cardinality(A \intersect B)
  BY FS_Union
<1>2. IsFiniteSet(A \intersect B)
  BY FS_Intersection
<1>3. Cardinality(A) \in Nat /\ Cardinality(B) \in Nat /\ Cardinality(A \intersect B) \in Nat
      /\ Cardinality(A \union B) \in Nat
  BY <1>1, <1>2, FS_CardinalityType
<1>4. IsFiniteSet(C) /\ Cardinality(C) <= Cardinality(A \union B) /\ Cardinality(C) \in Nat
  BY <1>1, FS_Subset, FS_CardinalityType
<1> QED BY <1>1, <1>3, <1>4

\* What an emit() missed is finite: it was there at its start.
LEMMA MissedFinite ==
  ASSUME NEW e, NEW s, NEW n \in Nat, Heeds(e, s, n)
  PROVE  IsFiniteSet(Missed(e, s)) /\ Cardinality(Missed(e, s)) \in Nat
<1>1. IsFiniteSet(1..n)
  BY FS_Interval
<1>2. Missed(e, s) \subseteq 1..n
  BY DEF Heeds, Missed
<1> QED BY <1>1, <1>2, FS_Subset, FS_CardinalityType

\* Elements of arrays.
LEMMA HandlerAt ==
  ASSUME NEW s \in Seq(HandlerType), NEW i \in 1..Len(s)
  PROVE  s[i] \in HandlerType /\ s[i].id \in Nat
<1>1. s[i] \in HandlerType
  OBVIOUS
<1> QED BY <1>1 DEF HandlerType

\* Taking handlers out of the array of an emit() shifts those behind them: for each that
\* goes one that stays may be passed.
LEMMA RemovalHeeded ==
  ASSUME NEW n \in Nat, NEW s \in Seq(HandlerType), Sorted(s, n), NEW S,
         NEW kept, kept = Remaining(s, S),
         NEW e \in EmitType, Heeds(e, s, n),
         NEW d, d = [e EXCEPT !.removed = @ + (Len(s) - Len(kept))]
  PROVE  d \in EmitType /\ Heeds(d, kept, n)
<1>1. kept \in Seq(HandlerType) /\ \E g : Traces(s, S, kept, Len(s), g)
  BY RemainingProperties
<1>2. PICK g : Traces(s, S, kept, Len(s), g)
  BY <1>1
<1>3. PICK l \in Nat : l = Len(kept)
  BY <1>1
<1>4. PICK m \in Nat : m = Len(s)
  OBVIOUS
<1>g. /\ l <= m /\ g \in [1..l -> 1..m]
      /\ \A i \in 1..l : i <= g[i] /\ g[i] <= i + (m - l) /\ kept[i] = s[g[i]]
      /\ \A i \in 1..l : \A j \in 1..l : i < j => g[i] < g[j]
  BY <1>2, <1>3, <1>4 DEF Traces
<1>5. e.next \in Nat /\ e.removed \in Nat /\ e.array \in Nat /\ e.called \in Seq(Nat) /\ e.start \in SUBSET Nat
      /\ e.inside \in BOOLEAN
  BY DEF EmitType
<1>6. m - l \in Nat
  BY <1>g
<1>7. /\ d.next = e.next /\ d.called = e.called /\ d.start = e.start /\ d.removed = e.removed + (m - l)
      /\ d \in EmitType
  <2>1. d = [e EXCEPT !.removed = e.removed + (m - l)]
    BY <1>3, <1>4
  <2>2. PICK r \in Nat : r = e.removed + (m - l)
    BY <1>5, <1>6
  <2>3. d = [e EXCEPT !.removed = r]
    BY <2>1, <2>2
  <2> QED BY <2>2, <2>3 DEF EmitType
<1>8. ASSUME NEW k \in 1..Len(e.called), NEW i \in 1..l, i >= e.next PROVE e.called[k] < kept[i].id
  <2>1. g[i] \in 1..m /\ g[i] >= i /\ kept[i] = s[g[i]]
    BY <1>g
  <2>2. g[i] >= e.next
    BY <2>1, <1>8, <1>5
  <2> QED BY <2>1, <2>2, <1>4 DEF Heeds
<1> DEFINE ids == [j \in 1..l |-> kept[j].id]
<1> DEFINE lo == e.next - (m - l)
<1> DEFINE J == lo..(lo + (m - l) - 1)
<1> DEFINE Y == {ids[j] : j \in J}
<1>9. Passed(kept, e.next) \subseteq Passed(s, e.next) \union Y
  <2>0. SUFFICES ASSUME NEW x \in Passed(kept, e.next) PROVE x \in Passed(s, e.next) \union Y
    OBVIOUS
  <2>1. PICK j \in 1..l : j < e.next /\ x = kept[j].id
    BY <1>3 DEF Passed
  <2>2. g[j] \in 1..m /\ g[j] <= j + (m - l) /\ kept[j] = s[g[j]]
    BY <1>g
  <2>3. CASE g[j] < e.next
    <3>1. g[j] \in {i \in 1..Len(s) : i < e.next}
      BY <2>2, <2>3, <1>4
    <3>2. x = s[g[j]].id
      BY <2>1, <2>2
    <3> QED BY <3>1, <3>2 DEF Passed
  <2>4. CASE ~(g[j] < e.next)
    <3>1. j >= lo /\ j <= lo + (m - l) - 1
      <4>1. PICK b \in Nat : b = g[j]
        BY <2>2
      <4>2. PICK o \in Nat : o = m - l
        BY <1>6
      <4>3. e.next <= b /\ b <= j + o /\ j \in Nat /\ j < e.next
        <5>1. b <= j + o /\ ~(b < e.next)
          BY <2>2, <2>4, <4>1, <4>2
        <5> QED BY <2>1, <5>1, <1>5
      <4>4. PICK q \in Nat : q = e.next
        BY <1>5
      <4>5. lo = q - o /\ lo + (m - l) - 1 = (q - o) + o - 1
        BY <4>2, <4>4
      <4>6. j >= q - o /\ j <= (q - o) + o - 1
        BY <4>3, <4>4
      <4> HIDE DEF lo
      <4> QED BY <4>5, <4>6
    <3>2. j \in J
      BY <3>1, <1>5, <1>6
    <3>3. ids[j] = kept[j].id
      OBVIOUS
    <3> HIDE DEF ids, J
    <3> QED BY <3>2, <3>3, <2>1
  <2> QED BY <2>3, <2>4
<1>10. IsFiniteSet(Y) /\ Cardinality(Y) <= m - l /\ Cardinality(Y) \in Nat
  <2>1. lo \in Int
    BY <1>5, <1>6
  <2> HIDE DEF ids, lo
  <2>2. IsFiniteSet(Y) /\ Cardinality(Y) <= m - l
    BY <2>1, <1>6, ImageSmall
  <2> QED BY <2>2, FS_CardinalityType
<1>11. Missed(d, kept) \subseteq Missed(e, s) \union Y
  <2> HIDE DEF Y
  <2> QED BY <1>7, <1>9 DEF Missed
<1>12. Cardinality(Missed(d, kept)) <= d.removed
  <2> HIDE DEF Y
  <2>1. IsFiniteSet(Missed(e, s)) /\ Cardinality(Missed(e, s)) \in Nat
    BY MissedFinite
  <2>2. IsFiniteSet(Missed(d, kept)) /\ Cardinality(Missed(d, kept)) <= Cardinality(Missed(e, s)) + Cardinality(Y)
    BY <2>1, <1>10, <1>11, SmallUnion
  <2>3. Cardinality(Missed(e, s)) <= e.removed /\ Cardinality(Missed(d, kept)) \in Nat
    BY <2>2, FS_CardinalityType DEF Heeds
  <2> QED BY <2>1, <2>2, <2>3, <1>5, <1>6, <1>7, <1>10
<1>13. Heeds(d, kept, n)
  <2>1. /\ d.next >= 1 /\ d.start \subseteq 1..n /\ Elements(d.called) \subseteq 1..n
        /\ \A j \in 1..Len(d.called) : \A k \in 1..Len(d.called) : j < k => d.called[j] < d.called[k]
    BY <1>7 DEF Heeds
  <2>2. \A k \in 1..Len(d.called) : \A i \in 1..Len(kept) : i >= d.next => d.called[k] < kept[i].id
    BY <1>7, <1>8, <1>3
  <2> QED BY <2>1, <2>2, <1>12 DEF Heeds
<1> QED BY <1>7, <1>13

\* ... and leaves the array in order.
LEMMA RemovalSorted ==
  ASSUME NEW n \in Nat, NEW s \in Seq(HandlerType), Sorted(s, n), NEW S
  PROVE  /\ Remaining(s, S) \in Seq(HandlerType) /\ Sorted(Remaining(s, S), n)
         /\ \A i \in 1..Len(Remaining(s, S)) :
              \E j \in 1..Len(s) : Remaining(s, S)[i] = s[j] /\ s[j] \notin S
<1>1. PICK kept \in Seq(HandlerType) : kept = Remaining(s, S)
  BY RemainingProperties
<1>2. PICK g : Traces(s, S, kept, Len(s), g)
  BY <1>1, RemainingProperties
<1>3. /\ g \in [1..Len(kept) -> 1..Len(s)]
      /\ \A i \in 1..Len(kept) : kept[i] = s[g[i]] /\ s[g[i]] \notin S
      /\ \A i \in 1..Len(kept) : \A j \in 1..Len(kept) : i < j => g[i] < g[j]
  BY <1>2 DEF Traces
<1>4. \A i \in 1..Len(kept) : g[i] \in 1..Len(s)
  BY <1>3
<1>5. Sorted(kept, n)
  BY <1>3, <1>4 DEF Sorted
<1> QED BY <1>1, <1>3, <1>4, <1>5

\* A new registration goes behind all others.
LEMMA AppendHeeded ==
  ASSUME NEW n \in Nat, NEW s \in Seq(HandlerType), Sorted(s, n),
         NEW h \in HandlerType, h.id = n + 1
  PROVE  /\ Append(s, h) \in Seq(HandlerType) /\ Sorted(Append(s, h), n + 1)
         /\ \A e \in EmitType : Heeds(e, s, n) => Heeds(e, Append(s, h), n + 1)
<1>1. PICK z \in Seq(HandlerType) : z = Append(s, h)
  <2>1. Append(s, h) \in Seq(HandlerType)
    OBVIOUS
  <2> QED BY <2>1
<1>2. PICK l \in Nat : l = Len(s)
  OBVIOUS
<1>3. Len(z) = l + 1 /\ z[l + 1] = h /\ \A i \in 1..l : z[i] = s[i]
  BY <1>1, <1>2
<1>4. \A i \in 1..(l + 1) : i = l + 1 \/ i \in 1..l
  BY <1>2
<1>5. Sorted(z, n + 1)
  <2>1. ASSUME NEW i \in 1..(l + 1) PROVE z[i].id \in 1..(n + 1)
    <3>1. CASE i = l + 1
      BY <3>1, <1>3
    <3>2. CASE i # l + 1
      <4>1. i \in 1..l /\ z[i] = s[i]
        BY <3>2, <1>3, <1>4
      <4>2. s[i].id \in 1..n
        BY <4>1, <1>2 DEF Sorted
      <4> QED BY <4>1, <4>2
    <3> QED BY <3>1, <3>2
  <2>2. ASSUME NEW i \in 1..(l + 1), NEW j \in 1..(l + 1), i < j PROVE z[i].id < z[j].id
    <3>1. i \in 1..l /\ z[i] = s[i] /\ s[i].id \in 1..n
      <4>1. i \in 1..l
        BY <2>2, <1>2
      <4> QED BY <4>1, <1>2, <1>3 DEF Sorted
    <3>2. CASE j = l + 1
      BY <3>1, <3>2, <1>3
    <3>3. CASE j # l + 1
      <4>1. j \in 1..l /\ z[j] = s[j]
        BY <3>3, <1>3, <1>4
      <4>2. s[i].id < s[j].id
        BY <2>2, <3>1, <4>1, <1>2 DEF Sorted
      <4> QED BY <3>1, <4>1, <4>2
    <3> QED BY <3>2, <3>3
  <2> QED BY <2>1, <2>2, <1>3 DEF Sorted
<1>6. ASSUME NEW e \in EmitType, Heeds(e, s, n) PROVE Heeds(e, z, n + 1)
  <2>1. /\ e.next >= 1 /\ e.start \subseteq 1..n /\ Elements(e.called) \subseteq 1..n
        /\ \A j \in 1..Len(e.called) : \A k \in 1..Len(e.called) : j < k => e.called[j] < e.called[k]
        /\ \A k \in 1..Len(e.called) : \A i \in 1..Len(s) : i >= e.next => e.called[k] < s[i].id
        /\ Cardinality(Missed(e, s)) <= e.removed
    BY <1>6 DEF Heeds
  <2>2. ASSUME NEW k \in 1..Len(e.called), NEW i \in 1..Len(z), i >= e.next PROVE e.called[k] < z[i].id
    <3>1. CASE i = l + 1
      <4>1. e.called[k] \in 1..n
        BY <2>1 DEF Elements
      <4> QED BY <4>1, <3>1, <1>3
    <3>2. CASE i # l + 1
      <4>1. i \in 1..l /\ z[i] = s[i]
        BY <3>2, <1>3, <1>4
      <4> QED BY <4>1, <2>1, <2>2, <1>2
    <3> QED BY <3>1, <3>2
  <2>3. Missed(e, z) = Missed(e, s)
    <3>1. ASSUME NEW x \in Missed(e, z) PROVE x \in Missed(e, s)
      <4>1. PICK j \in {i \in 1..Len(z) : i < e.next} : x = z[j].id
        BY DEF Missed, Passed
      <4>2. x \in 1..n
        BY <2>1 DEF Missed
      <4>3. j # l + 1
        BY <4>1, <4>2, <1>3
      <4>4. j \in 1..l /\ z[j] = s[j] /\ j < e.next
        BY <4>1, <4>3, <1>3, <1>4
      <4>5. x \in Passed(s, e.next)
        BY <4>4, <4>1, <1>2 DEF Passed
      <4> QED BY <4>5 DEF Missed
    <3>2. ASSUME NEW x \in Missed(e, s) PROVE x \in Missed(e, z)
      <4>1. PICK j \in {i \in 1..Len(s) : i < e.next} : x = s[j].id
        BY DEF Missed, Passed
      <4>2. j \in 1..Len(z) /\ j < e.next /\ z[j] = s[j]
        BY <4>1, <1>2, <1>3
      <4>3. x \in Passed(z, e.next)
        BY <4>2, <4>1 DEF Passed
      <4> QED BY <4>3 DEF Missed
    <3> QED BY <3>1, <3>2
  <2>4. 1..n \subseteq 1..(n + 1)
    OBVIOUS
  <2>5. e.start \subseteq 1..(n + 1) /\ Elements(e.called) \subseteq 1..(n + 1)
    BY <2>1, <2>4
  <2> QED BY <2>1, <2>2, <2>3, <2>5 DEF Heeds
<1> QED BY <1>1, <1>5, <1>6

\* A registration in another array.
LEMMA MoreHeeded ==
  ASSUME NEW n \in Nat, NEW s
  PROVE  /\ Sorted(s, n) => Sorted(s, n + 1)
         /\ \A e : Heeds(e, s, n) => Heeds(e, s, n + 1)
<1>1. 1..n \subseteq 1..(n + 1)
  OBVIOUS
<1>2. Sorted(s, n) => Sorted(s, n + 1)
  BY <1>1 DEF Sorted
<1>3. ASSUME NEW e, Heeds(e, s, n) PROVE Heeds(e, s, n + 1)
  <2>1. e.start \subseteq 1..(n + 1) /\ Elements(e.called) \subseteq 1..(n + 1)
    BY <1>1, <1>3 DEF Heeds
  <2> QED BY <2>1, <1>3 DEF Heeds
<1> QED BY <1>2, <1>3

\* emit() calls the next handler.
Enters(d, e, id) == d = [e EXCEPT !.next = @ + 1, !.inside = TRUE, !.called = Append(@, id)]
LEMMA EnteredHeeded ==
  ASSUME NEW n \in Nat, NEW s \in Seq(HandlerType), Sorted(s, n),
         NEW e \in EmitType, Heeds(e, s, n), e.next <= Len(s), NEW d, Enters(d, e, s[e.next].id)
  PROVE  d \in EmitType /\ d.array = e.array /\ Heeds(d, s, n)
<1>1. e.next \in Nat /\ e.removed \in Nat /\ e.called \in Seq(Nat) /\ e.start \in SUBSET Nat /\ e.next >= 1
  BY DEF EmitType, Heeds
<1>2. e.next \in 1..Len(s)
  BY <1>1
<1>3. PICK x \in Nat : x = s[e.next].id
  BY <1>2, HandlerAt
<1>4. x \in 1..n /\ \A i \in 1..Len(s) : i >= e.next + 1 => x < s[i].id
  <2>1. x \in 1..n
    BY <1>2, <1>3 DEF Sorted
  <2>2. ASSUME NEW i \in 1..Len(s), i >= e.next + 1 PROVE x < s[i].id
    <3>1. e.next < i
      BY <2>2, <1>1
    <3> QED BY <3>1, <1>2, <1>3 DEF Sorted
  <2> QED BY <2>1, <2>2
<1>5. PICK c \in Seq(Nat) : c = Append(e.called, x)
  <2>1. Append(e.called, x) \in Seq(Nat)
    BY <1>1
  <2> QED BY <2>1
<1>6. PICK l \in Nat : l = Len(e.called)
  <2>1. PICK z \in Seq(Nat) : z = e.called
    BY <1>1
  <2>2. Len(z) \in Nat
    OBVIOUS
  <2> QED BY <2>1, <2>2
<1>7. Len(c) = l + 1 /\ c[l + 1] = x /\ \A i \in 1..l : c[i] = e.called[i]
  BY <1>1, <1>5, <1>6
<1>8. PICK m \in Nat : m = e.next + 1
  BY <1>1
<1>9. d = [e EXCEPT !.next = m, !.inside = TRUE, !.called = c]
  BY <1>3, <1>5, <1>8 DEF Enters
<1>10. /\ d \in EmitType /\ d.array = e.array /\ d.next = m /\ d.called = c /\ d.start = e.start
       /\ d.removed = e.removed
  BY <1>9 DEF EmitType
<1>11. /\ e.start \subseteq 1..n
       /\ \A j \in 1..l : e.called[j] \in 1..n
       /\ \A j \in 1..l : \A k \in 1..l : j < k => e.called[j] < e.called[k]
       /\ \A k \in 1..l : \A i \in 1..Len(s) : i >= e.next => e.called[k] < s[i].id
       /\ Cardinality(Missed(e, s)) <= e.removed
  BY <1>6 DEF Heeds, Elements
<1>12. ASSUME NEW j \in 1..(l + 1) PROVE c[j] \in 1..n /\ \A i \in 1..Len(s) : i >= m => c[j] < s[i].id
  <2>1. CASE j = l + 1
    BY <2>1, <1>4, <1>7, <1>8
  <2>2. CASE j # l + 1
    <3>1. j \in 1..l /\ c[j] = e.called[j]
      BY <2>2, <1>6, <1>7
    <3>2. \A i \in 1..Len(s) : i >= m => i >= e.next
      BY <1>1, <1>8
    <3> QED BY <3>1, <3>2, <1>11
  <2> QED BY <2>1, <2>2
<1>13. ASSUME NEW j \in 1..(l + 1), NEW k \in 1..(l + 1), j < k PROVE c[j] < c[k]
  <2>1. j \in 1..l /\ c[j] = e.called[j]
    BY <1>13, <1>6, <1>7
  <2>2. CASE k = l + 1
    <3>1. e.next >= e.next
      BY <1>1
    <3>2. e.called[j] < x
      BY <2>1, <3>1, <1>2, <1>3, <1>11
    <3> QED BY <2>1, <2>2, <3>2, <1>7
  <2>3. CASE k # l + 1
    <3>1. k \in 1..l /\ c[k] = e.called[k]
      BY <2>3, <1>6, <1>7
    <3> QED BY <2>1, <3>1, <1>11, <1>13
  <2> QED BY <2>2, <2>3
<1>14. Missed(d, s) \subseteq Missed(e, s)
  <2>1. SUFFICES ASSUME NEW y \in Missed(d, s) PROVE y \in Missed(e, s)
    OBVIOUS
  <2>2. PICK j \in 1..Len(s) : j < m /\ y = s[j].id
    BY <1>10 DEF Missed, Passed
  <2>3. y # x
    <3>1. l + 1 \in 1..Len(c)
      BY <1>6, <1>7
    <3>2. x \in Elements(c)
      BY <3>1, <1>7 DEF Elements
    <3> QED BY <3>2, <1>10 DEF Missed
  <2>4. j < e.next
    <3>1. j # e.next
      BY <2>2, <2>3, <1>3
    <3> QED BY <3>1, <2>2, <1>1, <1>8
  <2>5. y \in Passed(s, e.next)
    BY <2>2, <2>4 DEF Passed
  <2>6. y \notin Elements(e.called)
    <3>1. SUFFICES ASSUME NEW i \in 1..l, y = e.called[i] PROVE FALSE
      BY <1>6 DEF Elements
    <3>2. c[i] = y /\ i \in 1..Len(c)
      BY <3>1, <1>6, <1>7
    <3>3. y \in Elements(c)
      BY <3>2 DEF Elements
    <3> QED BY <3>3, <1>10 DEF Missed
  <2>7. y \in e.start
    BY <1>10 DEF Missed
  <2> QED BY <2>5, <2>6, <2>7 DEF Missed
<1>15. Cardinality(Missed(d, s)) <= d.removed
  <2>1. IsFiniteSet(Missed(e, s)) /\ Cardinality(Missed(e, s)) \in Nat
    BY MissedFinite
  <2>2. Cardinality(Missed(d, s)) <= Cardinality(Missed(e, s)) /\ Cardinality(Missed(d, s)) \in Nat
    BY <2>1, <1>14, FS_Subset, FS_CardinalityType
  <2> QED BY <2>1, <2>2, <1>1, <1>10, <1>11
<1>16. Heeds(d, s, n)
  <2>1. d.next >= 1
    BY <1>1, <1>8, <1>10
  <2>2. Elements(d.called) \subseteq 1..n
    BY <1>7, <1>10, <1>12 DEF Elements
  <2>3. \A j \in 1..Len(d.called) : \A k \in 1..Len(d.called) : j < k => d.called[j] < d.called[k]
    BY <1>7, <1>10, <1>13
  <2>4. \A k \in 1..Len(d.called) : \A i \in 1..Len(s) : i >= d.next => d.called[k] < s[i].id
    BY <1>7, <1>10, <1>12
  <2> QED BY <2>1, <2>2, <2>3, <2>4, <1>10, <1>11, <1>15 DEF Heeds
<1> QED BY <1>10, <1>16

\* A new emit() has called none and missed none.
LEMMA EmitHeeded ==
  ASSUME NEW n \in Nat, NEW s \in Seq(HandlerType), Sorted(s, n), NEW c \in Nat,
         NEW d, d = [array |-> c, next |-> 1, inside |-> FALSE, called |-> <<>>, removed |-> 0,
                     start |-> {s[i].id : i \in DOMAIN s}]
  PROVE  d \in EmitType /\ d.array = c /\ Heeds(d, s, n)
<1>1. \A i \in DOMAIN s : i \in 1..Len(s) /\ s[i].id \in 1..n
  BY DEF Sorted
<1>2. {s[i].id : i \in DOMAIN s} \subseteq 1..n
  BY <1>1
<1>3. PICK st \in SUBSET (1..n) : st = {s[i].id : i \in DOMAIN s}
  BY <1>2
<1>4. <<>> \in Seq(Nat) /\ Len(<<>>) = 0 /\ st \in SUBSET Nat
  OBVIOUS
<1>5. d = [array |-> c, next |-> 1, inside |-> FALSE, called |-> <<>>, removed |-> 0, start |-> st]
  BY <1>3
<1>6. /\ d \in EmitType /\ d.array = c /\ d.next = 1 /\ d.called = <<>> /\ d.removed = 0 /\ d.start = st
  <2>1. /\ d.array = c /\ d.next = 1 /\ d.called = <<>> /\ d.removed = 0 /\ d.start = st
    BY <1>5
  <2>2. PICK q \in Seq(Nat) : q = <<>>
    BY <1>4
  <2>3. d = [array |-> c, next |-> 1, inside |-> FALSE, called |-> q, removed |-> 0, start |-> st]
    BY <1>5, <2>2
  <2>4. d \in EmitType
    BY <2>3, <1>4 DEF EmitType
  <2> QED BY <2>1, <2>4
<1>7. Missed(d, s) = {}
  <2>1. {i \in 1..Len(s) : i < 1} = {}
    OBVIOUS
  <2>2. Passed(s, 1) = {}
    BY <2>1 DEF Passed
  <2> QED BY <2>2, <1>6 DEF Missed
<1>8. Cardinality(Missed(d, s)) <= d.removed
  <2>1. Cardinality({}) = 0
    BY FS_EmptySet
  <2>2. d.removed = 0
    BY <1>6
  <2>3. Cardinality(Missed(d, s)) = 0
    BY <2>1, <1>7
  <2> QED BY <2>2, <2>3
<1>9. Heeds(d, s, n)
  BY <1>3, <1>4, <1>6, <1>8 DEF Heeds, Elements
<1> QED BY <1>6, <1>9

-----------------------------------------------------------------------------
\* Functions on the first numbers are sequences.
LEMMA IsASequence ==
  ASSUME NEW T1, NEW n \in Nat, NEW f \in [1..n -> T1]
  PROVE  f \in Seq(T1) /\ Len(f) = n
OBVIOUS

\* Arrays and emits.
LEMMA EmFacts ==
  ASSUME NEW a, NEW c, NEW em, NEW n, EmSound(a, c, em, n)
  PROVE  /\ n \in Nat /\ Len(a) \in Nat /\ Len(em) \in Nat /\ a \in Seq(Seq(HandlerType))
         /\ em \in Seq(EmitType)
         /\ \A x \in 1..Len(a) : a[x] \in Seq(HandlerType) /\ Sorted(a[x], n)
         /\ \A k \in 1..Len(em) :
              em[k] \in EmitType /\ em[k].array \in 1..Len(a) /\ Heeds(em[k], a[em[k].array], n)
<1>1. n \in Nat /\ a \in Seq(Seq(HandlerType)) /\ em \in Seq(EmitType)
  BY DEF EmSound
<1>2. Len(a) \in Nat /\ Len(em) \in Nat
  BY <1>1
<1>3. \A x \in 1..Len(a) : a[x] \in Seq(HandlerType)
  BY <1>1
<1>4. \A k \in 1..Len(em) : em[k] \in EmitType
  BY <1>1
<1> QED BY <1>1, <1>2, <1>3, <1>4 DEF EmSound

\* emit() calls that return or are left by an exception.
LEMMA FewerEmits ==
  ASSUME NEW a, NEW c, NEW em, NEW n, EmSound(a, c, em, n),
         NEW m \in 0..Len(em), NEW em2, em2 = SubSeq(em, 1, m)
  PROVE  EmSound(a, c, em2, n) /\ (AtWork(a, c, em) => AtWork(a, c, em2))
<1>1. em \in Seq(EmitType) /\ Len(em) \in Nat /\ m \in Nat /\ m <= Len(em)
  BY EmFacts
<1>2. em2 \in Seq(EmitType) /\ Len(em2) = m /\ \A k \in 1..m : em2[k] = em[k] /\ k \in 1..Len(em)
  BY <1>1
<1>3. EmSound(a, c, em2, n)
  BY <1>2 DEF EmSound
<1> QED BY <1>2, <1>3 DEF AtWork

\* One more of them, or another one in place of the last.
LEMMA AnotherEmit ==
  ASSUME NEW a, NEW c, NEW em, NEW n, EmSound(a, c, em, n),
         NEW d \in EmitType, d.array \in 1..Len(a), Heeds(d, a[d.array], n),
         NEW em2, em2 = Append(em, d)
  PROVE  /\ EmSound(a, c, em2, n) /\ em2 \in Seq(EmitType)
         /\ (d.array = c \/ a[d.array] = <<>>) /\ AtWork(a, c, em) => AtWork(a, c, em2)
<1>1. em \in Seq(EmitType) /\ Len(em) \in Nat
  BY EmFacts
<1>2. em2 \in Seq(EmitType)
  BY <1>1
<1>3. Len(em2) = Len(em) + 1 /\ em2[Len(em) + 1] = d /\ \A k \in 1..Len(em) : em2[k] = em[k]
  BY <1>1
<1>4. \A k \in 1..(Len(em) + 1) : k = Len(em) + 1 \/ k \in 1..Len(em)
  BY <1>1
<1>5. ASSUME NEW k \in 1..Len(em2) PROVE em2[k].array \in 1..Len(a) /\ Heeds(em2[k], a[em2[k].array], n)
  <2>1. CASE k = Len(em) + 1
    BY <2>1, <1>3
  <2>2. CASE k \in 1..Len(em)
    BY <2>2, <1>3, EmFacts
  <2> QED BY <2>1, <2>2, <1>3, <1>4
<1>6. EmSound(a, c, em2, n)
  BY <1>2, <1>5 DEF EmSound
<1>7. ASSUME d.array = c \/ a[d.array] = <<>>, AtWork(a, c, em), NEW k \in 1..Len(em2)
      PROVE  em2[k].array = c \/ a[em2[k].array] = <<>>
  <2>1. CASE k = Len(em) + 1
    BY <2>1, <1>3, <1>7
  <2>2. CASE k \in 1..Len(em)
    BY <2>2, <1>3, <1>7 DEF AtWork
  <2> QED BY <2>1, <2>2, <1>3, <1>4
<1>8. (d.array = c \/ a[d.array] = <<>>) /\ AtWork(a, c, em) => AtWork(a, c, em2)
  BY <1>7 DEF AtWork
<1> QED BY <1>2, <1>6, <1>8

\* removeListener() in the array in use.
Stayed(a, c, S, a2) ==
  /\ Len(a2) = Len(a)
  /\ \A x \in 1..Len(a) : \A i \in 1..Len(a2[x]) :
       \E j \in 1..Len(a[x]) : a2[x][i] = a[x][j] /\ (x = c => a[x][j] \notin S)
RemovedFrom(a, c, em, kept, a2, c2, em2) ==
  /\ a2 = [a EXCEPT ![c] = kept] /\ c2 = IF kept = <<>> THEN 0 ELSE c
  /\ em2 = [i \in DOMAIN em |->
              IF em[i].array = c
              THEN [em[i] EXCEPT !.removed = @ + (Len(a[c]) - Len(kept))] ELSE em[i]]
LEMMA RemovesSound ==
  ASSUME NEW a, NEW c, NEW em, NEW n, NEW S, NEW a2, NEW c2, NEW em2,
         EmSound(a, c, em, n), c # 0, RemovedFrom(a, c, em, Remaining(a[c], S), a2, c2, em2)
  PROVE  /\ EmSound(a2, c2, em2, n) /\ (AtWork(a, c, em) => AtWork(a2, c2, em2))
         /\ Stayed(a, c, S, a2)
<1>k. PICK kept : kept = Remaining(a[c], S)
  OBVIOUS
<1>0. /\ a2 = [a EXCEPT ![c] = kept] /\ c2 = IF kept = <<>> THEN 0 ELSE c
      /\ em2 = [i \in DOMAIN em |->
                  IF em[i].array = c
                  THEN [em[i] EXCEPT !.removed = @ + (Len(a[c]) - Len(kept))] ELSE em[i]]
  BY <1>k DEF RemovedFrom
<1>1. /\ n \in Nat /\ a \in Seq(Seq(HandlerType)) /\ em \in Seq(EmitType) /\ Len(a) \in Nat /\ Len(em) \in Nat
      /\ \A x \in 1..Len(a) : a[x] \in Seq(HandlerType) /\ Sorted(a[x], n)
      /\ \A k \in 1..Len(em) :
           em[k] \in EmitType /\ em[k].array \in 1..Len(a) /\ Heeds(em[k], a[em[k].array], n)
  BY EmFacts
<1>2. c \in 1..Len(a)
  BY <1>1 DEF EmSound
<1>3. PICK s \in Seq(HandlerType) : s = a[c] /\ Sorted(s, n)
  BY <1>1, <1>2
<1>4. /\ kept \in Seq(HandlerType) /\ Sorted(kept, n)
      /\ \A i \in 1..Len(kept) : \E j \in 1..Len(s) : kept[i] = s[j] /\ s[j] \notin S
  <2>1. kept = Remaining(s, S) /\ n \in Nat
    BY <1>k, <1>1, <1>3
  <2>2. Sorted(s, n)
    BY <1>3
  <2>3. /\ Remaining(s, S) \in Seq(HandlerType) /\ Sorted(Remaining(s, S), n)
        /\ \A i \in 1..Len(Remaining(s, S)) :
              \E j \in 1..Len(s) : Remaining(s, S)[i] = s[j] /\ s[j] \notin S
    BY <2>1, <2>2, RemovalSorted
  <2> QED BY <2>1, <2>3
<1>5. a2 \in Seq(Seq(HandlerType)) /\ Len(a2) = Len(a) /\ a2[c] = kept /\ \A x \in 1..Len(a) : x # c => a2[x] = a[x]
  BY <1>0, <1>1, <1>2, <1>4
<1>6. \A x \in 1..Len(a) : Sorted(a2[x], n)
  BY <1>1, <1>4, <1>5
<1>7. ASSUME NEW x \in 1..Len(a), NEW i \in 1..Len(a2[x])
      PROVE  \E j \in 1..Len(a[x]) : a2[x][i] = a[x][j] /\ (x = c => a[x][j] \notin S)
  <2>1. CASE x = c
    BY <2>1, <1>3, <1>4, <1>5
  <2>2. CASE x # c
    BY <2>2, <1>5
  <2> QED BY <2>1, <2>2
<1>8. Apart(a2)
  <2>1. ASSUME NEW x \in 1..Len(a2), NEW y \in 1..Len(a2), NEW i \in 1..Len(a2[x]), NEW j \in 1..Len(a2[y]),
               a2[x][i].id = a2[y][j].id
        PROVE  x = y
    <3>0. x \in 1..Len(a) /\ y \in 1..Len(a)
      BY <1>5
    <3>1. PICK i1 \in 1..Len(a[x]) : a2[x][i] = a[x][i1]
      BY <3>0, <1>7
    <3>2. PICK j1 \in 1..Len(a[y]) : a2[y][j] = a[y][j1]
      BY <3>0, <1>7
    <3>3. Apart(a)
      BY DEF EmSound
    <3>4. a[x][i1].id = a[y][j1].id
      BY <3>1, <3>2, <2>1
    <3> QED BY <3>0, <3>1, <3>2, <3>3, <3>4 DEF Apart
  <2> QED BY <2>1 DEF Apart
<1>9. DOMAIN em = 1..Len(em)
  BY <1>1
<1>10. ASSUME NEW k \in 1..Len(em)
       PROVE  em2[k] \in EmitType /\ em2[k].array = em[k].array /\ Heeds(em2[k], a2[em2[k].array], n)
  <2>1. CASE em[k].array = c
    <3>1. PICK e \in EmitType : e = em[k] /\ Heeds(e, s, n) /\ e.array = c
      BY <2>1, <1>1, <1>3
    <3>2. PICK d : d = [e EXCEPT !.removed = @ + (Len(s) - Len(kept))]
      OBVIOUS
    <3>3. d \in EmitType /\ Heeds(d, kept, n)
      BY <3>1, <3>2, <1>k, <1>1, <1>3, RemovalHeeded
    <3>4. d.array = e.array
      BY <3>1, <3>2 DEF EmitType
    <3>5. em2[k] = d
      BY <3>1, <3>2, <2>1, <1>0, <1>3, <1>9
    <3> QED BY <3>1, <3>3, <3>4, <3>5, <1>5
  <2>2. CASE em[k].array # c
    <3>1. em2[k] = em[k]
      BY <2>2, <1>0, <1>9
    <3> QED BY <3>1, <2>2, <1>1, <1>5
  <2> QED BY <2>1, <2>2
<1>11. em2 \in Seq(EmitType) /\ Len(em2) = Len(em)
  <2>1. em2 = [i \in 1..Len(em) |-> em2[i]]
    BY <1>0, <1>9
  <2>2. \A i \in 1..Len(em) : em2[i] \in EmitType
    BY <1>10
  <2> DEFINE t == [i \in 1..Len(em) |-> em2[i]]
  <2>3. em2 \in [1..Len(em) -> EmitType]
    <3>1. t \in [1..Len(em) -> EmitType]
      BY <2>2
    <3> HIDE DEF t
    <3>2. em2 = t
      BY <2>1 DEF t
    <3> QED BY <3>1, <3>2
  <2> QED BY <2>3, <1>1, IsASequence
<1>12. c2 \in 0..Len(a2)
  BY <1>0, <1>2, <1>5, <1>1
<1>13. EmSound(a2, c2, em2, n)
  <2>1. \A k \in 1..Len(em2) : em2[k].array \in 1..Len(a2) /\ Heeds(em2[k], a2[em2[k].array], n)
    BY <1>1, <1>5, <1>10, <1>11
  <2> QED BY <2>1, <1>1, <1>5, <1>6, <1>8, <1>11, <1>12 DEF EmSound
<1>14. ASSUME AtWork(a, c, em), NEW k \in 1..Len(em2) PROVE em2[k].array = c2 \/ a2[em2[k].array] = <<>>
  <2>1. em2[k].array = em[k].array /\ em[k].array \in 1..Len(a) /\ (em[k].array = c \/ a[em[k].array] = <<>>)
    BY <1>14, <1>10, <1>11, <1>1 DEF AtWork
  <2>2. CASE em[k].array = c
    BY <2>1, <2>2, <1>0, <1>5
  <2>3. CASE em[k].array # c
    BY <2>1, <2>3, <1>5
  <2> QED BY <2>2, <2>3
<1>15. AtWork(a, c, em) => AtWork(a2, c2, em2)
  BY <1>14 DEF AtWork
<1> QED BY <1>5, <1>7, <1>13, <1>15 DEF Stayed

\* on() and once().
LEMMA AddsSound ==
  ASSUME NEW a, NEW c, NEW em, NEW f, f \in Seq(Nat), EmSound(a, c, em, Len(f)),
         NEW h \in HandlerType, h.id = Len(f) + 1, NEW a2, NEW c2,
         IF c = 0 THEN a2 = Append(a, <<h>>) /\ c2 = Len(a) + 1
                  ELSE a2 = [a EXCEPT ![c] = Append(@, h)] /\ c2 = c
  PROVE  /\ Append(f, 0) \in Seq(Nat) /\ Len(Append(f, 0)) = Len(f) + 1
         /\ EmSound(a2, c2, em, Len(f) + 1)
         /\ AtWork(a, c, em) => AtWork(a2, c2, em)
         /\ Unfired(a, f) => Unfired(a2, Append(f, 0))
<1>1. PICK n \in Nat : n = Len(f)
  OBVIOUS
<1>2. /\ a \in Seq(Seq(HandlerType)) /\ em \in Seq(EmitType) /\ Len(a) \in Nat /\ Len(em) \in Nat
      /\ \A x \in 1..Len(a) : a[x] \in Seq(HandlerType) /\ Sorted(a[x], n)
      /\ \A k \in 1..Len(em) :
           em[k] \in EmitType /\ em[k].array \in 1..Len(a) /\ Heeds(em[k], a[em[k].array], n)
  BY <1>1, EmFacts
<1>3. PICK g \in Seq(Nat) : g = Append(f, 0) /\ Len(g) = n + 1 /\ g[n + 1] = 0 /\ \A i \in 1..n : g[i] = f[i]
  <2>1. Append(f, 0) \in Seq(Nat) /\ Len(Append(f, 0)) = n + 1 /\ Append(f, 0)[n + 1] = 0
        /\ \A i \in 1..n : Append(f, 0)[i] = f[i]
    BY <1>1
  <2> QED BY <2>1
<1>4. PICK one \in Seq(HandlerType) : one = <<h>> /\ Len(one) = 1 /\ one[1] = h
  <2>1. <<h>> \in Seq(HandlerType) /\ Len(<<h>>) = 1 /\ <<h>>[1] = h
    OBVIOUS
  <2> QED BY <2>1
<1>5. c \in 0..Len(a) /\ Apart(a)
  BY DEF EmSound
\* Where the new handler stands, and that everything else is as before.
<1> DEFINE Grows(x, t, u) == \* the array x was t and is u
      /\ u \in Seq(HandlerType) /\ Sorted(u, n + 1)
      /\ \A e \in EmitType : Heeds(e, t, n) => Heeds(e, u, n + 1)
      /\ \A i \in 1..Len(u) : (x = c2 /\ u[i] = h) \/ \E j \in 1..Len(t) : u[i] = t[j]
<1>6. /\ a2 \in Seq(Seq(HandlerType)) /\ c2 \in 1..Len(a2) /\ Len(a2) \in Nat
      /\ \A x \in 1..Len(a) : x \in 1..Len(a2) /\ (x # c2 => a2[x] = a[x]) /\ Grows(x, a[x], a2[x])
      /\ \A x \in 1..Len(a2) : x \in 1..Len(a) \/ (x = c2 /\ a2[x] = one)
      /\ (c # 0 => c2 = c)
  <2>1. CASE c = 0
    <3>1. a2 = Append(a, one) /\ c2 = Len(a) + 1
      BY <2>1, <1>4
    <3>2. a2 \in Seq(Seq(HandlerType))
      BY <3>1, <1>2
    <3>3. Len(a2) = Len(a) + 1 /\ a2[Len(a) + 1] = one /\ \A x \in 1..Len(a) : a2[x] = a[x]
      BY <3>1, <1>2
    <3>4. ASSUME NEW x \in 1..Len(a) PROVE Grows(x, a[x], a2[x])
      <4>1. a2[x] = a[x] /\ a[x] \in Seq(HandlerType) /\ Sorted(a[x], n)
        BY <3>3, <1>2
      <4>2. Sorted(a[x], n + 1) /\ \A e : Heeds(e, a[x], n) => Heeds(e, a[x], n + 1)
        BY <4>1, MoreHeeded
      <4> QED BY <4>1, <4>2
    <3>5. \A x \in 1..(Len(a) + 1) : x \in 1..Len(a) \/ x = Len(a) + 1
      BY <1>2
    <3>6. c2 \in 1..Len(a2) /\ Len(a2) \in Nat /\ \A x \in 1..Len(a) : x \in 1..Len(a2)
      BY <3>1, <3>3, <1>2
    <3> HIDE DEF Grows
    <3> QED BY <3>1, <3>2, <3>3, <3>4, <3>5, <3>6, <2>1
  <2>2. CASE c # 0
    <3>1. c \in 1..Len(a) /\ c2 = c
      BY <2>2, <1>2, <1>5
    <3>2. PICK s \in Seq(HandlerType) : s = a[c] /\ Sorted(s, n)
      BY <3>1, <1>2
    <3>3. PICK t \in Seq(HandlerType) : t = Append(s, h)
      <4>1. Append(s, h) \in Seq(HandlerType)
        OBVIOUS
      <4> QED BY <4>1
    <3>4. a2 = [a EXCEPT ![c] = t]
      BY <2>2, <3>2, <3>3
    <3>5. a2 \in Seq(Seq(HandlerType)) /\ Len(a2) = Len(a) /\ a2[c] = t /\ \A x \in 1..Len(a) : x # c => a2[x] = a[x]
      BY <3>1, <3>4, <1>2
    <3>6. Sorted(t, n + 1) /\ \A e \in EmitType : Heeds(e, s, n) => Heeds(e, t, n + 1)
      BY <3>2, <3>3, <1>1, AppendHeeded
    <3>7. \A i \in 1..Len(t) : t[i] = h \/ \E j \in 1..Len(s) : t[i] = s[j]
      <4>1. Len(s) \in Nat /\ Len(t) = Len(s) + 1 /\ t[Len(s) + 1] = h /\ \A i \in 1..Len(s) : t[i] = s[i]
        BY <3>3
      <4>2. \A i \in 1..Len(t) : i = Len(s) + 1 \/ i \in 1..Len(s)
        BY <4>1
      <4> QED BY <4>1, <4>2
    <3>8. ASSUME NEW x \in 1..Len(a) PROVE Grows(x, a[x], a2[x])
      <4>1. CASE x = c
        BY <4>1, <3>1, <3>2, <3>5, <3>6, <3>7
      <4>2. CASE x # c
        <5>1. a2[x] = a[x] /\ a[x] \in Seq(HandlerType) /\ Sorted(a[x], n)
          BY <4>2, <3>5, <1>2
        <5>2. Sorted(a[x], n + 1) /\ \A e : Heeds(e, a[x], n) => Heeds(e, a[x], n + 1)
          BY <5>1, MoreHeeded
        <5> QED BY <5>1, <5>2
      <4> QED BY <4>1, <4>2
    <3> HIDE DEF Grows
    <3> QED BY <3>1, <3>5, <3>8, <1>2
  <2> QED BY <2>1, <2>2
<1>7. Sorted(one, n + 1)
  BY <1>1, <1>4 DEF Sorted
<1>8. \A x \in 1..Len(a2) : Sorted(a2[x], n + 1)
  BY <1>6, <1>7
<1>9. ASSUME NEW x \in 1..Len(a2), NEW i \in 1..Len(a2[x])
      PROVE  \/ x = c2 /\ a2[x][i] = h
             \/ x \in 1..Len(a) /\ \E j \in 1..Len(a[x]) : a2[x][i] = a[x][j]
  <2>1. CASE x \in 1..Len(a)
    BY <2>1, <1>6
  <2>2. CASE x = c2 /\ a2[x] = one
    BY <2>2, <1>4
  <2> QED BY <2>1, <2>2, <1>6
<1>10. \A x \in 1..Len(a) : \A i \in 1..Len(a[x]) : a[x][i].id \in 1..n
  BY <1>2 DEF Sorted
<1> HIDE DEF Grows
<1>11. Apart(a2)
  <2>1. ASSUME NEW x \in 1..Len(a2), NEW y \in 1..Len(a2), NEW i \in 1..Len(a2[x]), NEW j \in 1..Len(a2[y]),
               a2[x][i].id = a2[y][j].id
        PROVE  x = y
    <3>1. n + 1 \notin 1..n
      OBVIOUS
    <3>2. CASE x = c2 /\ a2[x][i] = h
      <4>0. a2[x][i].id = n + 1
        BY <3>2, <1>1
      <4>1. a2[y][j].id = n + 1
        BY <4>0, <2>1
      <4>2. ~(y \in 1..Len(a) /\ \E b \in 1..Len(a[y]) : a2[y][j] = a[y][b])
        BY <4>1, <3>1, <1>10
      <4>3. y = c2
        BY <4>2, <1>9
      <4> QED BY <4>3, <3>2
    <3>3. CASE y = c2 /\ a2[y][j] = h
      <4>0. a2[y][j].id = n + 1
        BY <3>3, <1>1
      <4>1. a2[x][i].id = n + 1
        BY <4>0, <2>1
      <4>2. ~(x \in 1..Len(a) /\ \E b \in 1..Len(a[x]) : a2[x][i] = a[x][b])
        BY <4>1, <3>1, <1>10
      <4>3. x = c2
        BY <4>2, <1>9
      <4> QED BY <4>3, <3>3
    <3>4. CASE ~(x = c2 /\ a2[x][i] = h) /\ ~(y = c2 /\ a2[y][j] = h)
      <4>1. PICK i1 \in 1..Len(a[x]) : x \in 1..Len(a) /\ a2[x][i] = a[x][i1]
        BY <3>4, <1>9
      <4>2. PICK j1 \in 1..Len(a[y]) : y \in 1..Len(a) /\ a2[y][j] = a[y][j1]
        BY <3>4, <1>9
      <4> QED BY <4>1, <4>2, <2>1, <1>5 DEF Apart
    <3> QED BY <3>2, <3>3, <3>4
  <2> QED BY <2>1 DEF Apart
<1>12. ASSUME NEW k \in 1..Len(em)
       PROVE  em[k].array \in 1..Len(a2) /\ Heeds(em[k], a2[em[k].array], n + 1)
  <2>1. em[k] \in EmitType /\ em[k].array \in 1..Len(a) /\ Heeds(em[k], a[em[k].array], n)
    BY <1>2
  <2>2. Grows(em[k].array, a[em[k].array], a2[em[k].array]) /\ em[k].array \in 1..Len(a2)
    BY <2>1, <1>6
  <2> QED BY <2>1, <2>2 DEF Grows
<1>13. EmSound(a2, c2, em, n + 1)
  <2>1. c2 \in 0..Len(a2)
    BY <1>6
  <2> QED BY <2>1, <1>2, <1>6, <1>8, <1>11, <1>12 DEF EmSound
<1>14. ASSUME AtWork(a, c, em), NEW k \in 1..Len(em) PROVE em[k].array = c2 \/ a2[em[k].array] = <<>>
  <2>1. em[k].array \in 1..Len(a) /\ (em[k].array = c \/ a[em[k].array] = <<>>)
    BY <1>2, <1>14 DEF AtWork
  <2>2. CASE em[k].array = c
    BY <2>1, <2>2, <1>6
  <2>3. CASE em[k].array # c
    BY <2>1, <2>3, <1>6
  <2> QED BY <2>2, <2>3
<1>15. ASSUME Unfired(a, f), NEW x \in 1..Len(a2), NEW i \in 1..Len(a2[x]), a2[x][i].once
       PROVE  g[a2[x][i].id] = 0
  <2>1. CASE a2[x][i] = h
    BY <2>1, <1>1, <1>3
  <2>2. CASE x \in 1..Len(a) /\ \E j \in 1..Len(a[x]) : a2[x][i] = a[x][j]
    <3>1. PICK j \in 1..Len(a[x]) : a2[x][i] = a[x][j]
      BY <2>2
    <3>2. f[a[x][j].id] = 0 /\ a[x][j].id \in 1..n
      BY <3>1, <2>2, <1>10, <1>15 DEF Unfired
    <3> QED BY <3>1, <3>2, <1>3
  <2> QED BY <2>1, <2>2, <1>9
<1>16. AtWork(a, c, em) => AtWork(a2, c2, em)
  BY <1>14 DEF AtWork
<1>17. Unfired(a, f) => Unfired(a2, g)
  BY <1>15 DEF Unfired
<1> QED BY <1>1, <1>3, <1>13, <1>16, <1>17

-----------------------------------------------------------------------------
\* The operators of EventEmitter's copy of the modules it extends.
LEMMA SameRemaining == ASSUME NEW s, NEW S PROVE E!Remaining(s, S) = Remaining(s, S)
BY DEF E!Remaining, Remaining

LEMMA LastEmit ==
  ASSUME EmInv, emits # <<>>
  PROVE  /\ Len(emits) \in Nat \ {0} /\ Len(emits) - 1 \in 0..Len(emits) /\ Len(emits) \in 1..Len(emits)
         /\ E!Last(emits) = emits[Len(emits)] /\ E!Front(emits) = SubSeq(emits, 1, Len(emits) - 1)
<1>1. emits \in Seq(EmitType)
  BY DEF EmInv, EmSound
<1>2. Len(emits) \in Nat \ {0}
  BY <1>1
<1> QED BY <1>2 DEF E!Last, E!Front

LEMMA EmGiven ==
  ASSUME EmInv
  PROVE  /\ fired \in Seq(Nat) /\ Len(fired) \in Nat /\ parted \in BOOLEAN
         /\ EmSound(arrays, current, emits, Len(fired))
         /\ ~parted => AtWork(arrays, current, emits) /\ Unfired(arrays, fired)
BY DEF EmInv

\* on() and once().
LEMMA OnKeeps ==
  ASSUME EmInv, NEW fn \in HandlerFns, NEW once \in BOOLEAN,
         E!on(E!Handler(E!Registered + 1, fn, once)), UNCHANGED <<emits, parted>>
  PROVE  EmInv'
<1>0. EmInv /\ fired \in Seq(Nat) /\ Len(fired) \in Nat
  BY EmGiven
<1>1. PICK h : h = E!Handler(E!Registered + 1, fn, once)
  OBVIOUS
<1>2. h \in HandlerType /\ h.id = Len(fired) + 1
  BY <1>0, <1>1 DEF E!Handler, E!Registered, HandlerType
<1>3. /\ fired' = Append(fired, 0)
      /\ IF current = 0 THEN arrays' = Append(arrays, <<h>>) /\ current' = Len(arrays) + 1
                        ELSE arrays' = [arrays EXCEPT ![current] = Append(@, h)] /\ current' = current
  BY <1>1 DEF E!on
<1>4. EmSound(arrays, current, emits, Len(fired))
  BY EmGiven
<1>5. /\ fired' \in Seq(Nat) /\ Len(fired') = Len(fired) + 1
      /\ EmSound(arrays', current', emits, Len(fired) + 1)
      /\ AtWork(arrays, current, emits) => AtWork(arrays', current', emits)
      /\ Unfired(arrays, fired) => Unfired(arrays', fired')
  <2>1. PICK f : f = fired
    OBVIOUS
  <2>2. PICK a : a = arrays
    OBVIOUS
  <2>3. PICK c : c = current
    OBVIOUS
  <2>4. PICK em : em = emits
    OBVIOUS
  <2>5. PICK a2 : a2 = arrays'
    OBVIOUS
  <2>6. PICK c2 : c2 = current'
    OBVIOUS
  <2>7. IF c = 0 THEN a2 = Append(a, <<h>>) /\ c2 = Len(a) + 1
                 ELSE a2 = [a EXCEPT ![c] = Append(@, h)] /\ c2 = c
    BY <1>3, <2>2, <2>3, <2>5, <2>6
  <2>8. f \in Seq(Nat) /\ EmSound(a, c, em, Len(f)) /\ h.id = Len(f) + 1
    BY <1>0, <1>2, <1>4, <2>1, <2>2, <2>3, <2>4
  <2>9. PICK g : g = Append(f, 0)
    OBVIOUS
  <2>10. PICK n : n = Len(f) + 1
    OBVIOUS
  <2>11. /\ g \in Seq(Nat) /\ Len(g) = n /\ EmSound(a2, c2, em, n)
         /\ AtWork(a, c, em) => AtWork(a2, c2, em)
         /\ Unfired(a, f) => Unfired(a2, g)
    <3>1. /\ Append(f, 0) \in Seq(Nat) /\ Len(Append(f, 0)) = Len(f) + 1
          /\ EmSound(a2, c2, em, Len(f) + 1)
          /\ AtWork(a, c, em) => AtWork(a2, c2, em)
          /\ Unfired(a, f) => Unfired(a2, Append(f, 0))
      BY <2>7, <2>8, <1>2, AddsSound
    <3> QED BY <3>1, <2>9, <2>10, Zenon
  <2>12. fired' = g /\ Len(fired) + 1 = n
    BY <2>1, <2>9, <2>10, <1>3
  <2> QED BY <2>11, <2>12, <2>1, <2>2, <2>3, <2>4, <2>5, <2>6
<1>6. parted' \/ (AtWork(arrays', current', emits') /\ Unfired(arrays', fired'))
  BY <1>5, EmGiven
<1> QED BY <1>5, <1>6, EmGiven DEF EmInv

\* removeListener(), with any emits running.
LEMMA Removes ==
  ASSUME NEW n, NEW running, EmSound(arrays, current, running, n), NEW S, E!removeListener(S, running)
  PROVE  /\ EmSound(arrays', current', emits', n)
         /\ AtWork(arrays, current, running) => AtWork(arrays', current', emits')
         /\ Len(arrays') = Len(arrays)
         /\ \A x \in 1..Len(arrays) : \A i \in 1..Len(arrays'[x]) :
              \E j \in 1..Len(arrays[x]) : arrays'[x][i] = arrays[x][j] /\ (x = current => arrays[x][j] \notin S)
<1>1. CASE current = 0
  <2>1. emits' = running /\ arrays' = arrays /\ current' = current
    BY <1>1 DEF E!removeListener
  <2>2. \A x \in 1..Len(arrays) : x # current
    BY <1>1
  <2> QED BY <2>1, <2>2
<1>2. CASE current # 0
  <2>1. PICK kept : kept = Remaining(arrays[current], S)
    OBVIOUS
  <2>2. kept = E!Remaining(arrays[current], S)
    BY <2>1, SameRemaining
  <2>3. /\ arrays' = [arrays EXCEPT ![current] = kept]
        /\ current' = IF kept = <<>> THEN 0 ELSE current
        /\ emits' = [i \in DOMAIN running |->
                       IF running[i].array = current
                       THEN [running[i] EXCEPT !.removed = @ + (Len(arrays[current]) - Len(kept))]
                       ELSE running[i]]
    BY <1>2, <2>2 DEF E!removeListener
  <2>4. PICK a : a = arrays
    OBVIOUS
  <2>5. PICK c : c = current
    OBVIOUS
  <2>6. PICK a2 : a2 = arrays'
    OBVIOUS
  <2>7. PICK c2 : c2 = current'
    OBVIOUS
  <2>8. PICK em2 : em2 = emits'
    OBVIOUS
  <2>9. EmSound(a, c, running, n) /\ c # 0 /\ kept = Remaining(a[c], S)
    BY <1>2, <2>1, <2>4, <2>5
  <2>10. a2 = [a EXCEPT ![c] = kept]
    BY <2>3, <2>4, <2>5, <2>6
  <2>11. c2 = IF kept = <<>> THEN 0 ELSE c
    BY <2>3, <2>5, <2>7
  <2>12. em2 = [i \in DOMAIN running |->
                  IF running[i].array = c
                  THEN [running[i] EXCEPT !.removed = @ + (Len(a[c]) - Len(kept))] ELSE running[i]]
    BY <2>3, <2>4, <2>5, <2>8
  <2>13. EmSound(a2, c2, em2, n) /\ (AtWork(a, c, running) => AtWork(a2, c2, em2)) /\ Stayed(a, c, S, a2)
    <3>1. RemovedFrom(a, c, running, kept, a2, c2, em2)
      BY <2>10, <2>11, <2>12 DEF RemovedFrom
    <3>2. RemovedFrom(a, c, running, Remaining(a[c], S), a2, c2, em2)
      BY <3>1, <2>9
    <3>3. EmSound(a, c, running, n) /\ c # 0
      BY <2>9
    <3> QED BY <3>2, <3>3, RemovesSound
  <2> QED BY <2>13, <2>4, <2>5, <2>6, <2>7, <2>8 DEF Stayed
<1> QED BY <1>1, <1>2

LEMMA RemoveListenerKeeps ==
  ASSUME EmInv, NEW fn \in HandlerFns, E!RemoveListener(fn)
  PROVE  EmInv'
<1>1. PICK S : E!removeListener(S, emits)
  BY DEF E!RemoveListener
<1>2. fired' = fired /\ parted' = parted
  BY DEF E!RemoveListener
<1>3. EmSound(arrays, current, emits, Len(fired))
  BY EmGiven
<1>4. /\ EmSound(arrays', current', emits', Len(fired))
      /\ AtWork(arrays, current, emits) => AtWork(arrays', current', emits')
      /\ Len(arrays') = Len(arrays)
      /\ \A x \in 1..Len(arrays) : \A i \in 1..Len(arrays'[x]) :
           \E j \in 1..Len(arrays[x]) : arrays'[x][i] = arrays[x][j]
  BY <1>1, <1>3, Removes
<1>5. Unfired(arrays, fired) => Unfired(arrays', fired)
  BY <1>4 DEF Unfired
<1> QED BY <1>2, <1>4, <1>5, EmGiven DEF EmInv

LEMMA RemoveAllKeeps ==
  ASSUME EmInv, E!removeAllListeners
  PROVE  EmInv'
<1>1. current' = 0 /\ parted' = (parted \/ emits # <<>>) /\ arrays' = arrays /\ emits' = emits /\ fired' = fired
  BY DEF E!removeAllListeners
<1>2. EmSound(arrays, current, emits, Len(fired))
  BY EmGiven
<1>3. EmSound(arrays, 0, emits, Len(fired))
  <2>1. 0 \in 0..Len(arrays)
    BY <1>2, EmFacts
  <2> QED BY <1>2, <2>1 DEF EmSound
<1>4. ASSUME ~parted' PROVE AtWork(arrays, 0, emits) /\ Unfired(arrays, fired)
  <2>1. ~parted /\ emits = <<>>
    BY <1>1, <1>4
  <2>2. 1..Len(emits) = {}
    BY <2>1
  <2> QED BY <2>1, <2>2, EmGiven DEF AtWork
<1>5. parted' \in BOOLEAN
  BY <1>1
<1> QED BY <1>1, <1>3, <1>4, <1>5, EmGiven DEF EmInv

LEMMA EmitKeeps ==
  ASSUME EmInv, E!emit
  PROVE  EmInv'
<1>1. /\ emits' = IF current = 0 THEN emits ELSE Append(emits, E!Emit(current))
      /\ arrays' = arrays /\ current' = current /\ fired' = fired /\ parted' = parted
  BY DEF E!emit
<1>2. CASE current = 0
  BY <1>1, <1>2 DEF EmInv
<1>3. CASE current # 0
  <2>1. EmSound(arrays, current, emits, Len(fired))
    BY EmGiven
  <2>2. current \in 1..Len(arrays) /\ current \in Nat
    BY <2>1, <1>3, EmFacts DEF EmSound
  <2>3. Len(fired) \in Nat /\ arrays[current] \in Seq(HandlerType) /\ Sorted(arrays[current], Len(fired))
    BY <2>1, <2>2, EmFacts
  <2>4. PICK d : d = E!Emit(current)
    OBVIOUS
  <2>5. d = [array |-> current, next |-> 1, inside |-> FALSE, called |-> <<>>, removed |-> 0,
             start |-> {arrays[current][i].id : i \in DOMAIN arrays[current]}]
    BY <2>4 DEF E!Emit
  <2>6. d \in EmitType /\ d.array = current /\ Heeds(d, arrays[current], Len(fired))
    BY <2>2, <2>3, <2>5, EmitHeeded
  <2>7. emits' = Append(emits, d)
    BY <1>1, <1>3, <2>4
  <2>8. /\ EmSound(arrays, current, emits', Len(fired))
        /\ (d.array = current \/ arrays[d.array] = <<>>) /\ AtWork(arrays, current, emits)
           => AtWork(arrays, current, emits')
    BY <2>1, <2>2, <2>6, <2>7, AnotherEmit
  <2> QED BY <1>1, <2>6, <2>8, EmGiven DEF EmInv
<1> QED BY <1>2, <1>3

\* The last emit() in another state.
LEMMA LastReplaced ==
  ASSUME EmInv, emits # <<>>, NEW d \in EmitType, d.array = emits[Len(emits)].array,
         Heeds(d, arrays[d.array], Len(fired)), NEW em, em = Append(E!Front(emits), d)
  PROVE  /\ EmSound(arrays, current, em, Len(fired))
         /\ AtWork(arrays, current, emits) => AtWork(arrays, current, em)
<1>1. EmSound(arrays, current, emits, Len(fired))
  BY EmGiven
<1>2. PICK m : m = Len(emits) - 1
  OBVIOUS
<1>3. m \in 0..Len(emits) /\ Len(emits) \in 1..Len(emits)
  BY <1>2, LastEmit
<1>4. PICK front : front = SubSeq(emits, 1, m)
  OBVIOUS
<1>5. EmSound(arrays, current, front, Len(fired)) /\ (AtWork(arrays, current, emits) => AtWork(arrays, current, front))
  BY <1>1, <1>3, <1>4, FewerEmits
<1>6. em = Append(front, d)
  BY <1>2, <1>4, LastEmit
<1>7. d.array \in 1..Len(arrays)
  BY <1>1, <1>3, EmFacts
<1>8. /\ EmSound(arrays, current, em, Len(fired))
      /\ (d.array = current \/ arrays[d.array] = <<>>) /\ AtWork(arrays, current, front)
         => AtWork(arrays, current, em)
  BY <1>5, <1>6, <1>7, AnotherEmit
<1>9. AtWork(arrays, current, emits) => d.array = current \/ arrays[d.array] = <<>>
  BY <1>3 DEF AtWork
<1> QED BY <1>5, <1>8, <1>9

LEMMA ReturnsKeeps ==
  ASSUME EmInv, E!HandlerReturns
  PROVE  EmInv'
<1>1. /\ emits # <<>> /\ emits' = Append(E!Front(emits), [E!Last(emits) EXCEPT !.inside = FALSE])
      /\ arrays' = arrays /\ current' = current /\ fired' = fired /\ parted' = parted
  BY DEF E!HandlerReturns
<1>2. PICK e : e = emits[Len(emits)]
  OBVIOUS
<1>3. e \in EmitType /\ Heeds(e, arrays[e.array], Len(fired)) /\ E!Last(emits) = e
  BY <1>1, <1>2, LastEmit, EmFacts, EmGiven
<1>4. PICK d : d = [e EXCEPT !.inside = FALSE]
  OBVIOUS
<1>5. /\ d \in EmitType /\ d.array = e.array /\ d.next = e.next /\ d.called = e.called
      /\ d.removed = e.removed /\ d.start = e.start
  BY <1>3, <1>4 DEF EmitType
<1>6. Heeds(d, arrays[d.array], Len(fired))
  BY <1>3, <1>5 DEF Heeds, Missed
<1>7. emits' = Append(E!Front(emits), d)
  BY <1>1, <1>3, <1>4
<1>8. /\ EmSound(arrays, current, emits', Len(fired))
      /\ AtWork(arrays, current, emits) => AtWork(arrays, current, emits')
  BY <1>1, <1>2, <1>5, <1>6, <1>7, LastReplaced
<1> QED BY <1>1, <1>8, EmGiven DEF EmInv

LEMMA LeavesKeep ==
  ASSUME EmInv, E!HandlerThrows \/ E!EmitReturns
  PROVE  EmInv'
<1>1. arrays' = arrays /\ current' = current /\ fired' = fired /\ parted' = parted /\ emits # <<>>
  BY DEF E!HandlerThrows, E!EmitReturns
<1>2. PICK m \in 0..Len(emits) : emits' = SubSeq(emits, 1, m)
  <2>1. CASE E!HandlerThrows
    <3>1. PICK n \in 1..Len(emits) : emits' = SubSeq(emits, 1, n - 1)
      BY <2>1 DEF E!HandlerThrows
    <3>2. n - 1 \in 0..Len(emits)
      BY <1>1, LastEmit
    <3> QED BY <3>1, <3>2
  <2>2. CASE E!EmitReturns
    <3>1. emits' = E!Front(emits)
      BY <2>2 DEF E!EmitReturns
    <3> QED BY <3>1, <1>1, LastEmit
  <2> QED BY <2>1, <2>2
<1>3. EmSound(arrays, current, emits, Len(fired))
  BY EmGiven
<1>4. /\ EmSound(arrays, current, emits', Len(fired))
      /\ AtWork(arrays, current, emits) => AtWork(arrays, current, emits')
  BY <1>2, <1>3, FewerEmits
<1> QED BY <1>1, <1>4, EmGiven DEF EmInv

\* The function of a handler that is called: it stands once among all arrays.
LEMMA CallNextKeeps ==
  ASSUME EmInv, E!CallNext
  PROVE  EmInv'
<1>1. PICK e : e = E!Last(emits)
  OBVIOUS
<1>2. PICK h : h = arrays[e.array][e.next]
  OBVIOUS
<1>3. PICK d : d = [e EXCEPT !.next = @ + 1, !.inside = TRUE, !.called = Append(@, h.id)]
  OBVIOUS
<1>4. PICK em : em = Append(E!Front(emits), d)
  OBVIOUS
<1>5. /\ emits # <<>> /\ e.next <= Len(arrays[e.array]) /\ fired' = [fired EXCEPT ![h.id] = @ + 1]
      /\ IF h.once THEN E!removeListener({h}, em) ELSE emits' = em /\ arrays' = arrays /\ current' = current
      /\ parted' = parted
  BY <1>1, <1>2, <1>3, <1>4 DEF E!CallNext
<1>6. PICK n \in Nat : n = Len(fired)
  BY EmGiven
<1>7. EmSound(arrays, current, emits, n) /\ fired \in Seq(Nat)
  BY <1>6, EmGiven
<1>8. e = emits[Len(emits)] /\ Len(emits) \in 1..Len(emits)
  BY <1>1, <1>5, LastEmit
<1>9. e \in EmitType /\ e.array \in 1..Len(arrays) /\ Heeds(e, arrays[e.array], n)
  BY <1>7, <1>8, EmFacts
<1>10. PICK s \in Seq(HandlerType) : s = arrays[e.array] /\ Sorted(s, n)
  BY <1>7, <1>9, EmFacts
<1>11. e.next \in 1..Len(s)
  BY <1>5, <1>9, <1>10 DEF Heeds, EmitType
<1>12. h = s[e.next] /\ h \in HandlerType /\ h.id \in 1..n
  BY <1>2, <1>10, <1>11, HandlerAt DEF Sorted
<1>13. d \in EmitType /\ d.array = e.array /\ Heeds(d, s, n)
  <2>1. Enters(d, e, s[e.next].id)
    BY <1>3, <1>12 DEF Enters
  <2>2. Heeds(e, s, n) /\ Sorted(s, n) /\ e.next <= Len(s)
    BY <1>5, <1>9, <1>10
  <2> QED BY <2>1, <2>2, <1>9, EnteredHeeded
<1>14. /\ EmSound(arrays, current, em, n)
       /\ AtWork(arrays, current, emits) => AtWork(arrays, current, em)
  BY <1>4, <1>5, <1>6, <1>8, <1>10, <1>13, LastReplaced
<1>15. fired' \in Seq(Nat) /\ Len(fired') = n /\ \A i \in 1..n : i # h.id => fired'[i] = fired[i]
  BY <1>5, <1>6, <1>7, <1>12
<1>16. ASSUME AtWork(arrays, current, emits) PROVE e.array = current
  <2>1. s # <<>>
    BY <1>11
  <2> QED BY <2>1, <1>8, <1>10, <1>16 DEF AtWork
<1>17. ASSUME NEW x \in 1..Len(arrays), NEW j \in 1..Len(arrays[x]), arrays[x][j].id = h.id
       PROVE  x = e.array /\ arrays[x][j] = h
  <2>1. Apart(arrays)
    BY <1>7 DEF EmSound
  <2>2. x = e.array
    BY <2>1, <1>9, <1>10, <1>11, <1>12, <1>17 DEF Apart
  <2>3. j \in 1..Len(s) /\ s[j].id = s[e.next].id
    BY <2>2, <1>10, <1>12, <1>17
  <2>4. j = e.next
    <3>1. s[j].id \in Nat
      BY <2>3, HandlerAt
    <3>2. ~(j < e.next) /\ ~(e.next < j)
      BY <2>3, <3>1, <1>10, <1>11 DEF Sorted
    <3>3. j \in Nat /\ e.next \in Nat
      BY <2>3, <1>11
    <3> QED BY <3>2, <3>3
  <2> QED BY <2>2, <2>4, <1>10, <1>12
<1>18. \A x \in 1..Len(arrays) : \A j \in 1..Len(arrays[x]) : arrays[x][j].id \in 1..n
  BY <1>7, EmFacts DEF Sorted
<1>19. CASE h.once
  <2>1. E!removeListener({h}, em)
    BY <1>5, <1>19
  <2>2. /\ EmSound(arrays', current', emits', n)
        /\ AtWork(arrays, current, em) => AtWork(arrays', current', emits')
        /\ Len(arrays') = Len(arrays)
        /\ \A x \in 1..Len(arrays) : \A i \in 1..Len(arrays'[x]) :
             \E j \in 1..Len(arrays[x]) : arrays'[x][i] = arrays[x][j] /\ (x = current => arrays[x][j] \notin {h})
    BY <2>1, <1>14, Removes
  <2>3. ASSUME AtWork(arrays, current, emits), Unfired(arrays, fired),
               NEW x \in 1..Len(arrays'), NEW i \in 1..Len(arrays'[x]), arrays'[x][i].once
        PROVE  fired'[arrays'[x][i].id] = 0
    <3>1. PICK j \in 1..Len(arrays[x]) : arrays'[x][i] = arrays[x][j] /\ (x = current => arrays[x][j] # h)
      BY <2>2, <2>3
    <3>2. x \in 1..Len(arrays)
      BY <2>2
    <3>3. arrays[x][j].id # h.id
      BY <3>1, <3>2, <1>16, <1>17, <2>3
    <3>4. fired[arrays[x][j].id] = 0
      BY <3>1, <3>2, <2>3 DEF Unfired
    <3> QED BY <3>1, <3>2, <3>3, <3>4, <1>15, <1>18
  <2>4. AtWork(arrays, current, emits) /\ Unfired(arrays, fired) => Unfired(arrays', fired')
    BY <2>3 DEF Unfired
  <2> QED BY <1>5, <1>14, <1>15, <2>2, <2>4, EmGiven DEF EmInv
<1>20. CASE ~h.once
  <2>1. emits' = em /\ arrays' = arrays /\ current' = current
    BY <1>5, <1>20
  <2>2. ASSUME Unfired(arrays, fired), NEW x \in 1..Len(arrays), NEW i \in 1..Len(arrays[x]), arrays[x][i].once
        PROVE  fired'[arrays[x][i].id] = 0
    <3>1. arrays[x][i].id # h.id
      BY <1>17, <1>20, <2>2
    <3> QED BY <3>1, <2>2, <1>15, <1>18 DEF Unfired
  <2>3. Unfired(arrays, fired) => Unfired(arrays, fired')
    BY <2>2 DEF Unfired
  <2> QED BY <1>5, <1>14, <1>15, <2>1, <2>3, EmGiven DEF EmInv
<1> QED BY <1>19, <1>20

-----------------------------------------------------------------------------
LEMMA EmStart ==
  ASSUME E!EmitterInit
  PROVE  EmInv
<1>1. arrays = <<>> /\ current = 0 /\ emits = <<>> /\ fired = <<>> /\ parted = FALSE
  BY DEF E!EmitterInit
<1>2. /\ fired \in Seq(Nat) /\ Len(fired) = 0 /\ arrays \in Seq(Seq(HandlerType)) /\ Len(arrays) = 0
      /\ emits \in Seq(EmitType) /\ Len(emits) = 0
  BY <1>1
<1>3. 1..Len(arrays) = {} /\ 1..Len(emits) = {}
  BY <1>2
<1>4. EmSound(arrays, current, emits, Len(fired))
  BY <1>1, <1>2, <1>3 DEF EmSound, Apart
<1>5. AtWork(arrays, current, emits) /\ Unfired(arrays, fired)
  BY <1>3 DEF AtWork, Unfired
<1> QED BY <1>1, <1>2, <1>4, <1>5 DEF EmInv

LEMMA EmStep ==
  ASSUME EmInv, [E!EmitterNext]_emitterVars
  PROVE  EmInv'
<1>1. ASSUME NEW fn \in HandlerFns, E!On(fn) \/ E!Once(fn) \/ E!RemoveListener(fn)
      PROVE  EmInv'
  <2>1. TRUE \in BOOLEAN /\ FALSE \in BOOLEAN
    OBVIOUS
  <2> QED BY <1>1, <2>1, OnKeeps, RemoveListenerKeeps DEF E!On, E!Once
<1>2. CASE E!removeAllListeners \/ E!emit
  BY <1>2, RemoveAllKeeps, EmitKeeps
<1>3. CASE E!CallNext \/ E!HandlerReturns \/ E!HandlerThrows \/ E!EmitReturns
  BY <1>3, CallNextKeeps, ReturnsKeeps, LeavesKeep
<1>4. CASE UNCHANGED emitterVars
  <2>1. /\ arrays' = arrays /\ current' = current /\ emits' = emits /\ fired' = fired /\ parted' = parted
    BY <1>4 DEF emitterVars
  <2> QED BY <2>1 DEF EmInv
<1> QED BY <1>1, <1>2, <1>3, <1>4 DEF E!EmitterNext

LEMMA SameCount == ASSUME NEW S PROVE E!Cardinality(S) = Cardinality(S)
BY DEF E!Cardinality, Cardinality

LEMMA SmallerOf ==
  ASSUME NEW a \in Int, NEW b \in Int
  PROVE  E!Min({a, b}) \in Int /\ \A i \in Int : i <= E!Min({a, b}) <=> i <= a /\ i <= b
<1> DEFINE P0(x) == x \in {a, b} /\ \A y \in {a, b} : x <= y
<1>1. \E x : P0(x)
  <2>1. CASE a <= b
    <3>1. P0(a)
      BY <2>1
    <3> QED BY <3>1
  <2>2. CASE ~(a <= b)
    <3>1. P0(b)
      BY <2>2
    <3> QED BY <3>1
  <2> QED BY <2>1, <2>2
<1>2. PICK m : m = E!Min({a, b})
  OBVIOUS
<1>3. P0(m)
  BY <1>1, <1>2 DEF E!Min
<1>4. m \in Int /\ \A i \in Int : i <= m <=> i <= a /\ i <= b
  BY <1>3
<1> QED BY <1>2, <1>4

LEMMA EmMeans ==
  ASSUME EmInv
  PROVE  E!CalledInOrder /\ E!NoneAfterRemoval /\ E!HidesNoMore /\ E!OnceOnly
<1>1. EmSound(arrays, current, emits, Len(fired)) /\ emits \in Seq(EmitType) /\ arrays \in Seq(Seq(HandlerType))
  BY EmGiven, EmFacts
<1>2. DOMAIN emits = 1..Len(emits) /\ DOMAIN arrays = 1..Len(arrays)
  BY <1>1
<1>3. ASSUME NEW k \in DOMAIN emits
      PROVE  /\ emits[k] \in EmitType /\ emits[k].array \in 1..Len(arrays)
             /\ Heeds(emits[k], arrays[emits[k].array], Len(fired))
             /\ arrays[emits[k].array] \in Seq(HandlerType)
  BY <1>1, <1>2, <1>3, EmFacts
<1>4. E!CalledInOrder
  <2> SUFFICES ASSUME NEW k \in DOMAIN emits, NEW j \in 1..(Len(emits[k].called) - 1)
               PROVE  emits[k].called[j] < emits[k].called[j + 1]
    BY DEF E!CalledInOrder
  <2>1. PICK c \in Seq(Nat) : c = emits[k].called
    BY <1>3 DEF EmitType
  <2>2. j \in 1..Len(c) /\ j + 1 \in 1..Len(c) /\ j < j + 1
    BY <2>1
  <2>3. \A i \in 1..Len(c) : \A l \in 1..Len(c) : i < l => c[i] < c[l]
    BY <1>3, <2>1 DEF Heeds
  <2> QED BY <2>1, <2>2, <2>3
<1>5. E!HidesNoMore
  <2> SUFFICES ASSUME NEW k \in DOMAIN emits, NEW e, e = emits[k],
                      NEW passed, passed = {arrays[e.array][j].id : j \in 1..E!Min({e.next - 1, Len(arrays[e.array])})}
               PROVE  E!Cardinality((passed \intersect e.start) \ E!Range(e.called)) <= e.removed
    BY DEF E!HidesNoMore
  <2>1. /\ e \in EmitType /\ Heeds(e, arrays[e.array], Len(fired)) /\ arrays[e.array] \in Seq(HandlerType)
    BY <1>3
  <2>2. PICK s \in Seq(HandlerType) : s = arrays[e.array]
    BY <2>1
  <2>3. PICK c \in Seq(Nat) : c = e.called
    BY <2>1 DEF EmitType
  <2>4. E!Range(e.called) = Elements(e.called)
    <3>1. DOMAIN c = 1..Len(c)
      OBVIOUS
    <3> QED BY <2>3, <3>1 DEF E!Range, Elements
  <2>5. passed = Passed(s, e.next)
    <3>1. e.next \in Nat /\ Len(s) \in Nat
      BY <2>1, <2>2 DEF EmitType
    <3>a. PICK z \in Int : z = e.next - 1
      BY <3>1
    <3>b. PICK l \in Int : l = Len(s)
      BY <3>1
    <3>2. PICK m \in Int : m = E!Min({z, l}) /\ \A i \in Int : i <= m <=> i <= z /\ i <= l
      BY SmallerOf
    <3>c. m = E!Min({e.next - 1, Len(arrays[e.array])})
      BY <3>a, <3>b, <3>2, <2>2
    <3>d. PICK q \in Nat : q = e.next /\ z = q - 1
      BY <3>1, <3>a
    <3>3. \A i \in Int : i <= m <=> i < q /\ i <= l
      <4> SUFFICES ASSUME NEW i \in Int PROVE i <= m <=> i < q /\ i <= l
        OBVIOUS
      <4>1. i <= m <=> i <= z /\ i <= l
        BY <3>2
      <4>2. i <= z <=> i < q
        BY <3>d
      <4> QED BY <4>1, <4>2
    <3>5. 1..m = {i \in 1..l : i < q}
      <4>1. \A i \in 1..m : i \in Int /\ i <= m /\ i >= 1
        BY <3>2
      <4>2. ASSUME NEW i \in 1..l, i < q PROVE i \in 1..m
        <5>1. i \in Int /\ i <= l /\ i >= 1
          BY <4>2, <3>b
        <5>2. i <= m
          BY <5>1, <4>2, <3>3
        <5> QED BY <5>1, <5>2, <3>2
      <4>3. ASSUME NEW i \in 1..m PROVE i \in 1..l /\ i < q
        <5>1. i < q /\ i <= l /\ i \in Int /\ i >= 1
          BY <4>1, <3>3
        <5> QED BY <5>1, <3>b
      <4> QED BY <4>2, <4>3
    <3>4. 1..m = {i \in 1..Len(s) : i < e.next}
      BY <3>5, <3>b, <3>d
    <3> QED BY <3>c, <3>4, <2>2 DEF Passed
  <2>6. (passed \intersect e.start) \ E!Range(e.called) = Missed(e, s)
    BY <2>4, <2>5 DEF Missed
  <2>7. Cardinality(Missed(e, s)) <= e.removed
    BY <2>1, <2>2 DEF Heeds
  <2> QED BY <2>6, <2>7, SameCount
<1>6. E!OnceOnly
  <2> SUFFICES ASSUME ~parted, NEW a \in DOMAIN arrays, NEW i \in DOMAIN arrays[a], arrays[a][i].once
               PROVE  fired[arrays[a][i].id] = 0
    BY DEF E!OnceOnly
  <2>1. i \in 1..Len(arrays[a])
    BY <1>1
  <2> QED BY <1>2, <2>1, EmGiven DEF Unfired
<1>7. E!NoneAfterRemoval
  <2>1. parted \/ AtWork(arrays, current, emits)
    BY EmGiven
  <2> QED BY <2>1, <1>2 DEF AtWork, E!NoneAfterRemoval
<1> QED BY <1>4, <1>5, <1>6, <1>7

-----------------------------------------------------------------------------
(***************************************************************************)
(* EventTarget: whose handlers stand with which signals, and whom the      *)
(* dispatches on the stack have still to call.                             *)
(***************************************************************************)
ListenerType == [kind : {"user", "wait", "any"}, of : Nat]
FrameType ==
  [op : {"user", "dispatch"}, sig : Nat, type : T!Types \union {"none"}, queue : Seq(ListenerType),
   at : {"none", "begin", "copy", "calls"}]
WaitType == [sig : Nat, types : SUBSET T!Types, depth : Nat, st : {"unused", "pending", "abort", "ping"}]
Places == T!Signals \X T!Types

\* Of the listeners ls: l stands with the place k.
Stands(ls, k, l) == l \in Elements(ls[k])
WaitHandler(w) == T!Listener("wait", w)
AnyHandler(d) == T!Listener("any", d)

\* A waitOne() that is u has its handler with all it waits for, or nowhere.
WaitSound(w, u, ls) ==
  /\ \A k \in Places : Stands(ls, k, WaitHandler(w)) <=> u.st = "pending" /\ k[1] = u.sig /\ k[2] \in u.types
  /\ u.st \in {"unused", "pending"} \union u.types
  /\ u.st = "pending" => u.sig \in T!Signals

\* Among sources so, signals aborted ab for reasons re out of gi: d has one to be aborted behind.
Behind(d, so, ab, re, gi) == \E j \in 1..Len(so[d]) : ab[so[d][j]] /\ re[d] \in gi[so[d][j]]

\* d is aborted, or about to be.
Aborts(d, ab, st) == ab[d] \/ T!Dispatch(d, "abort") \in Elements(st)

\* The handler of any() stands with the first sources up to one that was aborted before,
\* and d is aborted if there was one.
AnySound(d, ls, so, ab, st) ==
  \E u \in 0..Len(so[d]) :
    /\ \A k \in Places : Stands(ls, k, AnyHandler(d)) <=> k[2] = "abort" /\ \E i \in 1..u : so[d][i] = k[1]
    /\ Aborts(d, ab, st) <=> u # Len(so[d])

\* A frame f at the depth i of the stack.
FrameSound(f, i, wa, so, ab, re, gi) ==
  f.op = "dispatch" =>
    /\ f.sig \in T!Signals /\ f.type \in T!Types /\ (f.at = "begin" => f.queue = <<>>)
    /\ \A w \in Waiters : WaitHandler(w) \in Elements(f.queue) => wa[w].st # "unused" /\ f.type \in wa[w].types
    /\ \A l \in Elements(f.queue) : l.kind = "wait" => l.of \in Waiters
    /\ f.at = "calls" =>
         \A w \in Waiters :
           wa[w].st = "pending" /\ wa[w].sig = f.sig /\ f.type \in wa[w].types /\ wa[w].depth < i =>
             WaitHandler(w) \in Elements(f.queue)
    /\ f.type = "abort" =>
         /\ f.at # "begin" => ab[f.sig]
         /\ f.sig \in PlainSignals => re[f.sig] \in gi[f.sig]
         /\ f.sig \in DerivedSignals => Behind(f.sig, so, ab, re, gi)
StackSound(st, wa, so, ab, re, gi) ==
  st \in Seq(FrameType) /\ \A i \in 1..Len(st) : FrameSound(st[i], i, wa, so, ab, re, gi)

\* A dispatch that has not begun is the last of the stack, and nothing was thrown.
Fresh(f) == f.op = "dispatch" /\ f.at = "begin"
Prompt(st, th) == \A i \in 1..Len(st) : Fresh(st[i]) => i = Len(st) /\ ~th

TgTypes ==
  /\ listeners \in [Places -> Seq(ListenerType)]
  /\ signalled \in [T!Signals -> BOOLEAN] /\ reason \in [T!Signals -> Nat] /\ given \in [PlainSignals -> SUBSET Nat]
  /\ sources \in [DerivedSignals -> Seq(PlainSignals)] /\ waits \in [Waiters -> WaitType]
  /\ thrown \in BOOLEAN /\ eventCalls \in Nat
  /\ \A k \in Places : \A l \in Elements(listeners[k]) : l.kind = "wait" => l.of \in Waiters

Waiting(ls, wa) == \A w \in Waiters : WaitSound(w, wa[w], ls)
Distinct(q) == \A i \in 1..Len(q) : \A j \in 1..Len(q) : q[i] = q[j] => i = j
Deriving(ls, so, ab, re, gi, st) ==
  \A d \in DerivedSignals :
    Distinct(so[d]) /\ AnySound(d, ls, so, ab, st) /\ (ab[d] => Behind(d, so, ab, re, gi))
Plain(ab, re, gi) == \A s \in PlainSignals : ab[s] => re[s] \in gi[s]

TgInv ==
  /\ TgTypes /\ Waiting(listeners, waits)
  /\ Deriving(listeners, sources, signalled, reason, given, stack) /\ Plain(signalled, reason, given)
  /\ StackSound(stack, waits, sources, signalled, reason, given) /\ Prompt(stack, thrown)

-----------------------------------------------------------------------------
LEMMA TgNumbers ==
  /\ T!Signals \subseteq Nat \ {0} /\ PlainSignals \subseteq T!Signals /\ DerivedSignals \subseteq T!Signals
  /\ PlainSignals \intersect DerivedSignals = {} /\ Waiters \subseteq Nat \ {0}
  /\ \A s \in T!Signals : s \in PlainSignals \/ s \in DerivedSignals
BY NetworkAssumption DEF T!Signals

LEMMA TgRemaining == ASSUME NEW s, NEW S PROVE T!Remaining(s, S) = Remaining(s, S)
BY DEF T!Remaining, Remaining

\* Handlers are told apart.
LEMMA Handlers3 ==
  /\ \A w, d : WaitHandler(w) # AnyHandler(d) /\ WaitHandler(w) # T!User /\ AnyHandler(d) # T!User
  /\ \A v, w : WaitHandler(v) = WaitHandler(w) => v = w
  /\ \A c, d : AnyHandler(c) = AnyHandler(d) => c = d
  /\ \A w \in Waiters : WaitHandler(w) \in ListenerType /\ WaitHandler(w).kind = "wait" /\ WaitHandler(w).of = w
  /\ \A d \in DerivedSignals : AnyHandler(d) \in ListenerType /\ AnyHandler(d).kind = "any"
  /\ T!User \in ListenerType /\ T!User.kind = "user"
  /\ \A l \in ListenerType : l.kind = "wait" => l = WaitHandler(l.of)
  /\ \A l \in ListenerType : l.kind = "any" => l = AnyHandler(l.of)
<1>1. Waiters \subseteq Nat /\ DerivedSignals \subseteq Nat
  BY TgNumbers
<1>2. \A v, w : T!Listener("wait", v) = T!Listener("wait", w) => v = w
  BY DEF T!Listener
<1>3. \A v, w : T!Listener("any", v) = T!Listener("any", w) => v = w
  BY DEF T!Listener
<1>4. \A v, w : T!Listener("wait", v) # T!Listener("any", w) /\ T!Listener("wait", v) # T!User /\ T!Listener("any", v) # T!User
  BY DEF T!Listener, T!User
<1>5. \A n \in Nat : /\ T!Listener("wait", n) \in ListenerType /\ T!Listener("wait", n).kind = "wait"
                     /\ T!Listener("wait", n).of = n
                     /\ T!Listener("any", n) \in ListenerType /\ T!Listener("any", n).kind = "any"
  BY DEF T!Listener, ListenerType
<1>6. T!User \in ListenerType /\ T!User.kind = "user"
  BY DEF T!User, T!Listener, ListenerType
<1>7. \A l \in ListenerType : l.kind = "wait" => l = T!Listener("wait", l.of)
  BY DEF T!Listener, ListenerType
<1>8. \A l \in ListenerType : l.kind = "any" => l = T!Listener("any", l.of)
  BY DEF T!Listener, ListenerType
<1> QED BY <1>1, <1>2, <1>3, <1>4, <1>5, <1>6, <1>7, <1>8 DEF WaitHandler, AnyHandler

\* Listeners that come and go.
LEMMA WithoutStands ==
  ASSUME NEW ls \in [Places -> Seq(ListenerType)], NEW sigs, NEW types, NEW l,
         NEW ls2, ls2 = T!Without(ls, sigs, types, l)
  PROVE  /\ ls2 \in [Places -> Seq(ListenerType)]
         /\ \A k \in Places : \A m :
              Stands(ls2, k, m) <=> Stands(ls, k, m) /\ ~(m = l /\ k[1] \in sigs /\ k[2] \in types)
<1>1. ls2 = [k \in Places |-> IF k[1] \in sigs /\ k[2] \in types THEN Remaining(ls[k], {l}) ELSE ls[k]]
  <2>1. \A s : T!removeAll(s, l) = Remaining(s, {l})
    BY TgRemaining DEF T!removeAll
  <2> QED BY <2>1 DEF T!Without
<1>2. ASSUME NEW k \in Places
      PROVE  /\ ls2[k] \in Seq(ListenerType)
             /\ \A m : Stands(ls2, k, m) <=> Stands(ls, k, m) /\ ~(m = l /\ k[1] \in sigs /\ k[2] \in types)
  <2>1. ls[k] \in Seq(ListenerType)
    OBVIOUS
  <2>2. CASE k[1] \in sigs /\ k[2] \in types
    <3>1. ls2[k] = Remaining(ls[k], {l})
      BY <1>1, <2>2
    <3>2. ls2[k] \in Seq(ListenerType) /\ Elements(ls2[k]) = Elements(ls[k]) \ {l}
      BY <2>1, <3>1, RemainingElements
    <3> QED BY <2>2, <3>2 DEF Stands
  <2>3. CASE ~(k[1] \in sigs /\ k[2] \in types)
    <3>1. ls2[k] = ls[k]
      BY <1>1, <2>3
    <3> QED BY <2>1, <2>3, <3>1 DEF Stands
  <2> QED BY <2>2, <2>3
<1>3. ls2 \in [Places -> Seq(ListenerType)]
  BY <1>1, <1>2
<1> QED BY <1>2, <1>3

LEMMA AppendElements ==
  ASSUME NEW A1, NEW s \in Seq(A1), NEW x \in A1
  PROVE  Append(s, x) \in Seq(A1) /\ Elements(Append(s, x)) = Elements(s) \union {x}
<1>1. PICK t \in Seq(A1) : t = Append(s, x)
  <2>1. Append(s, x) \in Seq(A1)
    OBVIOUS
  <2> QED BY <2>1
<1>2. PICK n \in Nat : n = Len(s)
  OBVIOUS
<1>3. Len(t) = n + 1 /\ t[n + 1] = x /\ \A i \in 1..n : t[i] = s[i]
  BY <1>1, <1>2
<1>4. 1..(n + 1) = 1..n \union {n + 1}
  BY <1>2
<1>5. \A y : y \in Elements(t) <=> y \in Elements(s) \union {x}
  BY <1>2, <1>3, <1>4 DEF Elements
<1> QED BY <1>1, <1>5

LEMMA WithStands ==
  ASSUME NEW ls \in [Places -> Seq(ListenerType)], NEW sigs, NEW types, NEW l \in ListenerType,
         NEW ls2, ls2 = T!With(ls, sigs, types, l)
  PROVE  /\ ls2 \in [Places -> Seq(ListenerType)]
         /\ \A k \in Places : \A m :
              Stands(ls2, k, m) <=> Stands(ls, k, m) \/ (m = l /\ k[1] \in sigs /\ k[2] \in types)
<1>1. ls2 = [k \in Places |-> IF k[1] \in sigs /\ k[2] \in types THEN Append(ls[k], l) ELSE ls[k]]
  BY DEF T!With
<1>2. ASSUME NEW k \in Places
      PROVE  /\ ls2[k] \in Seq(ListenerType)
             /\ \A m : Stands(ls2, k, m) <=> Stands(ls, k, m) \/ (m = l /\ k[1] \in sigs /\ k[2] \in types)
  <2>1. ls[k] \in Seq(ListenerType)
    OBVIOUS
  <2>2. CASE k[1] \in sigs /\ k[2] \in types
    <3>1. ls2[k] = Append(ls[k], l)
      BY <1>1, <2>2
    <3>2. ls2[k] \in Seq(ListenerType) /\ Elements(ls2[k]) = Elements(ls[k]) \union {l}
      BY <2>1, <3>1, AppendElements
    <3> QED BY <2>2, <3>2 DEF Stands
  <2>3. CASE ~(k[1] \in sigs /\ k[2] \in types)
    <3>1. ls2[k] = ls[k]
      BY <1>1, <2>3
    <3> QED BY <2>1, <2>3, <3>1 DEF Stands
  <2> QED BY <2>2, <2>3
<1>3. ls2 \in [Places -> Seq(ListenerType)]
  BY <1>1, <1>2
<1> QED BY <1>2, <1>3

-----------------------------------------------------------------------------
\* Stacks that shrink and grow.
Calm(st) == \A i \in 1..Len(st) : ~Fresh(st[i])

LEMMA CalmPrompt ==
  ASSUME NEW st, Calm(st)
  PROVE  /\ \A th : Prompt(st, th)
         /\ \A d : T!Dispatch(d, "abort") \notin Elements(st)
<1>1. \A d : Fresh(T!Dispatch(d, "abort"))
  BY DEF Fresh, T!Dispatch, T!Frame
<1> QED BY <1>1 DEF Calm, Prompt, Elements

LEMMA StackGiven ==
  ASSUME NEW st, NEW wa, NEW so, NEW ab, NEW re, NEW gi, StackSound(st, wa, so, ab, re, gi)
  PROVE  /\ st \in Seq(FrameType) /\ Len(st) \in Nat
         /\ \A i \in 1..Len(st) : st[i] \in FrameType /\ FrameSound(st[i], i, wa, so, ab, re, gi)
<1>1. st \in Seq(FrameType)
  BY DEF StackSound
<1> QED BY <1>1 DEF StackSound

LEMMA StackPop ==
  ASSUME NEW st, NEW wa, NEW so, NEW ab, NEW re, NEW gi, NEW th, StackSound(st, wa, so, ab, re, gi),
         Prompt(st, th), st # <<>>, NEW st2, st2 = SubSeq(st, 1, Len(st) - 1)
  PROVE  /\ StackSound(st2, wa, so, ab, re, gi) /\ Calm(st2) /\ Len(st2) = Len(st) - 1
         /\ \A x \in Elements(st) : x \in Elements(st2) \/ x = st[Len(st)]
<1>1. st \in Seq(FrameType) /\ Len(st) \in Nat
  BY StackGiven
<1>2. PICK n \in Nat : n = Len(st) - 1 /\ Len(st) = n + 1
  BY <1>1
<1>3. st2 = SubSeq(st, 1, n)
  BY <1>2
<1>4. st2 \in Seq(FrameType) /\ Len(st2) = n /\ \A i \in 1..n : st2[i] = st[i]
  BY <1>1, <1>2, <1>3
<1>5. \A i \in 1..n : i \in 1..Len(st) /\ i # Len(st)
  BY <1>2
<1>6. StackSound(st2, wa, so, ab, re, gi)
  <2>1. \A i \in 1..Len(st2) : FrameSound(st2[i], i, wa, so, ab, re, gi)
    BY <1>4, <1>5, StackGiven
  <2> QED BY <2>1, <1>4 DEF StackSound
<1>7. Calm(st2)
  BY <1>4, <1>5 DEF Calm, Prompt
<1>8. ASSUME NEW x \in Elements(st) PROVE x \in Elements(st2) \/ x = st[Len(st)]
  <2>1. PICK i \in 1..Len(st) : x = st[i]
    BY DEF Elements
  <2>2. CASE i = Len(st)
    BY <2>1, <2>2
  <2>3. CASE i # Len(st)
    <3>1. i \in 1..n
      BY <2>3, <1>2
    <3> QED BY <3>1, <2>1, <1>4 DEF Elements
  <2> QED BY <2>2, <2>3
<1> QED BY <1>2, <1>4, <1>6, <1>7, <1>8

Latest(st) == \A i \in 1..Len(st) : Fresh(st[i]) => i = Len(st)
Pushed(st, f, n, st2) == st2 = Append(st, f) /\ n = Len(st) + 1

LEMMA StackPush ==
  ASSUME NEW st, NEW wa, NEW so, NEW ab, NEW re, NEW gi, StackSound(st, wa, so, ab, re, gi),
         Calm(st), NEW f \in FrameType, NEW n, NEW st2, Pushed(st, f, n, st2),
         FrameSound(f, n, wa, so, ab, re, gi)
  PROVE  /\ StackSound(st2, wa, so, ab, re, gi) /\ Latest(st2) /\ (~Fresh(f) => Calm(st2))
         /\ Len(st2) = n /\ st2[n] = f /\ Elements(st2) = Elements(st) \union {f}
<1>1. st \in Seq(FrameType) /\ Len(st) \in Nat /\ n = Len(st) + 1 /\ st2 = Append(st, f)
  BY StackGiven DEF Pushed
<1>2. st2 \in Seq(FrameType) /\ Elements(st2) = Elements(st) \union {f}
  BY <1>1, AppendElements
<1>3. PICK m \in Nat : m = Len(st)
  BY <1>1
<1>4. Len(st2) = m + 1 /\ st2[m + 1] = f /\ \A i \in 1..m : st2[i] = st[i]
  BY <1>1, <1>3
<1>5. \A i \in 1..(m + 1) : i = m + 1 \/ i \in 1..m
  BY <1>3
<1>6. StackSound(st2, wa, so, ab, re, gi)
  <2>1. ASSUME NEW i \in 1..(m + 1) PROVE FrameSound(st2[i], i, wa, so, ab, re, gi)
    <3>1. CASE i = m + 1
      BY <3>1, <1>1, <1>3, <1>4
    <3>2. CASE i \in 1..m
      BY <3>2, <1>3, <1>4, StackGiven
    <3> QED BY <3>1, <3>2, <1>5
  <2> QED BY <2>1, <1>2, <1>4 DEF StackSound
<1>7. ASSUME NEW i \in 1..(m + 1), Fresh(st2[i]) PROVE i = m + 1
  BY <1>3, <1>4, <1>5, <1>7 DEF Calm
<1>8. Latest(st2)
  BY <1>4, <1>7 DEF Latest
<1>9. ~Fresh(f) => Calm(st2)
  BY <1>4, <1>7 DEF Calm
<1> QED BY <1>1, <1>2, <1>3, <1>4, <1>6, <1>8, <1>9

\* The program's functions.
LEMMA UserSound ==
  ASSUME NEW n, NEW wa, NEW so, NEW ab, NEW re, NEW gi
  PROVE  T!UserCode \in FrameType /\ FrameSound(T!UserCode, n, wa, so, ab, re, gi) /\ ~Fresh(T!UserCode)
<1>1. T!UserCode.op = "user"
  BY DEF T!UserCode, T!Frame
<1>2. T!UserCode \in FrameType
  <2>1. <<>> \in Seq(ListenerType)
    OBVIOUS
  <2>2. PICK q \in Seq(ListenerType) : q = <<>>
    BY <2>1
  <2>3. T!UserCode = [op |-> "user", sig |-> 0, type |-> "none", queue |-> q, at |-> "none"]
    BY <2>2 DEF T!UserCode, T!Frame
  <2> QED BY <2>3 DEF FrameType
<1> QED BY <1>1, <1>2 DEF FrameSound, Fresh

LEMMA DispatchIs ==
  ASSUME NEW s \in T!Signals, NEW t \in T!Types
  PROVE  LET f == T!Dispatch(s, t) IN
         /\ f \in FrameType /\ f.op = "dispatch" /\ f.sig = s /\ f.type = t /\ f.queue = <<>> /\ f.at = "begin"
         /\ Elements(f.queue) = {} /\ Fresh(f)
<1>1. PICK f : f = T!Dispatch(s, t)
  OBVIOUS
<1>2. PICK q \in Seq(ListenerType) : q = <<>>
  <2>1. <<>> \in Seq(ListenerType)
    OBVIOUS
  <2> QED BY <2>1
<1>3. f = [op |-> "dispatch", sig |-> s, type |-> t, queue |-> q, at |-> "begin"]
  BY <1>1, <1>2 DEF T!Dispatch, T!Frame
<1>4. s \in Nat
  BY TgNumbers
<1>5. f \in FrameType /\ f.op = "dispatch" /\ f.sig = s /\ f.type = t /\ f.queue = q /\ f.at = "begin"
  BY <1>3, <1>4 DEF FrameType
<1>6. Elements(q) = {}
  <2>1. 1..Len(q) = {}
    BY <1>2
  <2> QED BY <2>1 DEF Elements
<1> QED BY <1>1, <1>2, <1>5, <1>6 DEF Fresh

\* What happens to signals, and to a waitOne() from under the frames up to n on, that does
\* not matter for frames that are sound.
WaitGoesOn(u, v, n) ==
  \/ v = u
  \/ v.sig = u.sig /\ v.types = u.types /\ u.st # "unused" /\ v.st \notin {"unused", "pending"}
  \/ u.st = "unused" /\ v.depth >= n
SignalsGoOn(so, ab, re, gi, so2, ab2, re2, gi2) ==
  /\ \A s \in T!Signals : ab[s] => ab2[s]
  /\ \A s \in PlainSignals : re[s] \in gi[s] => re2[s] \in gi2[s]
  /\ \A d \in DerivedSignals : Behind(d, so, ab, re, gi) => Behind(d, so2, ab2, re2, gi2)

LEMMA FramePersists ==
  ASSUME NEW wa, NEW so, NEW ab, NEW re, NEW gi, NEW wa2, NEW so2, NEW ab2, NEW re2, NEW gi2,
         wa2 \in [Waiters -> WaitType],
         NEW n \in Nat, \A w \in Waiters : WaitGoesOn(wa[w], wa2[w], n),
         SignalsGoOn(so, ab, re, gi, so2, ab2, re2, gi2),
         NEW i \in 1..n, NEW f, FrameSound(f, i, wa, so, ab, re, gi)
  PROVE  FrameSound(f, i, wa2, so2, ab2, re2, gi2)
<1> SUFFICES ASSUME f.op = "dispatch" PROVE FrameSound(f, i, wa2, so2, ab2, re2, gi2)
  BY DEF FrameSound
<1>1. /\ f.sig \in T!Signals /\ f.type \in T!Types /\ (f.at = "begin" => f.queue = <<>>)
      /\ \A l \in Elements(f.queue) : l.kind = "wait" => l.of \in Waiters
  BY DEF FrameSound
<1>2. ASSUME NEW w \in Waiters, WaitHandler(w) \in Elements(f.queue)
      PROVE  wa2[w].st # "unused" /\ f.type \in wa2[w].types
  <2>1. wa[w].st # "unused" /\ f.type \in wa[w].types
    BY <1>2 DEF FrameSound
  <2> QED BY <2>1 DEF WaitGoesOn
<1>3. ASSUME f.at = "calls", NEW w \in Waiters, wa2[w].st = "pending", wa2[w].sig = f.sig,
             f.type \in wa2[w].types, wa2[w].depth < i
      PROVE  WaitHandler(w) \in Elements(f.queue)
  <2>1. wa2[w] = wa[w]
    <3>1. wa2[w].depth \in Nat
      <4>1. wa2[w] \in WaitType
        OBVIOUS
      <4> QED BY <4>1 DEF WaitType
    <3>2. ~(wa2[w].depth >= n)
      BY <3>1, <1>3
    <3> QED BY <3>2, <1>3 DEF WaitGoesOn
  <2> QED BY <2>1, <1>3 DEF FrameSound
<1>4. ASSUME f.type = "abort"
      PROVE  /\ f.at # "begin" => ab2[f.sig]
             /\ f.sig \in PlainSignals => re2[f.sig] \in gi2[f.sig]
             /\ f.sig \in DerivedSignals => Behind(f.sig, so2, ab2, re2, gi2)
  <2>1. /\ f.at # "begin" => ab[f.sig]
        /\ f.sig \in PlainSignals => re[f.sig] \in gi[f.sig]
        /\ f.sig \in DerivedSignals => Behind(f.sig, so, ab, re, gi)
    BY <1>4 DEF FrameSound
  <2> QED BY <2>1, <1>1 DEF SignalsGoOn
<1> QED BY <1>1, <1>2, <1>3, <1>4 DEF FrameSound

LEMMA StackPersists ==
  ASSUME NEW st, NEW wa, NEW so, NEW ab, NEW re, NEW gi, NEW wa2, NEW so2, NEW ab2, NEW re2, NEW gi2,
         StackSound(st, wa, so, ab, re, gi), wa2 \in [Waiters -> WaitType],
         \A w \in Waiters : WaitGoesOn(wa[w], wa2[w], Len(st)),
         SignalsGoOn(so, ab, re, gi, so2, ab2, re2, gi2)
  PROVE  StackSound(st, wa2, so2, ab2, re2, gi2)
<1>1. st \in Seq(FrameType) /\ Len(st) \in Nat
  BY StackGiven
<1>2. ASSUME NEW i \in 1..Len(st) PROVE FrameSound(st[i], i, wa2, so2, ab2, re2, gi2)
  <2>1. FrameSound(st[i], i, wa, so, ab, re, gi)
    BY StackGiven
  <2>2. PICK n \in Nat : n = Len(st)
    BY <1>1
  <2>3. i \in 1..n /\ \A w \in Waiters : WaitGoesOn(wa[w], wa2[w], n)
    BY <2>2
  <2> QED BY <2>1, <2>2, <2>3, FramePersists
<1> QED BY <1>1, <1>2 DEF StackSound

\* Derived signals of which nothing is told and nothing changes.
LEMMA AnyPersists ==
  ASSUME NEW d, NEW ls, NEW so, NEW ab, NEW st, AnySound(d, ls, so, ab, st),
         NEW ls2, NEW so2, NEW ab2, NEW st2, so2[d] = so[d],
         \A k \in Places : Stands(ls2, k, AnyHandler(d)) <=> Stands(ls, k, AnyHandler(d)),
         Aborts(d, ab2, st2) <=> Aborts(d, ab, st)
  PROVE  AnySound(d, ls2, so2, ab2, st2)
<1>1. PICK u \in 0..Len(so[d]) :
        /\ \A k \in Places : Stands(ls, k, AnyHandler(d)) <=> k[2] = "abort" /\ \E i \in 1..u : so[d][i] = k[1]
        /\ Aborts(d, ab, st) <=> u # Len(so[d])
  BY DEF AnySound
<1>2. \A k \in Places : Stands(ls2, k, AnyHandler(d)) <=> k[2] = "abort" /\ \E i \in 1..u : so2[d][i] = k[1]
  BY <1>1
<1>3. u \in 0..Len(so2[d]) /\ (Aborts(d, ab2, st2) <=> u # Len(so2[d]))
  BY <1>1
<1> QED BY <1>2, <1>3 DEF AnySound

-----------------------------------------------------------------------------
LEMMA TgGiven ==
  ASSUME TgInv
  PROVE  /\ TgTypes /\ Waiting(listeners, waits)
         /\ Deriving(listeners, sources, signalled, reason, given, stack) /\ Plain(signalled, reason, given)
         /\ StackSound(stack, waits, sources, signalled, reason, given) /\ Prompt(stack, thrown)
         /\ stack \in Seq(FrameType) /\ Len(stack) \in Nat
BY StackGiven DEF TgInv

LEMMA TopIs ==
  ASSUME TgInv, stack # <<>>
  PROVE  /\ Len(stack) \in 1..Len(stack) /\ T!Last(stack) = stack[Len(stack)]
         /\ T!Front(stack) = SubSeq(stack, 1, Len(stack) - 1)
<1>1. stack \in Seq(FrameType)
  BY TgGiven
<1>2. Len(stack) \in 1..Len(stack)
  BY <1>1
<1> QED BY <1>2 DEF T!Last, T!Front

\* The program runs: nothing was thrown, and every dispatch on the stack has begun.
LEMMA RunsIs ==
  ASSUME TgInv, T!Runs
  PROVE  ~thrown /\ Calm(stack)
<1>1. ~thrown
  BY DEF T!Runs
<1>2. ASSUME NEW i \in 1..Len(stack), Fresh(stack[i]) PROVE FALSE
  <2>1. i = Len(stack) /\ stack # <<>>
    BY <1>2, TgGiven DEF Prompt
  <2>2. T!Last(stack).op = "user"
    BY <2>1 DEF T!Runs
  <2>3. stack[i].op = "user"
    BY <2>1, <2>2, TopIs
  <2> QED BY <1>2, <2>3 DEF Fresh
<1> QED BY <1>1, <1>2 DEF Calm

LEMMA EventCalledIs ==
  ASSUME TgInv, T!Called
  PROVE  ~thrown /\ thrown' = FALSE /\ Calm(stack) /\ eventCalls' \in Nat /\ eventCalls' = eventCalls + 1
<1>1. T!Runs /\ eventCalls' = eventCalls + 1 /\ thrown' = thrown
  BY DEF T!Called
<1>2. ~thrown /\ Calm(stack)
  BY <1>1, RunsIs
<1>3. eventCalls \in Nat /\ thrown \in BOOLEAN
  BY TgGiven DEF TgTypes
<1> QED BY <1>1, <1>2, <1>3

\* Steps that move no handler of waitOne() and any() and leave the signals alone.
LEMMA HandlersStay ==
  ASSUME TgInv,
         listeners' \in [Places -> Seq(ListenerType)],
         \A k \in Places : \A l \in ListenerType : l # T!User => (Stands(listeners', k, l) <=> Stands(listeners, k, l)),
         UNCHANGED <<signalled, reason, sources, waits, given>>,
         thrown' \in BOOLEAN, eventCalls' \in Nat,
         StackSound(stack', waits, sources, signalled, reason, given), Prompt(stack', thrown'),
         \A d \in DerivedSignals : Aborts(d, signalled, stack') <=> Aborts(d, signalled, stack)
  PROVE  TgInv'
<1>1. /\ signalled' = signalled /\ reason' = reason /\ sources' = sources /\ waits' = waits /\ given' = given
  OBVIOUS
<1>2. TgTypes'
  <2>1. ASSUME NEW k \in Places, NEW l \in Elements(listeners'[k]), l.kind = "wait" PROVE l.of \in Waiters
    <3>1. l \in ListenerType
      <4>1. listeners'[k] \in Seq(ListenerType)
        OBVIOUS
      <4> QED BY <4>1 DEF Elements
    <3>2. l # T!User
      BY <2>1, Handlers3
    <3>3. l \in Elements(listeners[k])
      BY <3>1, <3>2 DEF Stands
    <3> QED BY <2>1, <3>3, TgGiven DEF TgTypes
  <2>2. TgTypes
    BY TgGiven
  <2> QED BY <1>1, <2>1, <2>2 DEF TgTypes
<1>3. Waiting(listeners', waits')
  <2>1. ASSUME NEW w \in Waiters PROVE WaitSound(w, waits[w], listeners')
    <3>1. WaitHandler(w) \in ListenerType /\ WaitHandler(w) # T!User
      BY Handlers3
    <3>2. \A k \in Places : Stands(listeners', k, WaitHandler(w)) <=> Stands(listeners, k, WaitHandler(w))
      BY <3>1
    <3>3. WaitSound(w, waits[w], listeners)
      BY TgGiven DEF Waiting
    <3> QED BY <3>2, <3>3 DEF WaitSound
  <2> QED BY <1>1, <2>1 DEF Waiting
<1>4. Deriving(listeners', sources', signalled', reason', given', stack')
  <2>1. ASSUME NEW d \in DerivedSignals
        PROVE  Distinct(sources[d]) /\ AnySound(d, listeners', sources, signalled, stack')
               /\ (signalled[d] => Behind(d, sources, signalled, reason, given))
    <3>1. AnyHandler(d) \in ListenerType /\ AnyHandler(d) # T!User
      BY Handlers3
    <3>2. \A k \in Places : Stands(listeners', k, AnyHandler(d)) <=> Stands(listeners, k, AnyHandler(d))
      BY <3>1
    <3>3. /\ Distinct(sources[d]) /\ AnySound(d, listeners, sources, signalled, stack)
          /\ (signalled[d] => Behind(d, sources, signalled, reason, given))
      BY TgGiven DEF Deriving
    <3>4. Aborts(d, signalled, stack') <=> Aborts(d, signalled, stack)
      OBVIOUS
    <3>5. AnySound(d, listeners', sources, signalled, stack')
      BY <3>2, <3>3, <3>4, AnyPersists
    <3> QED BY <3>3, <3>5
  <2> QED BY <1>1, <2>1 DEF Deriving
<1>5. Plain(signalled', reason', given')
  BY <1>1, TgGiven
<1>6. StackSound(stack', waits', sources', signalled', reason', given')
  BY <1>1
<1> QED BY <1>2, <1>3, <1>4, <1>5, <1>6 DEF TgInv

LEMMA ListenersType == ASSUME TgInv PROVE listeners \in [Places -> Seq(ListenerType)] /\ eventCalls \in Nat /\ thrown \in BOOLEAN
BY TgGiven DEF TgTypes

\* addEventListener() and removeEventListener().
LEMMA ListensKeeps ==
  ASSUME TgInv, T!Called, NEW s \in T!Signals, NEW t \in T!Types,
         T!addEventListener(s, t) \/ T!removeEventListener(s, t)
  PROVE  TgInv'
<1>1. /\ UNCHANGED <<signalled, reason, sources, waits, given>> /\ stack' = stack
      /\ listeners' = T!With(listeners, {s}, {t}, T!User) \/ listeners' = T!Without(listeners, {s}, {t}, T!User)
  BY DEF T!addEventListener, T!removeEventListener
<1>2. /\ listeners' \in [Places -> Seq(ListenerType)]
      /\ \A k \in Places : \A l \in ListenerType : l # T!User => (Stands(listeners', k, l) <=> Stands(listeners, k, l))
  <2>1. listeners \in [Places -> Seq(ListenerType)] /\ T!User \in ListenerType
    BY ListenersType, Handlers3
  <2>2. CASE listeners' = T!With(listeners, {s}, {t}, T!User)
    <3>1. PICK ls2 : ls2 = T!With(listeners, {s}, {t}, T!User)
      OBVIOUS
    <3>2. /\ ls2 \in [Places -> Seq(ListenerType)]
          /\ \A k \in Places : \A m :
               Stands(ls2, k, m) <=> Stands(listeners, k, m) \/ (m = T!User /\ k[1] \in {s} /\ k[2] \in {t})
      BY <2>1, <3>1, WithStands
    <3> QED BY <2>2, <3>1, <3>2
  <2>3. CASE listeners' = T!Without(listeners, {s}, {t}, T!User)
    <3>1. PICK sigs : sigs = {s}
      OBVIOUS
    <3>2. PICK types : types = {t}
      OBVIOUS
    <3>3. PICK ls2 : ls2 = T!Without(listeners, sigs, types, T!User)
      OBVIOUS
    <3>4. /\ ls2 \in [Places -> Seq(ListenerType)]
          /\ \A k \in Places : \A m :
               Stands(ls2, k, m) <=> Stands(listeners, k, m) /\ ~(m = T!User /\ k[1] \in sigs /\ k[2] \in types)
      BY <2>1, <3>3, WithoutStands
    <3>5. ls2 = listeners'
      BY <2>3, <3>1, <3>2, <3>3
    <3> QED BY <3>4, <3>5
  <2> QED BY <1>1, <2>2, <2>3
<1>3. /\ thrown' = FALSE /\ eventCalls' \in Nat /\ Calm(stack) /\ StackSound(stack, waits, sources, signalled, reason, given)
  BY EventCalledIs, TgGiven
<1>4. Prompt(stack', thrown') /\ StackSound(stack', waits, sources, signalled, reason, given) /\ thrown' \in BOOLEAN
  BY <1>1, <1>3, CalmPrompt
<1>5. \A d \in DerivedSignals : Aborts(d, signalled, stack') <=> Aborts(d, signalled, stack)
  BY <1>1
<1> QED BY <1>1, <1>2, <1>3, <1>4, <1>5, HandlersStay

\* Steps that leave the listeners alone too.
LEMMA OnlyStack ==
  ASSUME TgInv, UNCHANGED <<listeners, signalled, reason, sources, waits, given>>,
         thrown' \in BOOLEAN, eventCalls' \in Nat,
         StackSound(stack', waits, sources, signalled, reason, given), Prompt(stack', thrown'), Calm(stack),
         Calm(stack') \/ (\A d \in DerivedSignals : T!Dispatch(d, "abort") \notin Elements(stack'))
  PROVE  TgInv'
<1>1. listeners' \in [Places -> Seq(ListenerType)]
  BY ListenersType
<1>2. \A k \in Places : \A l \in ListenerType : l # T!User => (Stands(listeners', k, l) <=> Stands(listeners, k, l))
  OBVIOUS
<1>3. ASSUME NEW d \in DerivedSignals PROVE Aborts(d, signalled, stack') <=> Aborts(d, signalled, stack)
  <2>1. T!Dispatch(d, "abort") \notin Elements(stack) /\ T!Dispatch(d, "abort") \notin Elements(stack')
    BY CalmPrompt
  <2> QED BY <2>1 DEF Aborts
<1> QED BY <1>1, <1>2, <1>3, HandlersStay

LEMMA SetOnabortKeeps ==
  ASSUME TgInv, T!Called, NEW s \in T!Signals, T!SetOnabort(s)
  PROVE  TgInv'
<1>1. UNCHANGED <<listeners, signalled, reason, sources, waits, given>> /\ stack' = stack
  BY DEF T!SetOnabort
<1>2. /\ thrown' = FALSE /\ eventCalls' \in Nat /\ Calm(stack) /\ StackSound(stack, waits, sources, signalled, reason, given)
  BY EventCalledIs, TgGiven
<1>3. /\ Prompt(stack', thrown') /\ StackSound(stack', waits, sources, signalled, reason, given) /\ thrown' \in BOOLEAN
      /\ Calm(stack')
  BY <1>1, <1>2, CalmPrompt
<1> QED BY <1>1, <1>2, <1>3, OnlyStack

\* A dispatch of something else than "abort".
LEMMA FireKeeps ==
  ASSUME TgInv, T!Called, NEW s \in T!Signals, T!Fire(s)
  PROVE  TgInv'
<1>1. UNCHANGED <<listeners, signalled, reason, sources, waits, given>> /\ stack' = Append(stack, T!Dispatch(s, "ping"))
  BY DEF T!Fire
<1>2. /\ thrown' = FALSE /\ eventCalls' \in Nat /\ Calm(stack) /\ StackSound(stack, waits, sources, signalled, reason, given)
  BY EventCalledIs, TgGiven
<1>3. PICK f : f = T!Dispatch(s, "ping")
  OBVIOUS
<1>4. "ping" \in T!Types /\ "abort" # "ping" /\ "begin" # "calls"
  BY DEF T!Types
<1>5. /\ f \in FrameType /\ f.op = "dispatch" /\ f.sig = s /\ f.type = "ping" /\ f.at = "begin" /\ Elements(f.queue) = {} /\ f.queue = <<>>
      /\ Fresh(f)
  BY <1>3, <1>4, DispatchIs
<1>6. PICK n \in Nat : n = Len(stack) + 1
  BY TgGiven
<1>7. FrameSound(f, n, waits, sources, signalled, reason, given)
  BY <1>4, <1>5 DEF FrameSound
<1>8. Pushed(stack, f, n, stack')
  BY <1>1, <1>3, <1>6 DEF Pushed
<1>9. /\ StackSound(stack', waits, sources, signalled, reason, given) /\ Latest(stack')
      /\ Elements(stack') = Elements(stack) \union {f}
  BY <1>2, <1>5, <1>7, <1>8, StackPush
<1>10. Prompt(stack', thrown') /\ thrown' \in BOOLEAN
  BY <1>2, <1>9 DEF Prompt, Latest
<1>11. ASSUME NEW d \in DerivedSignals PROVE T!Dispatch(d, "abort") \notin Elements(stack')
  <2>1. T!Dispatch(d, "abort").type = "abort"
    BY DEF T!Dispatch, T!Frame
  <2>2. T!Dispatch(d, "abort") # f
    BY <2>1, <1>4, <1>5
  <2> QED BY <2>2, <1>2, <1>9, CalmPrompt
<1> QED BY <1>1, <1>2, <1>9, <1>10, <1>11, OnlyStack

\* The program's functions end.
LEMMA ReturnKeeps ==
  ASSUME TgInv, T!Return
  PROVE  TgInv'
<1>1. /\ UNCHANGED <<listeners, signalled, reason, sources, waits, given>> /\ eventCalls' = eventCalls
      /\ stack # <<>> /\ stack' = T!Front(stack) /\ thrown' \in BOOLEAN /\ T!Runs
  BY DEF T!Return
<1>2. Calm(stack)
  BY <1>1, RunsIs
<1>3. stack' = SubSeq(stack, 1, Len(stack) - 1)
  BY <1>1, TopIs
<1>4. StackSound(stack', waits, sources, signalled, reason, given) /\ Calm(stack')
  BY <1>1, <1>3, TgGiven, StackPop
<1>5. Prompt(stack', thrown') /\ eventCalls' \in Nat
  BY <1>1, <1>4, CalmPrompt, ListenersType
<1> QED BY <1>1, <1>2, <1>4, <1>5, OnlyStack

LEMMA UnwindKeeps ==
  ASSUME TgInv, T!Unwind
  PROVE  TgInv'
<1>1. UNCHANGED <<listeners, signalled, reason, sources, waits, given>> /\ eventCalls' = eventCalls /\ thrown
  BY DEF T!Unwind
<1>2. Calm(stack) /\ StackSound(stack, waits, sources, signalled, reason, given) /\ eventCalls' \in Nat
  BY <1>1, TgGiven, ListenersType DEF Calm, Prompt
<1>3. CASE stack # <<>> /\ stack' = T!Front(stack) /\ thrown' = thrown
  <2>1. stack' = SubSeq(stack, 1, Len(stack) - 1)
    BY <1>3, TopIs
  <2>2. StackSound(stack', waits, sources, signalled, reason, given) /\ Calm(stack')
    BY <1>3, <2>1, TgGiven, StackPop
  <2>3. Prompt(stack', thrown') /\ thrown' \in BOOLEAN
    BY <1>3, <2>2, CalmPrompt, ListenersType
  <2> QED BY <1>1, <1>2, <2>2, <2>3, OnlyStack
<1>4. CASE thrown' = FALSE /\ stack' = stack
  <2>1. /\ StackSound(stack', waits, sources, signalled, reason, given) /\ Prompt(stack', thrown') /\ thrown' \in BOOLEAN
        /\ Calm(stack')
    BY <1>2, <1>4, CalmPrompt
  <2> QED BY <1>1, <1>2, <2>1, OnlyStack
<1> QED BY <1>3, <1>4 DEF T!Unwind

-----------------------------------------------------------------------------
\* The variables of signals.
LEMMA SignalTypes ==
  ASSUME TgInv
  PROVE  /\ signalled \in [T!Signals -> BOOLEAN] /\ reason \in [T!Signals -> Nat]
         /\ given \in [PlainSignals -> SUBSET Nat] /\ sources \in [DerivedSignals -> Seq(PlainSignals)]
         /\ waits \in [Waiters -> WaitType] /\ listeners \in [Places -> Seq(ListenerType)]
         /\ \A k \in Places : \A l \in Elements(listeners[k]) : l.kind = "wait" => l.of \in Waiters
         /\ \A d \in DerivedSignals : \A j \in 1..Len(sources[d]) : sources[d][j] \in PlainSignals
<1>1. TgTypes
  BY TgGiven
<1>2. ASSUME NEW d \in DerivedSignals, NEW j \in 1..Len(sources[d]) PROVE sources[d][j] \in PlainSignals
  <2>1. sources[d] \in Seq(PlainSignals)
    BY <1>1 DEF TgTypes
  <2> QED BY <2>1
<1> QED BY <1>1, <1>2 DEF TgTypes

LEMMA AbortKeeps ==
  ASSUME TgInv, T!Called, NEW s \in PlainSignals, T!abort(s)
  PROVE  TgInv'
<1>1. /\ listeners' = listeners /\ signalled' = signalled /\ sources' = sources /\ waits' = waits
      /\ reason' = [reason EXCEPT ![s] = eventCalls + 1]
      /\ given' = [given EXCEPT ![s] = @ \union {eventCalls + 1}]
      /\ stack' = Append(stack, T!Dispatch(s, "abort"))
  BY DEF T!abort
<1>2. thrown' = FALSE /\ eventCalls' \in Nat /\ Calm(stack) /\ StackSound(stack, waits, sources, signalled, reason, given)
  BY EventCalledIs, TgGiven
<1>3. PICK c \in Nat : c = eventCalls + 1
  BY ListenersType
<1>4. s \in T!Signals /\ s \notin DerivedSignals /\ PlainSignals \subseteq T!Signals /\ DerivedSignals \subseteq T!Signals
  BY TgNumbers
<1>5. /\ reason' \in [T!Signals -> Nat] /\ given' \in [PlainSignals -> SUBSET Nat]
      /\ reason'[s] \in given'[s]
      /\ \A r \in T!Signals : r # s => reason'[r] = reason[r]
      /\ \A p \in PlainSignals : given[p] \subseteq given'[p] /\ (p # s => given'[p] = given[p])
  <2>1. reason' = [reason EXCEPT ![s] = c] /\ given' = [given EXCEPT ![s] = @ \union {c}]
    BY <1>1, <1>3
  <2>2. reason \in [T!Signals -> Nat] /\ given \in [PlainSignals -> SUBSET Nat]
    BY SignalTypes
  <2>3. reason' \in [T!Signals -> Nat] /\ reason'[s] = c /\ \A r \in T!Signals : r # s => reason'[r] = reason[r]
    BY <2>1, <2>2, <1>4
  <2>4. /\ given' \in [PlainSignals -> SUBSET Nat] /\ given'[s] = given[s] \union {c}
        /\ \A p \in PlainSignals : p # s => given'[p] = given[p]
    BY <2>1, <2>2
  <2>5. \A p \in PlainSignals : given[p] \subseteq given'[p]
    BY <2>4
  <2> QED BY <2>3, <2>4, <2>5
<1>6. ASSUME NEW d \in DerivedSignals, Behind(d, sources, signalled, reason, given)
      PROVE  Behind(d, sources, signalled, reason', given')
  <2>1. PICK j \in 1..Len(sources[d]) : signalled[sources[d][j]] /\ reason[d] \in given[sources[d][j]]
    BY <1>6 DEF Behind
  <2>2. sources[d][j] \in PlainSignals
    BY SignalTypes
  <2>3. reason'[d] = reason[d]
    BY <1>4, <1>5
  <2> QED BY <2>1, <2>2, <2>3, <1>5 DEF Behind
<1>7. \A p \in PlainSignals : reason[p] \in given[p] => reason'[p] \in given'[p]
  BY <1>4, <1>5
<1>8. SignalsGoOn(sources, signalled, reason, given, sources, signalled, reason', given')
  BY <1>6, <1>7 DEF SignalsGoOn
<1>9. \A w \in Waiters : WaitGoesOn(waits[w], waits[w], Len(stack))
  BY DEF WaitGoesOn
<1>10. StackSound(stack, waits, sources, signalled, reason', given')
  BY <1>2, <1>8, <1>9, SignalTypes, StackPersists
<1>11. PICK f : f = T!Dispatch(s, "abort")
  OBVIOUS
<1>12. "abort" \in T!Types /\ "begin" # "calls"
  BY DEF T!Types
<1>13. /\ f \in FrameType /\ f.op = "dispatch" /\ f.sig = s /\ f.type = "abort" /\ f.at = "begin"
       /\ Elements(f.queue) = {} /\ f.queue = <<>>
  BY <1>4, <1>11, <1>12, DispatchIs
<1>14. PICK n : n = Len(stack) + 1
  OBVIOUS
<1>15. FrameSound(f, n, waits, sources, signalled, reason', given')
  BY <1>4, <1>5, <1>12, <1>13 DEF FrameSound
<1>16. Pushed(stack, f, n, stack')
  BY <1>1, <1>11, <1>14 DEF Pushed
<1>17. /\ StackSound(stack', waits, sources, signalled, reason', given') /\ Latest(stack')
       /\ Elements(stack') = Elements(stack) \union {f}
  BY <1>2, <1>10, <1>13, <1>15, <1>16, StackPush
<1>18. Prompt(stack', thrown') /\ thrown' \in BOOLEAN
  BY <1>2, <1>17 DEF Prompt, Latest
<1>19. Deriving(listeners, sources, signalled, reason', given', stack')
  <2>1. ASSUME NEW d \in DerivedSignals
        PROVE  Distinct(sources[d]) /\ AnySound(d, listeners, sources, signalled, stack')
               /\ (signalled[d] => Behind(d, sources, signalled, reason', given'))
    <3>1. /\ Distinct(sources[d]) /\ AnySound(d, listeners, sources, signalled, stack)
          /\ (signalled[d] => Behind(d, sources, signalled, reason, given))
      BY TgGiven DEF Deriving
    <3>2. Aborts(d, signalled, stack') <=> Aborts(d, signalled, stack)
      <4>1. T!Dispatch(d, "abort").sig = d
        BY DEF T!Dispatch, T!Frame
      <4>2. T!Dispatch(d, "abort") # f
        BY <4>1, <1>4, <1>13
      <4> QED BY <4>2, <1>17 DEF Aborts
    <3>3. AnySound(d, listeners, sources, signalled, stack')
      BY <3>1, <3>2, AnyPersists
    <3> QED BY <3>1, <3>3, <1>6
  <2> QED BY <2>1 DEF Deriving
<1>20. Plain(signalled, reason', given')
  BY <1>7, TgGiven DEF Plain
<1>21. TgTypes'
  BY <1>1, <1>2, <1>5, <1>18, SignalTypes DEF TgTypes
<1>22. Waiting(listeners', waits')
  BY <1>1, TgGiven
<1> QED BY <1>1, <1>17, <1>18, <1>19, <1>20, <1>21, <1>22 DEF TgInv

LEMMA WaitOneKeeps ==
  ASSUME TgInv, T!Called, NEW w \in Waiters, NEW s \in T!Signals, NEW types \in SUBSET T!Types, T!waitOne(w, s, types)
  PROVE  TgInv'
<1>1. PICK h : h = WaitHandler(w)
  OBVIOUS
<1>2. PICK u : u = [sig |-> s, types |-> types, depth |-> Len(stack), st |-> "pending"]
  OBVIOUS
<1>3. /\ signalled' = signalled /\ sources' = sources /\ reason' = reason /\ given' = given /\ stack' = stack
      /\ waits[w].st = "unused" /\ waits' = [waits EXCEPT ![w] = u]
      /\ listeners' = T!With(listeners, {s}, types, h)
  BY <1>1, <1>2 DEF T!waitOne, WaitHandler
<1>4. thrown' = FALSE /\ eventCalls' \in Nat /\ Calm(stack) /\ StackSound(stack, waits, sources, signalled, reason, given)
  BY EventCalledIs, TgGiven
<1>5. u \in WaitType /\ u.sig = s /\ u.types = types /\ u.depth = Len(stack) /\ u.st = "pending"
  <2>1. s \in Nat /\ Len(stack) \in Nat
    BY TgNumbers, TgGiven
  <2> QED BY <2>1, <1>2 DEF WaitType
<1>6. waits' \in [Waiters -> WaitType] /\ waits'[w] = u /\ \A v \in Waiters : v # w => waits'[v] = waits[v]
  BY <1>3, <1>5, SignalTypes
<1>7. PICK sigs : sigs = {s}
  OBVIOUS
<1>8. PICK ls2 : ls2 = T!With(listeners, sigs, types, h)
  OBVIOUS
<1>9. h \in ListenerType /\ h.kind = "wait" /\ h.of = w
  BY <1>1, Handlers3
<1>10. /\ ls2 \in [Places -> Seq(ListenerType)]
       /\ \A k \in Places : \A m : Stands(ls2, k, m) <=> Stands(listeners, k, m) \/ (m = h /\ k[1] \in sigs /\ k[2] \in types)
  BY <1>8, <1>9, SignalTypes, WithStands
<1>11. listeners' = ls2
  BY <1>3, <1>7, <1>8
<1>12. Waiting(ls2, waits')
  <2>1. ASSUME NEW v \in Waiters PROVE WaitSound(v, waits'[v], ls2)
    <3>1. WaitSound(v, waits[v], listeners)
      BY TgGiven DEF Waiting
    <3>2. CASE v = w
      <4>1. \A k \in Places : Stands(ls2, k, h) <=> k[1] \in sigs /\ k[2] \in types
        BY <3>1, <3>2, <1>1, <1>3, <1>10 DEF WaitSound
      <4> QED BY <4>1, <3>2, <1>1, <1>5, <1>6, <1>7 DEF WaitSound
    <3>3. CASE v # w
      <4>1. WaitHandler(v) # h
        BY <3>3, <1>1, Handlers3
      <4>2. \A k \in Places : Stands(ls2, k, WaitHandler(v)) <=> Stands(listeners, k, WaitHandler(v))
        BY <4>1, <1>10
      <4> QED BY <4>2, <3>1, <3>3, <1>6 DEF WaitSound
    <3> QED BY <3>2, <3>3
  <2> QED BY <2>1 DEF Waiting
<1>13. Deriving(ls2, sources, signalled, reason, given, stack)
  <2>1. ASSUME NEW d \in DerivedSignals
        PROVE  Distinct(sources[d]) /\ AnySound(d, ls2, sources, signalled, stack)
               /\ (signalled[d] => Behind(d, sources, signalled, reason, given))
    <3>1. /\ Distinct(sources[d]) /\ AnySound(d, listeners, sources, signalled, stack)
          /\ (signalled[d] => Behind(d, sources, signalled, reason, given))
      BY TgGiven DEF Deriving
    <3>2. AnyHandler(d) # h
      BY <1>1, Handlers3
    <3>3. \A k \in Places : Stands(ls2, k, AnyHandler(d)) <=> Stands(listeners, k, AnyHandler(d))
      BY <3>2, <1>10
    <3>4. AnySound(d, ls2, sources, signalled, stack)
      BY <3>1, <3>3, AnyPersists
    <3> QED BY <3>1, <3>4
  <2> QED BY <2>1 DEF Deriving
<1>14. StackSound(stack, waits', sources, signalled, reason, given)
  <2>1. ASSUME NEW v \in Waiters PROVE WaitGoesOn(waits[v], waits'[v], Len(stack))
    <3>1. Len(stack) >= Len(stack)
      BY TgGiven
    <3> QED BY <3>1, <1>3, <1>5, <1>6 DEF WaitGoesOn
  <2>2. SignalsGoOn(sources, signalled, reason, given, sources, signalled, reason, given)
    BY DEF SignalsGoOn
  <2> QED BY <2>1, <2>2, <1>4, <1>6, StackPersists
<1>15. Prompt(stack, thrown') /\ thrown' \in BOOLEAN
  BY <1>4, CalmPrompt
<1>16. ASSUME NEW k \in Places, NEW l \in Elements(ls2[k]), l.kind = "wait" PROVE l.of \in Waiters
  <2>1. Stands(listeners, k, l) \/ l = h
    BY <1>10 DEF Stands
  <2> QED BY <2>1, <1>9, <1>16, SignalTypes DEF Stands
<1>17. TgTypes'
  BY <1>3, <1>4, <1>6, <1>10, <1>11, <1>15, <1>16, SignalTypes DEF TgTypes
<1>18. Plain(signalled, reason, given)
  BY TgGiven
<1> QED BY <1>3, <1>11, <1>12, <1>13, <1>14, <1>15, <1>17, <1>18 DEF TgInv

-----------------------------------------------------------------------------
\* What any() is given, and how far it goes through it.
LEMMA SourceListIs ==
  ASSUME NEW sigs \in T!SourceLists
  PROVE  /\ sigs \in Seq(PlainSignals) /\ Distinct(sigs) /\ Len(sigs) \in Nat
         /\ DOMAIN sigs = 1..Len(sigs) /\ \A i \in 1..Len(sigs) : sigs[i] \in PlainSignals
<1>1. PICK n \in 1..2 : sigs \in [1..n -> PlainSignals] /\ T!IsInjective(sigs)
  BY DEF T!SourceLists
<1>2. sigs \in Seq(PlainSignals) /\ Len(sigs) = n
  BY <1>1
<1>3. \A i \in 1..n : \A j \in 1..n : sigs[i] = sigs[j] => i = j
  BY <1>1 DEF T!IsInjective
<1> QED BY <1>1, <1>2, <1>3 DEF Distinct

LEMMA AddsUntilIs ==
  ASSUME NEW sigs \in T!SourceLists
  PROVE  /\ T!AddsUntil(sigs) \in 0..Len(sigs)
         /\ T!AddsUntil(sigs) < Len(sigs) => signalled[sigs[T!AddsUntil(sigs) + 1]]
<1>1. DOMAIN sigs = 1..Len(sigs) /\ Len(sigs) \in Nat
  BY SourceListIs
<1>2. PICK known \in SUBSET Nat : known = {i \in DOMAIN sigs : signalled[sigs[i]]}
  <2>1. {i \in DOMAIN sigs : signalled[sigs[i]]} \in SUBSET Nat
    BY <1>1
  <2> QED BY <2>1
<1>3. T!AddsUntil(sigs) = IF known = {} THEN Len(sigs) ELSE T!Min(known) - 1
  BY <1>2 DEF T!AddsUntil
<1>4. CASE known = {}
  BY <1>1, <1>3, <1>4
<1>5. CASE known # {}
  <2>1. \E m \in known : \A k \in known : m <= k
    BY <1>5, LeastElement
  <2>2. PICK m : m = T!Min(known)
    OBVIOUS
  <2>3. m \in known
    <3>1. m = CHOOSE x \in known : \A y \in known : x =< y
      BY <2>2 DEF T!Min
    <3> QED BY <2>1, <3>1
  <2>4. m \in 1..Len(sigs) /\ signalled[sigs[m]]
    BY <2>3, <1>1, <1>2
  <2>a. T!AddsUntil(sigs) = m - 1
    BY <2>2, <1>3, <1>5
  <2>b. PICK l \in Nat : l = Len(sigs)
    BY <1>1
  <2>c. m \in 1..l
    BY <2>4, <2>b
  <2>d. (m - 1) + 1 = m /\ m - 1 \in 0..l
    BY <2>c
  <2>5. T!AddsUntil(sigs) = m - 1 /\ (m - 1) + 1 = m /\ m - 1 \in 0..Len(sigs)
    BY <2>a, <2>b, <2>d
  <2> QED BY <2>4, <2>5
<1> QED BY <1>4, <1>5

LEMMA FirstsAre ==
  ASSUME NEW A1, NEW q \in Seq(A1), NEW u \in 0..Len(q)
  PROVE  \A x : x \in T!Range(SubSeq(q, 1, u)) <=> \E i \in 1..u : q[i] = x
<1>1. PICK z \in Seq(A1) : z = SubSeq(q, 1, u)
  <2>1. SubSeq(q, 1, u) \in Seq(A1)
    OBVIOUS
  <2> QED BY <2>1
<1>2. Len(z) = u /\ DOMAIN z = 1..u /\ \A i \in 1..u : z[i] = q[i]
  BY <1>1
<1> QED BY <1>1, <1>2 DEF T!Range

LEMMA AnyKeeps ==
  ASSUME TgInv, T!Called, NEW c \in DerivedSignals, NEW sigs \in T!SourceLists, T!any(c, sigs)
  PROVE  TgInv'
<1>1. PICK h : h = AnyHandler(c)
  OBVIOUS
<1>2. PICK u : u = T!AddsUntil(sigs)
  OBVIOUS
<1>3. /\ signalled' = signalled /\ waits' = waits /\ given' = given
      /\ sources[c] = <<>> /\ sources' = [sources EXCEPT ![c] = sigs]
      /\ listeners' = T!With(listeners, T!Range(SubSeq(sigs, 1, u)), {"abort"}, h)
      /\ u < Len(sigs) => /\ reason' = [reason EXCEPT ![c] = reason[sigs[u + 1]]]
                          /\ stack' = Append(stack, T!Dispatch(c, "abort"))
      /\ ~(u < Len(sigs)) => reason' = reason /\ stack' = stack
  BY <1>1, <1>2 DEF T!any, AnyHandler
<1>4. thrown' = FALSE /\ eventCalls' \in Nat /\ Calm(stack) /\ StackSound(stack, waits, sources, signalled, reason, given)
  BY EventCalledIs, TgGiven
<1>5. /\ sigs \in Seq(PlainSignals) /\ Distinct(sigs) /\ Len(sigs) \in Nat
      /\ \A i \in 1..Len(sigs) : sigs[i] \in PlainSignals
  BY SourceListIs
<1>6. u \in 0..Len(sigs) /\ (u < Len(sigs) => signalled[sigs[u + 1]] /\ u + 1 \in 1..Len(sigs))
  BY <1>2, <1>5, AddsUntilIs
<1>7. c \in T!Signals /\ c \notin PlainSignals /\ PlainSignals \subseteq T!Signals /\ DerivedSignals \subseteq T!Signals
  BY TgNumbers
<1>8. /\ sources' \in [DerivedSignals -> Seq(PlainSignals)] /\ sources'[c] = sigs
      /\ \A d \in DerivedSignals : d # c => sources'[d] = sources[d]
  BY <1>3, <1>5, SignalTypes
<1>9. ~Behind(c, sources, signalled, reason, given) /\ ~signalled[c]
  <2>1. 1..Len(sources[c]) = {}
    BY <1>3
  <2>2. ~Behind(c, sources, signalled, reason, given)
    BY <2>1 DEF Behind
  <2> QED BY <2>2, TgGiven DEF Deriving
<1>10. /\ reason' \in [T!Signals -> Nat] /\ \A s \in T!Signals : s # c => reason'[s] = reason[s]
       /\ u < Len(sigs) => reason'[c] = reason[sigs[u + 1]]
  <2>1. reason \in [T!Signals -> Nat]
    BY SignalTypes
  <2>2. CASE u < Len(sigs)
    <3>1. sigs[u + 1] \in T!Signals
      BY <2>2, <1>5, <1>6, <1>7
    <3>2. PICK r \in Nat : r = reason[sigs[u + 1]]
      BY <2>1, <3>1
    <3>3. reason' = [reason EXCEPT ![c] = r]
      BY <2>2, <3>2, <1>3
    <3> QED BY <2>1, <3>2, <3>3, <1>7
  <2>3. CASE ~(u < Len(sigs))
    BY <2>1, <2>3, <1>3
  <2> QED BY <2>2, <2>3
<1>11. u < Len(sigs) => Behind(c, sources', signalled, reason', given)
  <2> SUFFICES ASSUME u < Len(sigs) PROVE Behind(c, sources', signalled, reason', given)
    OBVIOUS
  <2>1. PICK j \in 1..Len(sigs) : j = u + 1
    BY <1>6
  <2>2. sigs[j] \in PlainSignals /\ signalled[sigs[j]] /\ reason'[c] = reason[sigs[j]]
    BY <2>1, <1>5, <1>6, <1>10
  <2>3. reason[sigs[j]] \in given[sigs[j]]
    BY <2>2, TgGiven DEF Plain
  <2> QED BY <2>2, <2>3, <1>8 DEF Behind
<1>12. ASSUME NEW d \in DerivedSignals, Behind(d, sources, signalled, reason, given)
       PROVE  Behind(d, sources', signalled, reason', given)
  <2>1. d # c
    BY <1>9, <1>12
  <2>2. sources'[d] = sources[d] /\ reason'[d] = reason[d]
    BY <2>1, <1>7, <1>8, <1>10
  <2> QED BY <2>2, <1>12 DEF Behind
<1>13. \A p \in PlainSignals : reason'[p] = reason[p]
  BY <1>7, <1>10
<1>14. SignalsGoOn(sources, signalled, reason, given, sources', signalled, reason', given)
  BY <1>12, <1>13 DEF SignalsGoOn
<1>15. \A w \in Waiters : WaitGoesOn(waits[w], waits[w], Len(stack))
  BY DEF WaitGoesOn
<1>16. StackSound(stack, waits, sources', signalled, reason', given)
  BY <1>4, <1>14, <1>15, SignalTypes, StackPersists
<1>17. /\ StackSound(stack', waits, sources', signalled, reason', given) /\ Latest(stack')
       /\ \A d : T!Dispatch(d, "abort") \in Elements(stack') <=> d = c /\ u < Len(sigs)
  <2>1. CASE u < Len(sigs)
    <3>1. PICK f : f = T!Dispatch(c, "abort")
      OBVIOUS
    <3>2. "abort" \in T!Types /\ "begin" # "calls"
      BY DEF T!Types
    <3>3. /\ f \in FrameType /\ f.op = "dispatch" /\ f.sig = c /\ f.type = "abort" /\ f.at = "begin"
          /\ Elements(f.queue) = {} /\ f.queue = <<>>
      BY <1>7, <3>1, <3>2, DispatchIs
    <3>4. PICK n : n = Len(stack) + 1
      OBVIOUS
    <3>5. FrameSound(f, n, waits, sources', signalled, reason', given)
      BY <2>1, <1>7, <1>11, <3>2, <3>3 DEF FrameSound
    <3>6. Pushed(stack, f, n, stack')
      BY <2>1, <1>3, <3>1, <3>4 DEF Pushed
    <3>7. /\ StackSound(stack', waits, sources', signalled, reason', given) /\ Latest(stack')
          /\ Elements(stack') = Elements(stack) \union {f}
      BY <1>4, <1>16, <3>3, <3>5, <3>6, StackPush
    <3>8. \A d : T!Dispatch(d, "abort") = f => d = c
      BY <3>1 DEF T!Dispatch, T!Frame
    <3> QED BY <2>1, <3>1, <3>7, <3>8, <1>4, CalmPrompt
  <2>2. CASE ~(u < Len(sigs))
    <3>1. stack' = stack
      BY <2>2, <1>3
    <3> QED BY <2>2, <3>1, <1>4, <1>16, CalmPrompt DEF Calm, Latest
  <2> QED BY <2>1, <2>2
<1>18. Prompt(stack', thrown') /\ thrown' \in BOOLEAN
  BY <1>4, <1>17 DEF Prompt, Latest
<1>19. PICK firsts : firsts = T!Range(SubSeq(sigs, 1, u))
  OBVIOUS
<1>20. PICK types : types = {"abort"}
  OBVIOUS
<1>21. PICK ls2 : ls2 = T!With(listeners, firsts, types, h)
  OBVIOUS
<1>22. h \in ListenerType /\ h.kind = "any"
  BY <1>1, Handlers3
<1>23. /\ ls2 \in [Places -> Seq(ListenerType)]
       /\ \A k \in Places : \A m : Stands(ls2, k, m) <=> Stands(listeners, k, m) \/ (m = h /\ k[1] \in firsts /\ k[2] \in types)
  BY <1>21, <1>22, SignalTypes, WithStands
<1>24. listeners' = ls2
  BY <1>3, <1>19, <1>20, <1>21
<1>25. \A x : x \in firsts <=> \E i \in 1..u : sigs[i] = x
  BY <1>5, <1>6, <1>19, FirstsAre
<1>26. AnySound(c, ls2, sources', signalled, stack')
  <2>1. AnySound(c, listeners, sources, signalled, stack)
    BY TgGiven DEF Deriving
  <2>2. \A k \in Places : ~Stands(listeners, k, h)
    <3>1. PICK v \in 0..Len(sources[c]) :
            \A k \in Places : Stands(listeners, k, h) <=> k[2] = "abort" /\ \E i \in 1..v : sources[c][i] = k[1]
      BY <2>1, <1>1 DEF AnySound
    <3>2. 1..v = {}
      BY <1>3
    <3> QED BY <3>1, <3>2
  <2>3. \A k \in Places : Stands(ls2, k, h) <=> k[2] = "abort" /\ \E i \in 1..u : sources'[c][i] = k[1]
    BY <2>2, <1>8, <1>20, <1>23, <1>25
  <2>4. u \in 0..Len(sources'[c]) /\ (Aborts(c, signalled, stack') <=> u # Len(sources'[c]))
    BY <1>6, <1>8, <1>9, <1>17, <1>5 DEF Aborts
  <2> QED BY <2>3, <2>4, <1>1 DEF AnySound
<1>27. Deriving(ls2, sources', signalled, reason', given, stack')
  <2>1. ASSUME NEW d \in DerivedSignals
        PROVE  Distinct(sources'[d]) /\ AnySound(d, ls2, sources', signalled, stack')
               /\ (signalled[d] => Behind(d, sources', signalled, reason', given))
    <3>1. CASE d = c
      BY <3>1, <1>5, <1>8, <1>9, <1>26
    <3>2. CASE d # c
      <4>1. /\ Distinct(sources[d]) /\ AnySound(d, listeners, sources, signalled, stack)
            /\ (signalled[d] => Behind(d, sources, signalled, reason, given))
        BY TgGiven DEF Deriving
      <4>2. AnyHandler(d) # h
        BY <3>2, <1>1, Handlers3
      <4>3. \A k \in Places : Stands(ls2, k, AnyHandler(d)) <=> Stands(listeners, k, AnyHandler(d))
        BY <4>2, <1>23
      <4>4. (Aborts(d, signalled, stack') <=> Aborts(d, signalled, stack)) /\ sources'[d] = sources[d]
        BY <3>2, <1>4, <1>8, <1>17, CalmPrompt DEF Aborts
      <4>5. AnySound(d, ls2, sources', signalled, stack')
        BY <4>1, <4>3, <4>4, AnyPersists
      <4> QED BY <4>1, <4>4, <4>5, <1>12
    <3> QED BY <3>1, <3>2
  <2> QED BY <2>1 DEF Deriving
<1>28. Waiting(ls2, waits)
  <2>1. ASSUME NEW v \in Waiters PROVE WaitSound(v, waits[v], ls2)
    <3>1. WaitSound(v, waits[v], listeners)
      BY TgGiven DEF Waiting
    <3>2. WaitHandler(v) # h
      BY <1>1, Handlers3
    <3>3. \A k \in Places : Stands(ls2, k, WaitHandler(v)) <=> Stands(listeners, k, WaitHandler(v))
      BY <3>2, <1>23
    <3> QED BY <3>1, <3>3 DEF WaitSound
  <2> QED BY <2>1 DEF Waiting
<1>29. ASSUME NEW k \in Places, NEW l \in Elements(ls2[k]), l.kind = "wait" PROVE l.of \in Waiters
  <2>1. Stands(listeners, k, l) \/ l = h
    BY <1>23 DEF Stands
  <2> QED BY <2>1, <1>22, <1>29, SignalTypes DEF Stands
<1>30. TgTypes'
  BY <1>3, <1>4, <1>8, <1>10, <1>18, <1>23, <1>24, <1>29, SignalTypes DEF TgTypes
<1>31. Plain(signalled, reason', given)
  BY <1>13, TgGiven DEF Plain
<1> QED BY <1>3, <1>17, <1>18, <1>24, <1>27, <1>28, <1>30, <1>31 DEF TgInv

-----------------------------------------------------------------------------
\* The dispatch on top of the stack.
LEMMA DispatchingIs ==
  ASSUME TgInv, NEW at, T!Dispatching(at), NEW f, f = T!Top, NEW front, front = T!Front(stack), NEW n, n = Len(stack)
  PROVE  /\ ~thrown /\ f \in FrameType /\ f.op = "dispatch" /\ f.at = at
         /\ FrameSound(f, n, waits, sources, signalled, reason, given)
         /\ front \in Seq(FrameType) /\ Calm(front) /\ n = Len(front) + 1 /\ n \in Nat
         /\ StackSound(front, waits, sources, signalled, reason, given)
         /\ \A x \in Elements(stack) : x \in Elements(front) \/ x = f
         /\ at # "begin" => Calm(stack)
<1>1. ~thrown /\ stack # <<>> /\ T!Top.op = "dispatch" /\ T!Top.at = at
  BY DEF T!Dispatching
<1>2. T!Top = stack[Len(stack)] /\ n \in 1..Len(stack) /\ T!Front(stack) = SubSeq(stack, 1, Len(stack) - 1)
  BY <1>1, TopIs DEF T!Top
<1>3. front = SubSeq(stack, 1, Len(stack) - 1) /\ f = stack[n]
  BY <1>2
<1>4. f \in FrameType /\ FrameSound(f, n, waits, sources, signalled, reason, given)
  BY <1>2, <1>3, TgGiven, StackGiven
<1>5. /\ StackSound(front, waits, sources, signalled, reason, given) /\ Calm(front) /\ Len(front) = Len(stack) - 1
      /\ \A x \in Elements(stack) : x \in Elements(front) \/ x = stack[Len(stack)]
  BY <1>1, <1>3, TgGiven, StackPop
<1>6. front \in Seq(FrameType) /\ n = Len(front) + 1 /\ n \in Nat
  <2>1. n \in Nat /\ n = Len(stack) /\ Len(front) = n - 1
    BY <1>2, <1>5
  <2> QED BY <2>1, <1>5, StackGiven
<1>7. ASSUME at # "begin" PROVE Calm(stack)
  <2>1. \A i \in 1..Len(stack) : Fresh(stack[i]) => i = n
    BY TgGiven DEF Prompt
  <2>2. ~Fresh(stack[n])
    BY <1>1, <1>2, <1>7 DEF Fresh
  <2> QED BY <2>1, <2>2 DEF Calm
<1> QED BY <1>1, <1>2, <1>3, <1>4, <1>5, <1>6, <1>7

\* onabort, if it is called.
Onward(st, s, t, st2) == st2 = st \o T!CallsOn(s, t)
LEMMA CallsOnIs ==
  ASSUME NEW st, NEW wa, NEW so, NEW ab, NEW re, NEW gi, StackSound(st, wa, so, ab, re, gi), Calm(st),
         NEW s, NEW t, NEW st2, Onward(st, s, t, st2)
  PROVE  StackSound(st2, wa, so, ab, re, gi) /\ Calm(st2) /\ Elements(st) \subseteq Elements(st2)
<1>1. st \in Seq(FrameType) /\ T!UserCode \in FrameType /\ st2 = st \o T!CallsOn(s, t)
  BY StackGiven, UserSound DEF Onward
<1>2. CASE T!CallsOn(s, t) = <<>>
  <2>1. st2 = st
    BY <1>1, <1>2
  <2> QED BY <2>1
<1>3. CASE T!CallsOn(s, t) = <<T!UserCode>>
  <2>1. PICK u \in FrameType : u = T!UserCode
    BY <1>1
  <2>2. st \o <<u>> = Append(st, u)
    BY <1>1, <2>1
  <2>3. PICK n : n = Len(st) + 1
    OBVIOUS
  <2>4. Pushed(st, u, n, st2)
    BY <1>1, <1>3, <2>1, <2>2, <2>3 DEF Pushed
  <2>5. FrameSound(u, n, wa, so, ab, re, gi) /\ ~Fresh(u)
    BY <2>1, UserSound
  <2>6. StackSound(st2, wa, so, ab, re, gi) /\ Calm(st2) /\ Elements(st2) = Elements(st) \union {u}
    BY <2>1, <2>4, <2>5, StackPush
  <2> QED BY <2>6
<1> QED BY <1>2, <1>3 DEF T!CallsOn

LEMMA BeginKeeps ==
  ASSUME TgInv, T!BeginDispatch
  PROVE  TgInv'
<1>1. PICK f : f = T!Top
  OBVIOUS
<1>2. PICK front : front = T!Front(stack)
  OBVIOUS
<1>3. PICK n : n = Len(stack)
  OBVIOUS
<1>4. PICK g : g = [f EXCEPT !.at = "copy"]
  OBVIOUS
<1>5. PICK base : base = Append(front, g)
  OBVIOUS
<1>6. /\ T!Dispatching("begin")
      /\ signalled' = IF f.type = "abort" THEN [signalled EXCEPT ![f.sig] = TRUE] ELSE signalled
      /\ stack' = base \o T!CallsOn(f.sig, f.type)
      /\ listeners' = listeners /\ reason' = reason /\ sources' = sources /\ waits' = waits /\ given' = given
      /\ thrown' = thrown /\ eventCalls' = eventCalls
  BY <1>1, <1>2, <1>4, <1>5 DEF T!BeginDispatch
<1>7. /\ ~thrown /\ f \in FrameType /\ f.op = "dispatch" /\ f.at = "begin"
      /\ FrameSound(f, n, waits, sources, signalled, reason, given)
      /\ Calm(front) /\ n = Len(front) + 1
      /\ StackSound(front, waits, sources, signalled, reason, given)
      /\ \A x \in Elements(stack) : x \in Elements(front) \/ x = f
  BY <1>1, <1>2, <1>3, <1>6, DispatchingIs
<1>8. "copy" \in {"none", "begin", "copy", "calls"} /\ "copy" # "calls" /\ "copy" # "begin"
  OBVIOUS
<1>9. /\ g \in FrameType /\ g.op = "dispatch" /\ g.sig = f.sig /\ g.type = f.type /\ g.at = "copy" /\ g.queue = f.queue
  BY <1>4, <1>7, <1>8 DEF FrameType
<1>10. f.sig \in T!Signals
  BY <1>7 DEF FrameSound
<1>11. /\ signalled' \in [T!Signals -> BOOLEAN]
       /\ \A s \in T!Signals : signalled[s] => signalled'[s]
       /\ \A s \in T!Signals : signalled'[s] => signalled[s] \/ (s = f.sig /\ f.type = "abort")
       /\ f.type = "abort" => signalled'[f.sig]
  BY <1>6, <1>10, SignalTypes
<1>12. ASSUME NEW d \in DerivedSignals, Behind(d, sources, signalled, reason, given)
       PROVE  Behind(d, sources, signalled', reason, given)
  <2>1. PICK j \in 1..Len(sources[d]) : signalled[sources[d][j]] /\ reason[d] \in given[sources[d][j]]
    BY <1>12 DEF Behind
  <2>2. sources[d][j] \in T!Signals
    BY SignalTypes, TgNumbers
  <2> QED BY <2>1, <2>2, <1>11 DEF Behind
<1>13. SignalsGoOn(sources, signalled, reason, given, sources, signalled', reason, given)
  BY <1>11, <1>12 DEF SignalsGoOn
<1>14. \A w \in Waiters : WaitGoesOn(waits[w], waits[w], Len(front))
  BY DEF WaitGoesOn
<1>15. StackSound(front, waits, sources, signalled', reason, given)
  BY <1>7, <1>13, <1>14, SignalTypes, StackPersists
<1>16. FrameSound(g, n, waits, sources, signalled', reason, given)
  <2>1. /\ g.sig \in T!Signals /\ g.type \in T!Types
        /\ \A w \in Waiters : WaitHandler(w) \in Elements(g.queue) => waits[w].st # "unused" /\ g.type \in waits[w].types
        /\ \A l \in Elements(g.queue) : l.kind = "wait" => l.of \in Waiters
    BY <1>7, <1>9 DEF FrameSound
  <2>2. ASSUME g.type = "abort"
        PROVE  /\ signalled'[g.sig]
               /\ g.sig \in PlainSignals => reason[g.sig] \in given[g.sig]
               /\ g.sig \in DerivedSignals => Behind(g.sig, sources, signalled', reason, given)
    <3>1. /\ f.sig \in PlainSignals => reason[f.sig] \in given[f.sig]
          /\ f.sig \in DerivedSignals => Behind(f.sig, sources, signalled, reason, given)
      BY <2>2, <1>7, <1>9 DEF FrameSound
    <3> QED BY <3>1, <2>2, <1>9, <1>11, <1>12
  <2> QED BY <2>1, <2>2, <1>8, <1>9 DEF FrameSound
<1>17. ~Fresh(g)
  BY <1>8, <1>9 DEF Fresh
<1>18. Pushed(front, g, n, base)
  BY <1>5, <1>7 DEF Pushed
<1>19. StackSound(base, waits, sources, signalled', reason, given) /\ Calm(base) /\ Elements(base) = Elements(front) \union {g}
  BY <1>7, <1>9, <1>15, <1>16, <1>17, <1>18, StackPush
<1>20. StackSound(stack', waits, sources, signalled', reason, given) /\ Calm(stack')
  <2>1. Onward(base, f.sig, f.type, stack')
    BY <1>6 DEF Onward
  <2> QED BY <2>1, <1>19, CallsOnIs
<1>21. Deriving(listeners, sources, signalled', reason, given, stack')
  <2>1. ASSUME NEW d \in DerivedSignals
        PROVE  Distinct(sources[d]) /\ AnySound(d, listeners, sources, signalled', stack')
               /\ (signalled'[d] => Behind(d, sources, signalled', reason, given))
    <3>1. /\ Distinct(sources[d]) /\ AnySound(d, listeners, sources, signalled, stack)
          /\ (signalled[d] => Behind(d, sources, signalled, reason, given))
      BY TgGiven DEF Deriving
    <3>2. d \in T!Signals /\ "abort" \in T!Types
      BY TgNumbers DEF T!Types
    <3>3. T!Dispatch(d, "abort") \in Elements(stack) => signalled'[d]
      <4> SUFFICES ASSUME T!Dispatch(d, "abort") \in Elements(stack) PROVE signalled'[d]
        OBVIOUS
      <4>1. T!Dispatch(d, "abort") = f
        BY <1>7, CalmPrompt
      <4>2. f.sig = d /\ f.type = "abort"
        BY <4>1, <3>2, DispatchIs
      <4> QED BY <4>2, <1>11
    <3>4. Aborts(d, signalled', stack') <=> Aborts(d, signalled, stack)
      <4>1. T!Dispatch(d, "abort") \notin Elements(stack')
        BY <1>20, CalmPrompt
      <4>2. signalled'[d] => Aborts(d, signalled, stack)
        <5>1. CASE signalled[d]
          BY <5>1 DEF Aborts
        <5>2. CASE d = f.sig /\ f.type = "abort"
          <6>1. f \in Elements(stack)
            <7>1. n \in 1..Len(stack) /\ f = stack[n]
              BY <1>1, <1>3, <1>6, TopIs DEF T!Top, T!Dispatching
            <7> QED BY <7>1 DEF Elements
          <6>2. f.queue = <<>>
            BY <1>7 DEF FrameSound
          <6>3. f = [op |-> f.op, sig |-> f.sig, type |-> f.type, queue |-> f.queue, at |-> f.at]
            BY <1>7 DEF FrameType
          <6>4. f = T!Dispatch(d, "abort")
            BY <5>2, <6>2, <6>3, <1>7 DEF T!Dispatch, T!Frame
          <6> QED BY <6>1, <6>4 DEF Aborts
        <5> QED BY <5>1, <5>2, <3>2, <1>11
      <4>3. signalled[d] => signalled'[d]
        BY <3>2, <1>11
      <4> QED BY <4>1, <4>2, <4>3, <3>3 DEF Aborts
    <3>5. AnySound(d, listeners, sources, signalled', stack')
      BY <3>1, <3>3, <3>4, AnyPersists
    <3>6. ASSUME signalled'[d] PROVE Behind(d, sources, signalled', reason, given)
      <4>1. CASE signalled[d]
        BY <4>1, <3>1, <1>12
      <4>2. CASE d = f.sig /\ f.type = "abort"
        <5>1. Behind(d, sources, signalled, reason, given)
          BY <4>2, <1>7 DEF FrameSound
        <5> QED BY <5>1, <1>12
      <4> QED BY <4>1, <4>2, <3>2, <3>6, <1>11
    <3> QED BY <3>1, <3>5, <3>6
  <2> QED BY <2>1 DEF Deriving
<1>22. Plain(signalled', reason, given)
  <2>1. ASSUME NEW p \in PlainSignals, signalled'[p] PROVE reason[p] \in given[p]
    <3>1. p \in T!Signals
      BY TgNumbers
    <3>2. CASE signalled[p]
      BY <3>2, TgGiven DEF Plain
    <3>3. CASE p = f.sig /\ f.type = "abort"
      BY <3>3, <1>7 DEF FrameSound
    <3> QED BY <3>1, <3>2, <3>3, <2>1, <1>11
  <2> QED BY <2>1 DEF Plain
<1>23. TgTypes'
  BY <1>6, <1>11, TgGiven DEF TgTypes
<1>24. Waiting(listeners, waits) /\ Prompt(stack', thrown')
  BY <1>20, TgGiven, CalmPrompt
<1> QED BY <1>6, <1>20, <1>21, <1>22, <1>23, <1>24 DEF TgInv

-----------------------------------------------------------------------------
\* The listeners that a dispatch is to call are those of the moment.
LEMMA CopyKeeps ==
  ASSUME TgInv, T!CopyListeners
  PROVE  TgInv'
<1>1. PICK f : f = T!Top
  OBVIOUS
<1>2. PICK front : front = T!Front(stack)
  OBVIOUS
<1>3. PICK n : n = Len(stack)
  OBVIOUS
<1>4. PICK q : q = listeners[<<f.sig, f.type>>]
  OBVIOUS
<1>5. PICK g : g = [f EXCEPT !.at = "calls", !.queue = q]
  OBVIOUS
<1>6. /\ T!Dispatching("copy") /\ stack' = Append(front, g)
      /\ UNCHANGED <<listeners, signalled, reason, sources, waits, given>>
      /\ thrown' = thrown /\ eventCalls' = eventCalls
  BY <1>1, <1>2, <1>4, <1>5 DEF T!CopyListeners
<1>7. "copy" # "begin" /\ "calls" # "begin" /\ "calls" # "copy"
  OBVIOUS
<1>8. /\ ~thrown /\ f \in FrameType /\ f.op = "dispatch" /\ f.at = "copy"
      /\ FrameSound(f, n, waits, sources, signalled, reason, given)
      /\ Calm(front) /\ n = Len(front) + 1
      /\ StackSound(front, waits, sources, signalled, reason, given)
      /\ Calm(stack)
  BY <1>1, <1>2, <1>3, <1>6, <1>7, DispatchingIs
<1>9. f.sig \in T!Signals /\ f.type \in T!Types
  BY <1>8 DEF FrameSound
<1>10. PICK k \in Places : k = <<f.sig, f.type>> /\ k[1] = f.sig /\ k[2] = f.type
  <2>1. <<f.sig, f.type>> \in Places
    BY <1>9 DEF Places
  <2> QED BY <2>1
<1>11. q = listeners[k] /\ q \in Seq(ListenerType)
  BY <1>4, <1>10, SignalTypes
<1>12. g \in FrameType /\ g.op = "dispatch" /\ g.sig = f.sig /\ g.type = f.type /\ g.at = "calls" /\ g.queue = q
  BY <1>5, <1>8, <1>11 DEF FrameType
<1>13. FrameSound(g, n, waits, sources, signalled, reason, given)
  <2>1. ASSUME NEW w \in Waiters
        PROVE  /\ WaitHandler(w) \in Elements(q) => waits[w].st # "unused" /\ f.type \in waits[w].types
               /\ waits[w].st = "pending" /\ waits[w].sig = f.sig /\ f.type \in waits[w].types
                    => WaitHandler(w) \in Elements(q)
    <3>1. WaitSound(w, waits[w], listeners)
      BY TgGiven DEF Waiting
    <3>2. WaitHandler(w) \in Elements(q) <=> waits[w].st = "pending" /\ f.sig = waits[w].sig /\ f.type \in waits[w].types
      BY <3>1, <1>10, <1>11 DEF WaitSound, Stands
    <3> QED BY <3>2
  <2>2. \A l \in Elements(q) : l.kind = "wait" => l.of \in Waiters
    BY <1>11, SignalTypes
  <2>3. f.type = "abort" =>
          /\ signalled[f.sig]
          /\ f.sig \in PlainSignals => reason[f.sig] \in given[f.sig]
          /\ f.sig \in DerivedSignals => Behind(f.sig, sources, signalled, reason, given)
    BY <1>7, <1>8 DEF FrameSound
  <2> QED BY <2>1, <2>2, <2>3, <1>7, <1>9, <1>12 DEF FrameSound
<1>14. ~Fresh(g)
  BY <1>7, <1>12 DEF Fresh
<1>15. Pushed(front, g, n, stack')
  BY <1>6, <1>8 DEF Pushed
<1>16. StackSound(stack', waits, sources, signalled, reason, given) /\ Calm(stack')
  BY <1>8, <1>12, <1>13, <1>14, <1>15, StackPush
<1>17. Prompt(stack', thrown') /\ thrown' \in BOOLEAN /\ eventCalls' \in Nat
  BY <1>6, <1>16, CalmPrompt, ListenersType
<1> QED BY <1>6, <1>8, <1>16, <1>17, OnlyStack

\* All were called.
LEMMA EndKeeps ==
  ASSUME TgInv, T!EndDispatch
  PROVE  TgInv'
<1>1. PICK f : f = T!Top
  OBVIOUS
<1>2. PICK front : front = T!Front(stack)
  OBVIOUS
<1>3. PICK n : n = Len(stack)
  OBVIOUS
<1>4. /\ T!Dispatching("calls") /\ stack' = front \o T!CallsOn(f.sig, f.type)
      /\ UNCHANGED <<listeners, signalled, reason, sources, waits, given>>
      /\ thrown' = thrown /\ eventCalls' = eventCalls
  BY <1>1, <1>2 DEF T!EndDispatch
<1>5. /\ Calm(front) /\ StackSound(front, waits, sources, signalled, reason, given) /\ Calm(stack)
  BY <1>1, <1>2, <1>3, <1>4, DispatchingIs
<1>6. Onward(front, f.sig, f.type, stack')
  BY <1>4 DEF Onward
<1>7. StackSound(stack', waits, sources, signalled, reason, given) /\ Calm(stack')
  BY <1>5, <1>6, CallsOnIs
<1>8. Prompt(stack', thrown') /\ thrown' \in BOOLEAN /\ eventCalls' \in Nat
  BY <1>4, <1>7, CalmPrompt, ListenersType
<1> QED BY <1>4, <1>5, <1>7, <1>8, OnlyStack

\* The first of a queue, and the others.
LEMMA TailElements ==
  ASSUME NEW q \in Seq(ListenerType), q # <<>>
  PROVE  /\ Head(q) \in ListenerType /\ Head(q) \in Elements(q) /\ Tail(q) \in Seq(ListenerType)
         /\ Elements(Tail(q)) \subseteq Elements(q)
         /\ \A x \in Elements(q) : x = Head(q) \/ x \in Elements(Tail(q))
<1>1. PICK t \in Seq(ListenerType) : t = Tail(q)
  <2>1. Tail(q) \in Seq(ListenerType)
    BY HeadTailProperties
  <2> QED BY <2>1
<1>2. PICK m \in Nat : Len(q) = m + 1
  <2>1. Len(q) \in Nat /\ Len(q) # 0
    OBVIOUS
  <2>2. Len(q) - 1 \in Nat /\ Len(q) = (Len(q) - 1) + 1
    BY <2>1
  <2> QED BY <2>2
<1>3. Len(t) = m /\ \A i \in 1..m : t[i] = q[i + 1]
  BY <1>1, <1>2
<1>4. 1 \in 1..Len(q) /\ Head(q) = q[1] /\ q[1] \in ListenerType
  BY <1>2
<1>5. ASSUME NEW x \in Elements(t) PROVE x \in Elements(q)
  <2>1. PICK i \in 1..m : x = t[i]
    BY <1>3 DEF Elements
  <2>2. i + 1 \in 1..Len(q) /\ x = q[i + 1]
    BY <2>1, <1>2, <1>3
  <2> QED BY <2>2 DEF Elements
<1>6. ASSUME NEW x \in Elements(q) PROVE x = Head(q) \/ x \in Elements(t)
  <2>1. PICK i \in 1..Len(q) : x = q[i]
    BY DEF Elements
  <2>2. CASE i = 1
    BY <2>1, <2>2, <1>4
  <2>3. CASE i # 1
    <3>1. i - 1 \in 1..m /\ (i - 1) + 1 = i
      BY <2>3, <1>2
    <3>2. t[i - 1] = q[i]
      BY <3>1, <1>3
    <3> QED BY <3>1, <3>2, <2>1, <1>3 DEF Elements
  <2> QED BY <2>2, <2>3
<1> QED BY <1>1, <1>4, <1>5, <1>6 DEF Elements

\* The dispatch without the listener that it calls.
LEMMA PoppedIs ==
  ASSUME TgInv, T!Dispatching("calls"), T!Top.queue # <<>>,
         NEW f, f = T!Top, NEW l, l = Head(f.queue), NEW n, n = Len(stack)
  PROVE  /\ f \in FrameType /\ f.op = "dispatch" /\ f.at = "calls" /\ Calm(stack)
         /\ FrameSound(f, n, waits, sources, signalled, reason, given)
         /\ l \in ListenerType /\ l \in Elements(f.queue)
         /\ \E front, g :
              /\ Calm(front) /\ StackSound(front, waits, sources, signalled, reason, given)
              /\ Pushed(front, g, n, T!Popped)
              /\ g \in FrameType /\ g.op = "dispatch" /\ g.sig = f.sig /\ g.type = f.type /\ g.at = "calls"
              /\ Elements(g.queue) \subseteq Elements(f.queue)
              /\ \A x \in Elements(f.queue) : x = l \/ x \in Elements(g.queue)
              /\ ~Fresh(g)
<1>1. PICK front : front = T!Front(stack)
  OBVIOUS
<1>2. "calls" # "begin"
  OBVIOUS
<1>3. /\ f \in FrameType /\ f.op = "dispatch" /\ f.at = "calls"
      /\ FrameSound(f, n, waits, sources, signalled, reason, given)
      /\ Calm(front) /\ n = Len(front) + 1
      /\ StackSound(front, waits, sources, signalled, reason, given)
      /\ Calm(stack)
  BY <1>1, <1>2, DispatchingIs
<1>4. PICK q \in Seq(ListenerType) : q = f.queue /\ q # <<>>
  BY <1>3 DEF FrameType
<1>5. /\ l \in ListenerType /\ l \in Elements(q) /\ Tail(q) \in Seq(ListenerType)
      /\ Elements(Tail(q)) \subseteq Elements(q)
      /\ \A x \in Elements(q) : x = l \/ x \in Elements(Tail(q))
  BY <1>4, TailElements
<1>6. PICK t \in Seq(ListenerType) : t = Tail(q)
  BY <1>5
<1>7. PICK g : g = [f EXCEPT !.queue = t]
  OBVIOUS
<1>8. g \in FrameType /\ g.op = "dispatch" /\ g.sig = f.sig /\ g.type = f.type /\ g.at = "calls" /\ g.queue = t
  BY <1>3, <1>6, <1>7 DEF FrameType
<1>9. T!Popped = Append(front, g)
  BY <1>1, <1>4, <1>6, <1>7 DEF T!Popped
<1>10. Pushed(front, g, n, T!Popped)
  BY <1>3, <1>9 DEF Pushed
<1>11. ~Fresh(g)
  BY <1>2, <1>8 DEF Fresh
<1>12. Elements(g.queue) \subseteq Elements(f.queue) /\ \A x \in Elements(f.queue) : x = l \/ x \in Elements(g.queue)
  BY <1>4, <1>5, <1>6, <1>8
<1> QED BY <1>3, <1>4, <1>5, <1>8, <1>10, <1>11, <1>12

\* ... is sound if the one that it calls does not wait any more.
LEMMA PoppedSound ==
  ASSUME NEW f, NEW g, NEW n, NEW l, NEW wa, NEW so, NEW ab, NEW re, NEW gi,
         FrameSound(f, n, wa, so, ab, re, gi),
         f.op = "dispatch", f.at = "calls", g.op = "dispatch", g.sig = f.sig, g.type = f.type, g.at = "calls",
         Elements(g.queue) \subseteq Elements(f.queue),
         \A x \in Elements(f.queue) : x = l \/ x \in Elements(g.queue),
         \A w \in Waiters : l = WaitHandler(w) => wa[w].st # "pending"
  PROVE  FrameSound(g, n, wa, so, ab, re, gi)
<1>1. /\ g.sig \in T!Signals /\ g.type \in T!Types
      /\ \A w \in Waiters : WaitHandler(w) \in Elements(g.queue) => wa[w].st # "unused" /\ g.type \in wa[w].types
      /\ \A m \in Elements(g.queue) : m.kind = "wait" => m.of \in Waiters
  BY DEF FrameSound
<1>2. ASSUME NEW w \in Waiters, wa[w].st = "pending", wa[w].sig = g.sig, g.type \in wa[w].types, wa[w].depth < n
      PROVE  WaitHandler(w) \in Elements(g.queue)
  <2>1. WaitHandler(w) \in Elements(f.queue)
    BY <1>2 DEF FrameSound
  <2> QED BY <2>1, <1>2
<1>3. g.type = "abort" =>
        /\ ab[g.sig]
        /\ g.sig \in PlainSignals => re[g.sig] \in gi[g.sig]
        /\ g.sig \in DerivedSignals => Behind(g.sig, so, ab, re, gi)
  <2>1. "calls" # "begin"
    OBVIOUS
  <2> QED BY <2>1 DEF FrameSound
<1>4. g.at # "begin"
  OBVIOUS
<1> QED BY <1>1, <1>2, <1>3, <1>4 DEF FrameSound

-----------------------------------------------------------------------------
\* What the listeners do that a dispatch calls.
LEMMA UserIsCalled ==
  ASSUME TgInv, T!Dispatching("calls"), T!Top.queue # <<>>, NEW l, l = Head(T!Top.queue), T!CallUser(l),
         UNCHANGED <<signalled, reason, sources, eventCalls, given>>
  PROVE  TgInv'
<1>1. PICK f : f = T!Top
  OBVIOUS
<1>2. PICK n : n = Len(stack)
  OBVIOUS
<1>3. PICK base : base = T!Popped
  OBVIOUS
<1>4. PICK u : u = T!UserCode
  OBVIOUS
<1>5. l = T!User /\ stack' = Append(base, u) /\ listeners' = listeners /\ waits' = waits /\ thrown' = thrown
  BY <1>3, <1>4 DEF T!CallUser
<1>6. l = Head(f.queue)
  BY <1>1
<1>7. /\ f.op = "dispatch" /\ f.at = "calls" /\ Calm(stack)
      /\ FrameSound(f, n, waits, sources, signalled, reason, given)
  BY <1>1, <1>2, <1>6, PoppedIs
<1>8. PICK front, g :
        /\ Calm(front) /\ StackSound(front, waits, sources, signalled, reason, given)
        /\ Pushed(front, g, n, T!Popped)
        /\ g \in FrameType /\ g.op = "dispatch" /\ g.sig = f.sig /\ g.type = f.type /\ g.at = "calls"
        /\ Elements(g.queue) \subseteq Elements(f.queue)
        /\ \A x \in Elements(f.queue) : x = l \/ x \in Elements(g.queue)
        /\ ~Fresh(g)
  BY <1>1, <1>2, <1>6, PoppedIs
<1>9. \A w \in Waiters : l = WaitHandler(w) => waits[w].st # "pending"
  BY <1>5, Handlers3
<1>10. FrameSound(g, n, waits, sources, signalled, reason, given)
  BY <1>7, <1>8, <1>9, PoppedSound
<1>11. StackSound(base, waits, sources, signalled, reason, given) /\ Calm(base)
  BY <1>3, <1>8, <1>10, StackPush
<1>12. PICK m : m = Len(base) + 1
  OBVIOUS
<1>13. Pushed(base, u, m, stack')
  BY <1>5, <1>12 DEF Pushed
<1>14. u \in FrameType /\ FrameSound(u, m, waits, sources, signalled, reason, given) /\ ~Fresh(u)
  BY <1>4, UserSound
<1>15. StackSound(stack', waits, sources, signalled, reason, given) /\ Calm(stack')
  BY <1>11, <1>13, <1>14, StackPush
<1>16. Prompt(stack', thrown') /\ thrown' \in BOOLEAN /\ eventCalls' \in Nat
  BY <1>5, <1>15, CalmPrompt, ListenersType
<1> QED BY <1>5, <1>7, <1>15, <1>16, OnlyStack

LEMMA AnyIsCalled ==
  ASSUME TgInv, T!Dispatching("calls"), T!Top.queue # <<>>, NEW l, l = Head(T!Top.queue), T!CallAny(l),
         UNCHANGED <<signalled, reason, sources, eventCalls, given>>
  PROVE  TgInv'
<1>1. PICK f : f = T!Top
  OBVIOUS
<1>2. PICK n : n = Len(stack)
  OBVIOUS
<1>3. l.kind = "any" /\ stack' = T!Popped /\ listeners' = listeners /\ waits' = waits /\ thrown' = TRUE
  BY DEF T!CallAny
<1>4. l = Head(f.queue)
  BY <1>1
<1>5. /\ f.op = "dispatch" /\ f.at = "calls" /\ Calm(stack)
      /\ FrameSound(f, n, waits, sources, signalled, reason, given)
  BY <1>1, <1>2, <1>4, PoppedIs
<1>6. PICK front, g :
        /\ Calm(front) /\ StackSound(front, waits, sources, signalled, reason, given)
        /\ Pushed(front, g, n, T!Popped)
        /\ g \in FrameType /\ g.op = "dispatch" /\ g.sig = f.sig /\ g.type = f.type /\ g.at = "calls"
        /\ Elements(g.queue) \subseteq Elements(f.queue)
        /\ \A x \in Elements(f.queue) : x = l \/ x \in Elements(g.queue)
        /\ ~Fresh(g)
  BY <1>1, <1>2, <1>4, PoppedIs
<1>7. \A w \in Waiters : l # WaitHandler(w)
  BY <1>3, Handlers3
<1>8. FrameSound(g, n, waits, sources, signalled, reason, given)
  BY <1>5, <1>6, <1>7, PoppedSound
<1>9. StackSound(stack', waits, sources, signalled, reason, given) /\ Calm(stack')
  BY <1>3, <1>6, <1>8, StackPush
<1>10. Prompt(stack', thrown') /\ thrown' \in BOOLEAN /\ eventCalls' \in Nat
  BY <1>3, <1>9, CalmPrompt, ListenersType
<1> QED BY <1>3, <1>5, <1>9, <1>10, OnlyStack

LEMMA WaiterIsCalled ==
  ASSUME TgInv, T!Dispatching("calls"), T!Top.queue # <<>>, NEW l, l = Head(T!Top.queue), T!CallWaiter(l),
         UNCHANGED <<signalled, reason, sources, eventCalls, given>>
  PROVE  TgInv'
<1>1. PICK f : f = T!Top
  OBVIOUS
<1>2. PICK n : n = Len(stack)
  OBVIOUS
<1>3. PICK w : w = l.of
  OBVIOUS
<1>4. l.kind = "wait" /\ l = Head(f.queue)
  BY <1>1 DEF T!CallWaiter
<1>5. /\ f \in FrameType /\ f.op = "dispatch" /\ f.at = "calls" /\ Calm(stack)
      /\ FrameSound(f, n, waits, sources, signalled, reason, given)
      /\ l \in ListenerType /\ l \in Elements(f.queue)
  BY <1>1, <1>2, <1>4, PoppedIs
<1>6. PICK front, g :
        /\ Calm(front) /\ StackSound(front, waits, sources, signalled, reason, given)
        /\ Pushed(front, g, n, T!Popped)
        /\ g \in FrameType /\ g.op = "dispatch" /\ g.sig = f.sig /\ g.type = f.type /\ g.at = "calls"
        /\ Elements(g.queue) \subseteq Elements(f.queue)
        /\ \A x \in Elements(f.queue) : x = l \/ x \in Elements(g.queue)
        /\ ~Fresh(g)
  BY <1>1, <1>2, <1>4, PoppedIs
<1>7. w \in Waiters /\ l = WaitHandler(w)
  <2>1. w \in Waiters
    BY <1>3, <1>4, <1>5 DEF FrameSound
  <2> QED BY <2>1, <1>3, <1>4, <1>5, Handlers3
<1>8. f.type \in T!Types /\ f.type # "none" /\ waits[w].st # "unused" /\ f.type \in waits[w].types
  <2>1. f.type \in T!Types /\ waits[w].st # "unused" /\ f.type \in waits[w].types
    BY <1>5, <1>7 DEF FrameSound
  <2> QED BY <2>1 DEF T!Types
<1>9. PICK u : u = waits[w]
  OBVIOUS
<1>10. u \in WaitType
  BY <1>7, <1>9, SignalTypes
<1>11. PICK st : st = IF u.st = "pending" THEN f.type ELSE u.st
  OBVIOUS
<1>12. st \in {"unused", "pending", "abort", "ping"} /\ st # "unused" /\ st # "pending" /\ st \in u.types
  <2>1. u.st \in {"unused", "pending"} \union u.types
    <3>1. WaitSound(w, waits[w], listeners)
      BY <1>7, TgGiven DEF Waiting
    <3> QED BY <3>1, <1>9 DEF WaitSound
  <2>2. u.st # "unused" /\ f.type \in u.types /\ f.type \in {"abort", "ping"}
    BY <1>8, <1>9 DEF T!Types
  <2>3. u.st \in {"unused", "pending", "abort", "ping"}
    BY <1>10 DEF WaitType
  <2> QED BY <2>1, <2>2, <2>3, <1>11
<1>13. PICK v : v = [u EXCEPT !.st = st]
  OBVIOUS
<1>14. v \in WaitType /\ v.sig = u.sig /\ v.types = u.types /\ v.depth = u.depth /\ v.st = st
  BY <1>10, <1>12, <1>13 DEF WaitType
<1>15. waits' = [waits EXCEPT ![w] = v]
  BY <1>1, <1>3, <1>9, <1>11, <1>13 DEF T!CallWaiter
<1>16. waits' \in [Waiters -> WaitType] /\ waits'[w] = v /\ \A x \in Waiters : x # w => waits'[x] = waits[x]
  BY <1>7, <1>14, <1>15, SignalTypes
<1>17. stack' = T!Popped /\ thrown' = thrown
  BY DEF T!CallWaiter
<1>18. PICK sigs : sigs = {u.sig}
  OBVIOUS
<1>a. PICK types : types = u.types
  OBVIOUS
<1>19. PICK ls2 : ls2 = T!Without(listeners, sigs, types, l)
  OBVIOUS
<1>20. listeners' = ls2
  <2>1. listeners' = T!Without(listeners, {waits[l.of].sig}, waits[l.of].types, l)
    BY DEF T!CallWaiter
  <2>2. waits[l.of].sig = u.sig /\ waits[l.of].types = u.types
    BY <1>3, <1>9
  <2>3. listeners' = T!Without(listeners, sigs, types, l)
    BY <2>1, <2>2, <1>a, <1>18, Zenon
  <2> QED BY <2>3, <1>19
<1>21. /\ ls2 \in [Places -> Seq(ListenerType)]
       /\ \A k \in Places : \A m :
            Stands(ls2, k, m) <=> Stands(listeners, k, m) /\ ~(m = l /\ k[1] \in sigs /\ k[2] \in types)
  BY <1>19, SignalTypes, WithoutStands
<1>22. \A N : \A x \in Waiters : WaitGoesOn(waits[x], waits'[x], N)
  <2>1. ASSUME NEW N, NEW x \in Waiters PROVE WaitGoesOn(waits[x], waits'[x], N)
    <3>1. CASE x = w
      BY <3>1, <1>8, <1>9, <1>12, <1>14, <1>16 DEF WaitGoesOn
    <3>2. CASE x # w
      BY <3>2, <1>16 DEF WaitGoesOn
    <3> QED BY <3>1, <3>2
  <2> QED BY <2>1
<1>23. SignalsGoOn(sources, signalled, reason, given, sources, signalled, reason, given)
  BY DEF SignalsGoOn
<1>24. StackSound(front, waits', sources, signalled, reason, given)
  BY <1>6, <1>16, <1>22, <1>23, StackPersists
<1>25. FrameSound(f, n, waits', sources, signalled, reason, given)
  <2>1. n \in Nat /\ n \in 1..n
    <3>1. stack # <<>> /\ Len(stack) \in Nat
      BY TgGiven DEF T!Dispatching
    <3>2. Len(stack) \in 1..Len(stack)
      BY <3>1, TopIs
    <3> QED BY <3>1, <3>2, <1>2
  <2>2. \A x \in Waiters : WaitGoesOn(waits[x], waits'[x], n)
    BY <1>22
  <2>3. PICK wa2 : wa2 = waits'
    OBVIOUS
  <2>4. wa2 \in [Waiters -> WaitType] /\ \A x \in Waiters : WaitGoesOn(waits[x], wa2[x], n)
    BY <2>2, <2>3, <1>16
  <2>5. FrameSound(f, n, wa2, sources, signalled, reason, given)
    BY <2>1, <2>4, <1>5, <1>23, FramePersists
  <2> QED BY <2>3, <2>5
<1>26. \A x \in Waiters : l = WaitHandler(x) => waits'[x].st # "pending"
  <2>1. \A x \in Waiters : l = WaitHandler(x) => x = w
    BY <1>7, Handlers3
  <2>2. waits'[w].st # "pending"
    BY <1>12, <1>14, <1>16
  <2> QED BY <2>1, <2>2
<1>27. FrameSound(g, n, waits', sources, signalled, reason, given)
  BY <1>5, <1>6, <1>25, <1>26, PoppedSound
<1>28. StackSound(stack', waits', sources, signalled, reason, given) /\ Calm(stack')
  BY <1>6, <1>17, <1>24, <1>27, StackPush
<1>29. Prompt(stack', thrown') /\ thrown' \in BOOLEAN /\ eventCalls' \in Nat
  BY <1>17, <1>28, CalmPrompt, ListenersType
<1>30. Waiting(ls2, waits')
  <2>1. ASSUME NEW x \in Waiters PROVE WaitSound(x, waits'[x], ls2)
    <3>1. WaitSound(x, waits[x], listeners)
      BY TgGiven DEF Waiting
    <3>2. CASE x = w
      <4>1. \A k \in Places : ~Stands(ls2, k, l)
        BY <3>1, <3>2, <1>7, <1>9, <1>a, <1>18, <1>21 DEF WaitSound
      <4> QED BY <4>1, <3>2, <1>7, <1>12, <1>14, <1>16 DEF WaitSound
    <3>3. CASE x # w
      <4>1. WaitHandler(x) # l
        BY <3>3, <1>7, Handlers3
      <4>2. \A k \in Places : Stands(ls2, k, WaitHandler(x)) <=> Stands(listeners, k, WaitHandler(x))
        BY <4>1, <1>21
      <4> QED BY <4>2, <3>1, <3>3, <1>16 DEF WaitSound
    <3> QED BY <3>2, <3>3
  <2> QED BY <2>1 DEF Waiting
<1>31. Deriving(ls2, sources, signalled, reason, given, stack')
  <2>1. ASSUME NEW d \in DerivedSignals
        PROVE  Distinct(sources[d]) /\ AnySound(d, ls2, sources, signalled, stack')
               /\ (signalled[d] => Behind(d, sources, signalled, reason, given))
    <3>1. /\ Distinct(sources[d]) /\ AnySound(d, listeners, sources, signalled, stack)
          /\ (signalled[d] => Behind(d, sources, signalled, reason, given))
      BY TgGiven DEF Deriving
    <3>2. AnyHandler(d) # l
      BY <1>7, Handlers3
    <3>3. \A k \in Places : Stands(ls2, k, AnyHandler(d)) <=> Stands(listeners, k, AnyHandler(d))
      BY <3>2, <1>21
    <3>4. Aborts(d, signalled, stack') <=> Aborts(d, signalled, stack)
      BY <1>5, <1>28, CalmPrompt DEF Aborts
    <3>5. AnySound(d, ls2, sources, signalled, stack')
      BY <3>1, <3>3, <3>4, AnyPersists
    <3> QED BY <3>1, <3>5
  <2> QED BY <2>1 DEF Deriving
<1>32. ASSUME NEW k \in Places, NEW m \in Elements(ls2[k]), m.kind = "wait" PROVE m.of \in Waiters
  <2>1. Stands(listeners, k, m)
    BY <1>21 DEF Stands
  <2> QED BY <2>1, <1>32, SignalTypes DEF Stands
<1>33. TgTypes'
  BY <1>16, <1>20, <1>21, <1>29, <1>32, SignalTypes DEF TgTypes
<1>34. Plain(signalled, reason, given)
  BY TgGiven
<1> QED BY <1>20, <1>28, <1>29, <1>30, <1>31, <1>33, <1>34 DEF TgInv

LEMMA CallListenerKeeps ==
  ASSUME TgInv, T!CallListener
  PROVE  TgInv'
<1>1. PICK l : l = Head(T!Top.queue)
  OBVIOUS
<1>2. /\ T!Dispatching("calls") /\ T!Top.queue # <<>>
      /\ UNCHANGED <<signalled, reason, sources, eventCalls, given>>
      /\ T!CallUser(l) \/ T!CallWaiter(l) \/ T!CallAny(l)
  BY <1>1 DEF T!CallListener
<1> QED BY <1>1, <1>2, UserIsCalled, WaiterIsCalled, AnyIsCalled

-----------------------------------------------------------------------------
LEMMA TgStart ==
  ASSUME T!EventInit
  PROVE  TgInv
<1>1. PICK none \in Seq(ListenerType) : none = <<>>
  <2>1. <<>> \in Seq(ListenerType)
    OBVIOUS
  <2> QED BY <2>1
<1>2. PICK nobody \in Seq(PlainSignals) : nobody = <<>>
  <2>1. <<>> \in Seq(PlainSignals)
    OBVIOUS
  <2> QED BY <2>1
<1>3. /\ listeners = [k \in T!Signals \X T!Types |-> none]
      /\ signalled = [s \in T!Signals |-> FALSE] /\ reason = [s \in T!Signals |-> 0]
      /\ sources = [d \in DerivedSignals |-> nobody]
      /\ waits = [w \in Waiters |-> [sig |-> 0, types |-> {}, depth |-> 0, st |-> "unused"]]
      /\ stack = <<>> /\ thrown = FALSE /\ eventCalls = 0
      /\ given = [s \in PlainSignals |-> {}]
  BY <1>1, <1>2 DEF T!EventInit
<1>4. Elements(none) = {} /\ Len(nobody) = 0 /\ Len(stack) = 0
  <2>1. Len(none) = 0 /\ 1..0 = {}
    BY <1>1
  <2> QED BY <2>1, <1>2, <1>3 DEF Elements
<1>5. listeners \in [Places -> Seq(ListenerType)] /\ \A k \in Places : listeners[k] = none
  BY <1>1, <1>3 DEF Places
<1>6. PICK u : u = [sig |-> 0, types |-> {}, depth |-> 0, st |-> "unused"]
  OBVIOUS
<1>7. u \in WaitType /\ u.st = "unused"
  BY <1>6 DEF WaitType
<1>8. waits = [w \in Waiters |-> u]
  BY <1>3, <1>6
<1>9. \A k \in Places : \A l : ~Stands(listeners, k, l)
  BY <1>4, <1>5 DEF Stands
<1>10. TgTypes
  BY <1>2, <1>3, <1>4, <1>5, <1>7, <1>8 DEF TgTypes
<1>11. Waiting(listeners, waits)
  BY <1>7, <1>8, <1>9 DEF Waiting, WaitSound
<1>12. Deriving(listeners, sources, signalled, reason, given, stack)
  <2>1. ASSUME NEW d \in DerivedSignals
        PROVE  Distinct(sources[d]) /\ AnySound(d, listeners, sources, signalled, stack) /\ ~signalled[d]
    <3>1. Len(sources[d]) = 0 /\ 1..0 = {} /\ 0 \in 0..0
      BY <1>3, <1>4
    <3>2. ~signalled[d]
      BY <1>3, TgNumbers
    <3>3. Distinct(sources[d])
      BY <3>1 DEF Distinct
    <3>4. ~Aborts(d, signalled, stack)
      BY <3>2, <1>3, <1>4 DEF Aborts, Elements
    <3>5. AnySound(d, listeners, sources, signalled, stack)
      BY <3>1, <3>4, <1>9 DEF AnySound
    <3> QED BY <3>2, <3>3, <3>5
  <2> QED BY <2>1 DEF Deriving
<1>13. Plain(signalled, reason, given)
  BY <1>3, TgNumbers DEF Plain
<1>14. StackSound(stack, waits, sources, signalled, reason, given) /\ Prompt(stack, thrown)
  <2>1. 1..Len(stack) = {} /\ stack \in Seq(FrameType)
    BY <1>3, <1>4
  <2> QED BY <2>1 DEF StackSound, Prompt
<1> QED BY <1>10, <1>11, <1>12, <1>13, <1>14 DEF TgInv

LEMMA TgStep ==
  ASSUME TgInv, [T!EventNext]_eventVars
  PROVE  TgInv'
<1>1. CASE UNCHANGED eventVars
  <2>1. /\ listeners' = listeners /\ signalled' = signalled /\ reason' = reason /\ sources' = sources
        /\ waits' = waits /\ stack' = stack /\ thrown' = thrown /\ eventCalls' = eventCalls /\ given' = given
    BY <1>1 DEF eventVars
  <2>2. TgTypes'
    BY <2>1, TgGiven DEF TgTypes
  <2> QED BY <2>1, <2>2, TgGiven DEF TgInv
<1>2. ASSUME T!Called, NEW s \in T!Signals, NEW t \in T!Types, T!addEventListener(s, t) \/ T!removeEventListener(s, t)
      PROVE  TgInv'
  BY <1>2, ListensKeeps
<1>3. ASSUME T!Called, NEW s \in T!Signals, T!SetOnabort(s) \/ T!Fire(s) PROVE TgInv'
  BY <1>3, SetOnabortKeeps, FireKeeps
<1>4. ASSUME T!Called, NEW w \in Waiters, NEW s \in T!Signals, NEW types \in (SUBSET T!Types) \ {{}}, T!waitOne(w, s, types)
      PROVE  TgInv'
  BY <1>4, WaitOneKeeps
<1>5. ASSUME T!Called, NEW s \in PlainSignals, T!abort(s) PROVE TgInv'
  BY <1>5, AbortKeeps
<1>6. ASSUME T!Called, NEW d \in DerivedSignals, NEW sigs \in T!SourceLists, T!any(d, sigs) PROVE TgInv'
  BY <1>6, AnyKeeps
<1>7. T!Return \/ T!Unwind \/ T!BeginDispatch \/ T!CopyListeners \/ T!CallListener \/ T!EndDispatch => TgInv'
  BY ReturnKeeps, UnwindKeeps, BeginKeeps, CopyKeeps, CallListenerKeeps, EndKeeps
<1>8. CASE T!EventNext
  BY <1>8, <1>2, <1>3, <1>4, <1>5, <1>6, <1>7 DEF T!EventNext
<1> QED BY <1>1, <1>8

LEMMA RangeIs ==
  ASSUME NEW A1, NEW s \in Seq(A1)
  PROVE  T!Range(s) = Elements(s)
BY DEF T!Range, Elements

LEMMA AnyMeans ==
  ASSUME TgInv
  PROVE  T!AnyBehind
<1> SUFFICES ASSUME NEW d \in DerivedSignals
             PROVE  /\ signalled[d] => \E s \in T!Range(sources[d]) : signalled[s] /\ reason[d] \in given[s]
                    /\ signalled[d] \/ T!Dispatch(d, "abort") \in T!Range(stack)
                         <=> \E s \in T!Range(sources[d]) : AnyHandler(d) \notin T!Range(listeners[<<s, "abort">>])
                    /\ \A i, j \in DOMAIN sources[d] :
                         i < j /\ AnyHandler(d) \in T!Range(listeners[<<sources[d][j], "abort">>])
                           => AnyHandler(d) \in T!Range(listeners[<<sources[d][i], "abort">>])
  BY DEF T!AnyBehind, AnyHandler
<1>1. PICK q \in Seq(PlainSignals) : q = sources[d]
  BY SignalTypes
<1>2. T!Range(q) = Elements(q) /\ DOMAIN q = 1..Len(q) /\ \A i \in 1..Len(q) : q[i] \in T!Signals
  <2>1. T!Range(q) = Elements(q)
    BY RangeIs
  <2>2. PlainSignals \subseteq T!Signals
    BY TgNumbers
  <2> QED BY <2>1, <2>2
<1>n. PICK n \in Nat : n = Len(q)
  OBVIOUS
<1>3. T!Range(stack) = Elements(stack)
  BY TgGiven, RangeIs
<1>4. ASSUME NEW s \in T!Signals
      PROVE  AnyHandler(d) \in T!Range(listeners[<<s, "abort">>]) <=> Stands(listeners, <<s, "abort">>, AnyHandler(d))
  <2>1. <<s, "abort">> \in Places
    BY DEF Places, T!Types
  <2>2. listeners[<<s, "abort">>] \in Seq(ListenerType)
    BY <2>1, SignalTypes
  <2> QED BY <2>2, RangeIs DEF Stands
<1>5. /\ Distinct(q) /\ AnySound(d, listeners, sources, signalled, stack)
      /\ (signalled[d] => Behind(d, sources, signalled, reason, given))
  BY <1>1, TgGiven DEF Deriving
<1>6. PICK u \in 0..n :
        /\ \A k \in Places : Stands(listeners, k, AnyHandler(d)) <=> k[2] = "abort" /\ \E i \in 1..u : q[i] = k[1]
        /\ signalled[d] \/ T!Dispatch(d, "abort") \in Elements(stack) <=> u # n
  BY <1>1, <1>5, <1>n DEF AnySound, Aborts
<1>7. ASSUME NEW j \in 1..n
      PROVE  AnyHandler(d) \in T!Range(listeners[<<q[j], "abort">>]) <=> j <= u
  <2>1. q[j] \in T!Signals
    BY <1>2, <1>n
  <2>2. PICK k \in Places : k = <<q[j], "abort">> /\ k[1] = q[j] /\ k[2] = "abort"
    <3>1. <<q[j], "abort">> \in Places
      BY <2>1 DEF Places, T!Types
    <3> QED BY <3>1
  <2>3. AnyHandler(d) \in T!Range(listeners[<<q[j], "abort">>]) <=> \E i \in 1..u : q[i] = q[j]
    BY <2>1, <2>2, <1>4, <1>6
  <2>4. \A i \in 1..u : i \in 1..n
    BY <1>6
  <2>5. \A i \in 1..u : q[i] = q[j] => i = j
    BY <2>4, <1>5, <1>n DEF Distinct
  <2>6. j \in 1..u <=> j <= u
    BY <1>6
  <2> QED BY <2>3, <2>5, <2>6
<1>8. signalled[d] => \E s \in Elements(q) : signalled[s] /\ reason[d] \in given[s]
  BY <1>1, <1>5 DEF Behind, Elements
<1>9. ASSUME ~signalled[d], T!Dispatch(d, "abort") \notin Elements(stack), NEW s \in Elements(q)
      PROVE  AnyHandler(d) \in T!Range(listeners[<<s, "abort">>])
  <2>1. PICK j \in 1..n : s = q[j]
    BY <1>n DEF Elements
  <2>2. u = n
    BY <1>6, <1>9
  <2>3. j <= u
    BY <2>2
  <2> QED BY <2>1, <2>3, <1>7
<1>11. ASSUME signalled[d] \/ T!Dispatch(d, "abort") \in Elements(stack)
       PROVE  \E s \in Elements(q) : AnyHandler(d) \notin T!Range(listeners[<<s, "abort">>])
  <2>1. n \in 1..n /\ ~(n <= u)
    BY <1>6, <1>11
  <2>2. q[n] \in Elements(q)
    BY <2>1, <1>n DEF Elements
  <2> QED BY <2>1, <2>2, <1>7
<1>10. ASSUME NEW i \in 1..n, NEW j \in 1..n, i < j, AnyHandler(d) \in T!Range(listeners[<<q[j], "abort">>])
       PROVE  AnyHandler(d) \in T!Range(listeners[<<q[i], "abort">>])
  <2>1. j <= u
    BY <1>7, <1>10
  <2>2. i <= u
    BY <2>1, <1>6, <1>10
  <2> QED BY <2>2, <1>7
<1> QED BY <1>1, <1>2, <1>n, <1>3, <1>8, <1>9, <1>10, <1>11

LEMMA WaitsMean ==
  ASSUME TgInv
  PROVE  T!WaitsKept
<1>1. ASSUME NEW w \in Waiters, NEW u, u = waits[w], NEW places,
             places = {k \in DOMAIN listeners : WaitHandler(w) \in T!Range(listeners[k])}
      PROVE  /\ u.st = "pending" => places = {u.sig} \X u.types
             /\ u.st # "pending" => places = {}
             /\ u.st \in {"unused", "pending"} \union u.types
  <2>1. DOMAIN listeners = Places
    BY SignalTypes
  <2>2. ASSUME NEW k \in Places PROVE WaitHandler(w) \in T!Range(listeners[k]) <=> Stands(listeners, k, WaitHandler(w))
    <3>1. listeners[k] \in Seq(ListenerType)
      BY SignalTypes
    <3> QED BY <3>1, RangeIs DEF Stands
  <2>3. WaitSound(w, u, listeners)
    BY <1>1, TgGiven DEF Waiting
  <2>4. \A k \in Places : k \in places <=> u.st = "pending" /\ k[1] = u.sig /\ k[2] \in u.types
    BY <2>1, <2>2, <2>3, <1>1 DEF WaitSound
  <2>5. places \subseteq Places
    BY <2>1, <1>1
  <2>6. u \in WaitType
    BY <1>1, SignalTypes
  <2>7. ASSUME u.st = "pending" PROVE places = {u.sig} \X u.types
    <3>1. u.sig \in T!Signals /\ u.types \subseteq T!Types
      BY <2>3, <2>6, <2>7 DEF WaitSound, WaitType
    <3>2. {u.sig} \X u.types \subseteq Places
      BY <3>1 DEF Places
    <3>3. \A k \in Places : k \in places <=> k[1] = u.sig /\ k[2] \in u.types
      BY <2>4, <2>7
    <3>4. \A k \in Places : k \in {u.sig} \X u.types <=> k[1] = u.sig /\ k[2] \in u.types
      BY DEF Places
    <3> QED BY <3>2, <3>3, <3>4, <2>5
  <2>8. u.st # "pending" => places = {}
    BY <2>4, <2>5
  <2> QED BY <2>3, <2>7, <2>8 DEF WaitSound
<1> QED BY <1>1 DEF T!WaitsKept, WaitHandler

LEMMA EventsMean ==
  ASSUME TgInv
  PROVE  T!EventsTold
<1>1. ASSUME NEW i \in DOMAIN stack, NEW f, f = stack[i]
      PROVE  /\ f.op = "dispatch" /\ f.at = "calls" =>
                  \A w \in Waiters :
                    waits[w].st = "pending" /\ waits[w].sig = f.sig /\ f.type \in waits[w].types /\ waits[w].depth < i =>
                      WaitHandler(w) \in T!Range(f.queue)
             /\ f.op = "dispatch" /\ f.at # "begin" /\ f.type = "abort" =>
                  signalled[f.sig] /\ (f.sig \in PlainSignals => reason[f.sig] \in given[f.sig])
  <2>1. i \in 1..Len(stack)
    BY TgGiven
  <2>2. f \in FrameType /\ FrameSound(f, i, waits, sources, signalled, reason, given)
    BY <2>1, <1>1, TgGiven, StackGiven
  <2>3. T!Range(f.queue) = Elements(f.queue)
    BY <2>2, RangeIs DEF FrameType
  <2> QED BY <2>2, <2>3 DEF FrameSound
<1> QED BY <1>1 DEF T!EventsTold, WaitHandler

\* What the properties of the events say follows from the invariant.
LEMMA TgMeans ==
  ASSUME TgInv
  PROVE  T!AnyBehind /\ T!WaitsKept /\ T!EventsTold
BY AnyMeans, WaitsMean, EventsMean

-----------------------------------------------------------------------------
(***************************************************************************)
(* MCNetwork: in each of its behaviours one of the parts moves.            *)
(***************************************************************************)
LEMMA PartsMove ==
  ASSUME [Next]_vars
  PROVE  /\ [SockNext]_sockVars /\ [M!MyNext]_myVars /\ [P!PgNext]_pgVars
         /\ [T!EventNext]_eventVars /\ [E!EmitterNext]_emitterVars
<1>1. CASE UNCHANGED vars
  BY <1>1 DEF vars
<1>2. CASE Next
  BY <1>2 DEF Next
<1> QED BY <1>1, <1>2

LEMMA PartsStart == Init => SockInit /\ M!MyInit /\ P!PgInit /\ T!EventInit /\ E!EmitterInit
BY DEF Init

\* The types, and the descriptors of sockets, of all three for ever.
THEOREM TypeCorrect == Spec => []TypeOK
<1>1. Init => IInv /\ MyInv /\ PgInv
  BY PartsStart, InitIInv, MyStart, PgStart
<1>2. IInv /\ MyInv /\ PgInv /\ [Next]_vars => IInv' /\ MyInv' /\ PgInv'
  BY PartsMove, NextIInv, MyStep, PgStep
<1>3. IInv /\ MyInv /\ PgInv => TypeOK
  BY MyMeans DEF IInv, PgInv, TypeOK
<1> QED BY <1>1, <1>2, <1>3, PTL DEF Spec

\* A connection and a result of PostgreSQL are counted once for each object, result,
\* iterator or connection that holds them, whoever is replaced, closed or collected first.
THEOREM CountsAreRight == Spec => []RefsCounted
<1>1. Init => PgInv
  BY PartsStart, PgStart
<1>2. PgInv /\ [Next]_vars => PgInv'
  BY PartsMove, PgStep
<1>3. PgInv => RefsCounted
  BY DEF PgInv, RefsCounted
<1> QED BY <1>1, <1>2, <1>3, PTL DEF Spec

\* The handlers of both database clients are the ones that their operations want, and
\* none goes on with an operation of a MySQL connection that was closed.
THEOREM HandlersAreTheirs ==
  Spec => [](M!HandlersAsWanted /\ M!NothingGoesOnAfterClose /\ P!HandlersServeTheirPromise)
<1>1. Init => MyInv /\ PgInv
  BY PartsStart, MyStart, PgStart
<1>2. MyInv /\ PgInv /\ [Next]_vars => MyInv' /\ PgInv'
  BY PartsMove, MyStep, PgStep
<1>3. MyInv /\ PgInv => M!HandlersAsWanted /\ M!NothingGoesOnAfterClose /\ P!HandlersServeTheirPromise
  BY MyMeans DEF PgInv
<1> QED BY <1>1, <1>2, <1>3, PTL DEF Spec

\* Nor are the handlers of events called but for what they listen to: whoever waits for an
\* event stands with all of its signals until it came, is called by a dispatch that finds
\* it there, and leaves nothing behind; any() is aborted exactly if a source was when it was
\* called, for its reason; and an emit() calls its handlers in the order of their
\* registrations, none that was removed but after removeAllListeners(), passes over no more
\* of them than were removed meanwhile, and calls those of once() once.
THEOREM HandlersStayTheirs == Spec => []HandlersBelong
<1> DEFINE Parts == MyInv /\ PgInv /\ TgInv /\ EmInv
<1>1. Init => Parts
  BY PartsStart, MyStart, PgStart, TgStart, EmStart
<1>2. Parts /\ [Next]_vars => Parts'
  BY PartsMove, MyStep, PgStep, TgStep, EmStep
<1>3. Parts => HandlersBelong
  <2> SUFFICES ASSUME Parts PROVE HandlersBelong
    OBVIOUS
  <2>1. M!HandlersAsWanted /\ M!NothingGoesOnAfterClose /\ P!HandlersServeTheirPromise
    BY MyMeans DEF PgInv
  <2>2. T!AnyBehind /\ T!WaitsKept /\ T!EventsTold
    BY TgMeans
  <2>3. E!CalledInOrder /\ E!NoneAfterRemoval /\ E!HidesNoMore /\ E!OnceOnly
    BY EmMeans
  <2> QED BY <2>1, <2>2, <2>3 DEF HandlersBelong
<1> QED BY <1>1, <1>2, <1>3, PTL DEF Spec

\* The sockets of MCNetwork are those of AsyncSocket, whose theorems hold here too.
THEOREM SocketsAreSockets == Spec => SockSpec
<1>1. Init => SockInit
  BY PartsStart
<1>2. [Next]_vars => [SockNext]_sockVars
  BY PartsMove
<1> QED BY <1>1, <1>2, PTL DEF Spec, SockSpec
=============================================================================
