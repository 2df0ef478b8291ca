---------------------------- MODULE EventTarget ----------------------------
(***************************************************************************)
(* EventTarget and waitOne() (lib/events.js), AbortSignal and              *)
(* AbortController (lib/abort.js).  A listener is called while another     *)
(* call of dispatchEvent() is on the stack, and may do anything that the   *)
(* program may do: "stack" holds what has been called and not returned.    *)
(* An exception goes up through it to whoever catches it.                  *)
(*                                                                         *)
(* The program aborts plain signals; the handler that AbortSignal.any()    *)
(* leaves with them asks for its "this", which dispatchEvent() does not    *)
(* give, so it throws.                                                     *)
(***************************************************************************)
EXTENDS Integers, Sequences, SequencesExt, Removals

CONSTANTS
  PlainSignals, DerivedSignals,   \* signals that are made by the program, and by any()
  Waiters,                   \* calls of waitOne()
  MaxEventCalls, MaxDispatch \* bounds of the program's calls, and of dispatches at once

Signals == PlainSignals \union DerivedSignals
Types == {"abort", "ping"}

VARIABLES
  listeners,   \* for each signal and type
  aborted, reason, onabort,
  sources,     \* what any() was given for a derived signal; <<>> before
  waits,       \* the calls of waitOne(): where, for what, under how many calls, and what they gave
  stack, thrown,
  eventCalls,
  given        \* the reasons that each plain signal was aborted for

eventVars == <<listeners, aborted, reason, onabort, sources, waits, stack, thrown, eventCalls, given>>

-----------------------------------------------------------------------------
\* A listener: the program's, the handler of a waitOne(), or that of an any().
Listener(kind, of) == [kind |-> kind, of |-> of]
User == Listener("user", 0)

\* What is called: dispatchEvent() of a signal, or a function of the program.
Frame(op, sig, type, queue, at) == [op |-> op, sig |-> sig, type |-> type, queue |-> queue, at |-> at]
UserCode == Frame("user", 0, "none", <<>>, "none")
Dispatch(sig, type) == Frame("dispatch", sig, type, <<>>, "begin")

EventInit ==
  /\ listeners = [k \in Signals \X Types |-> <<>>]
  /\ aborted = [s \in Signals |-> FALSE] /\ reason = [s \in Signals |-> 0]
  /\ onabort = [s \in Signals |-> FALSE]
  /\ sources = [d \in DerivedSignals |-> <<>>]
  /\ waits = [w \in Waiters |-> [sig |-> 0, types |-> {}, depth |-> 0, st |-> "unused"]]
  /\ stack = <<>> /\ thrown = FALSE /\ eventCalls = 0
  /\ given = [s \in PlainSignals |-> {}]

\* The program's code runs outside of every call, or in one of its functions.
Runs == ~thrown /\ IF stack = <<>> THEN TRUE ELSE Last(stack).op = "user"
Called == Runs /\ eventCalls < MaxEventCalls /\ eventCalls' = eventCalls + 1 /\ UNCHANGED thrown
Room == Len(SelectSeq(stack, LAMBDA f : f.op = "dispatch")) < MaxDispatch

removeAll(arr, elem) == Remaining(arr, {elem})
Without(ls, sigs, types, l) ==
  [k \in DOMAIN ls |-> IF k[1] \in sigs /\ k[2] \in types THEN removeAll(ls[k], l) ELSE ls[k]]
With(ls, sigs, types, l) ==
  [k \in DOMAIN ls |-> IF k[1] \in sigs /\ k[2] \in types THEN Append(ls[k], l) ELSE ls[k]]

-----------------------------------------------------------------------------
(***************************************************************************)
(* The program's calls.                                                    *)
(***************************************************************************)
addEventListener(s, t) ==
  /\ listeners' = With(listeners, {s}, {t}, User)
  /\ UNCHANGED <<aborted, reason, onabort, sources, waits, stack, given>>

removeEventListener(s, t) ==
  /\ listeners' = Without(listeners, {s}, {t}, User)
  /\ UNCHANGED <<aborted, reason, onabort, sources, waits, stack, given>>

SetOnabort(s) ==
  /\ onabort' = [onabort EXCEPT ![s] = ~@]
  /\ UNCHANGED <<listeners, aborted, reason, sources, waits, stack, given>>

Fire(s) ==
  /\ Room /\ stack' = Append(stack, Dispatch(s, "ping"))
  /\ UNCHANGED <<listeners, aborted, reason, onabort, sources, waits, given>>

waitOne(w, s, types) ==
  /\ waits[w].st = "unused"
  /\ waits' = [waits EXCEPT ![w] = [sig |-> s, types |-> types, depth |-> Len(stack), st |-> "pending"]]
  /\ listeners' = With(listeners, {s}, types, Listener("wait", w))
  /\ UNCHANGED <<aborted, reason, onabort, sources, stack, given>>

\* AbortController.abort(), also that of AbortSignal.abort() and timeout().  Each call
\* has a reason of its own.
abort(s) ==
  /\ Room /\ reason' = [reason EXCEPT ![s] = eventCalls + 1]
  /\ given' = [given EXCEPT ![s] = @ \union {eventCalls + 1}]
  /\ stack' = Append(stack, Dispatch(s, "abort"))
  /\ UNCHANGED <<listeners, aborted, onabort, sources, waits>>

\* Up to the first signal that is aborted, each gets the handler.
AddsUntil(sigs) ==
  LET known == {i \in DOMAIN sigs : aborted[sigs[i]]} IN IF known = {} THEN Len(sigs) ELSE Min(known) - 1

any(d, sigs) ==
  LET upto == AddsUntil(sigs)
  IN /\ sources[d] = <<>> /\ Room
     /\ sources' = [sources EXCEPT ![d] = sigs]
     /\ listeners' = With(listeners, Range(SubSeq(sigs, 1, upto)), {"abort"}, Listener("any", d))
     /\ IF upto < Len(sigs)
        THEN /\ reason' = [reason EXCEPT ![d] = reason[sigs[upto + 1]]]
             /\ stack' = Append(stack, Dispatch(d, "abort"))
        ELSE UNCHANGED <<reason, stack>>
     /\ UNCHANGED <<aborted, onabort, waits, given>>

\* A function of the program ends, in one way or the other.
Return ==
  /\ Runs /\ stack # <<>> /\ stack' = Front(stack) /\ thrown' \in BOOLEAN
  /\ UNCHANGED <<listeners, aborted, reason, onabort, sources, waits, eventCalls, given>>

\* An exception ends what is called, unless it is the program's function and catches it.
Unwind ==
  /\ thrown
  /\ \/ stack # <<>> /\ stack' = Front(stack) /\ UNCHANGED thrown
     \/ (IF stack = <<>> THEN TRUE ELSE Last(stack).op = "user") /\ thrown' = FALSE /\ UNCHANGED stack
  /\ UNCHANGED <<listeners, aborted, reason, onabort, sources, waits, eventCalls, given>>

-----------------------------------------------------------------------------
(***************************************************************************)
(* dispatchEvent().                                                        *)
(***************************************************************************)
Top == Last(stack)
Dispatching(at) == ~thrown /\ stack # <<>> /\ Top.op = "dispatch" /\ Top.at = at
CallsOn(sig, type) == IF type = "abort" /\ onabort[sig] THEN <<UserCode>> ELSE <<>>

\* AbortSignal.dispatchEvent(), up to the call of onabort.
BeginDispatch ==
  /\ Dispatching("begin")
  /\ aborted' = IF Top.type = "abort" THEN [aborted EXCEPT ![Top.sig] = TRUE] ELSE aborted
  /\ stack' = Append(Front(stack), [Top EXCEPT !.at = "copy"]) \o CallsOn(Top.sig, Top.type)
  /\ UNCHANGED <<listeners, reason, onabort, sources, waits, thrown, eventCalls, given>>

\* EventTarget.dispatchEvent(): the listeners are those of this moment.
CopyListeners ==
  /\ Dispatching("copy")
  /\ stack' = Append(Front(stack), [Top EXCEPT !.at = "calls", !.queue = listeners[Top.sig, Top.type]])
  /\ UNCHANGED <<listeners, aborted, reason, onabort, sources, waits, thrown, eventCalls, given>>

Popped == Append(Front(stack), [Top EXCEPT !.queue = Tail(@)])

CallUser(l) ==
  /\ l = User /\ stack' = Append(Popped, UserCode)
  /\ UNCHANGED <<listeners, waits, thrown>>

\* The handler of waitOne(): resolve() counts once.
CallWaiter(l) ==
  /\ l.kind = "wait" /\ stack' = Popped
  /\ listeners' = Without(listeners, {waits[l.of].sig}, waits[l.of].types, l)
  /\ waits' = [waits EXCEPT ![l.of].st = IF @ = "pending" THEN Top.type ELSE @]
  /\ UNCHANGED thrown

\* abort() of any(): this.reason of no object, before anything is done.
CallAny(l) ==
  /\ l.kind = "any" /\ stack' = Popped /\ thrown' = TRUE
  /\ UNCHANGED <<listeners, waits>>

CallListener ==
  /\ Dispatching("calls") /\ Top.queue # <<>>
  /\ LET l == Head(Top.queue) IN CallUser(l) \/ CallWaiter(l) \/ CallAny(l)
  /\ UNCHANGED <<aborted, reason, onabort, sources, eventCalls, given>>

\* The property on... of the target comes last, and for onabort a second time.
EndDispatch ==
  /\ Dispatching("calls") /\ Top.queue = <<>>
  /\ stack' = Front(stack) \o CallsOn(Top.sig, Top.type)
  /\ UNCHANGED <<listeners, aborted, reason, onabort, sources, waits, thrown, eventCalls, given>>

\* What any() may be given: plain signals, each once.
SourceLists == {sigs \in UNION {[1..n -> PlainSignals] : n \in 1..2} : IsInjective(sigs)}

EventNext ==
  \/ /\ Called
     /\ \/ \E s \in Signals, t \in Types : addEventListener(s, t) \/ removeEventListener(s, t)
        \/ \E s \in Signals : SetOnabort(s) \/ Fire(s)
        \/ \E w \in Waiters, s \in Signals, types \in (SUBSET Types) \ {{}} : waitOne(w, s, types)
        \/ \E s \in PlainSignals : abort(s)
        \/ \E d \in DerivedSignals, sigs \in SourceLists : any(d, sigs)
  \/ Return \/ Unwind \/ BeginDispatch \/ CopyListeners \/ CallListener \/ EndDispatch

-----------------------------------------------------------------------------
(***************************************************************************)
(* Properties.                                                             *)
(***************************************************************************)
\* A signal of any() is aborted by any() itself or never: exactly when one of its sources
\* was aborted then, which is seen by the handler that this one did not get, and for a
\* reason of a source that is aborted.  It follows no source that is aborted later, and its
\* handlers stay with all sources in front of the first that was aborted.
AnyBehind ==
  \A d \in DerivedSignals :
    LET listens(s) == Listener("any", d) \in Range(listeners[<<s, "abort">>])
        from == sources[d]
    IN /\ aborted[d] => \E s \in Range(from) : aborted[s] /\ reason[d] \in given[s]
       /\ aborted[d] \/ Dispatch(d, "abort") \in Range(stack) <=> \E s \in Range(from) : ~listens(s)
       /\ \A i, j \in DOMAIN from : i < j /\ listens(from[j]) => listens(from[i])

\* A waitOne() waits for every one of its events as long as it was called for none of
\* them, and leaves no handler behind when it was, although copies of the listeners may
\* still call it and others throw: what it gave is the first, and one it waited for.
WaitsKept ==
  \A w \in Waiters :
    LET places == {k \in DOMAIN listeners : Listener("wait", w) \in Range(listeners[k])}
    IN /\ waits[w].st = "pending" => places = {waits[w].sig} \X waits[w].types
       /\ waits[w].st # "pending" => places = {}
       /\ waits[w].st \in {"unused", "pending"} \union waits[w].types

\* Of an event that is told, whoever began to wait for it before has heard or is still
\* to be called; and who hears of an abort finds its signal aborted, with a reason.
EventsTold ==
  \A i \in DOMAIN stack :
    LET f == stack[i] IN
      /\ f.op = "dispatch" /\ f.at = "calls" =>
           \A w \in Waiters :
             waits[w].st = "pending" /\ waits[w].sig = f.sig /\ f.type \in waits[w].types /\ waits[w].depth < i =>
               Listener("wait", w) \in Range(f.queue)
      /\ f.op = "dispatch" /\ f.at # "begin" /\ f.type = "abort" =>
           aborted[f.sig] /\ (f.sig \in PlainSignals => reason[f.sig] \in given[f.sig])
=============================================================================
