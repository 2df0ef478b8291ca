---------------------------- MODULE EventEmitter ----------------------------
(***************************************************************************)
(* EventEmitter (lib/events.js), for one type of event.  emit() goes       *)
(* through the array of handlers itself and not through a copy, while the  *)
(* handlers add and remove others and emit again.  The array is dropped    *)
(* when it becomes empty or all handlers are removed, and a new one begun, *)
(* but a running emit() stays with its own.                                *)
(***************************************************************************)
EXTENDS Integers, Sequences, SequencesExt, Removals

CONSTANTS
  HandlerFns,               \* the functions of the program
  MaxEmitterCalls, MaxEmits \* bounds of the program's calls, and of emits at once

VARIABLES
  arrays,   \* every array of handlers that there was
  current,  \* the one that is in use; 0 is none
  emits,    \* emit() calls that have not returned, each with a function running or none
  fired,    \* how often the function of each handler was called
  parted,   \* removeAllListeners() was called during an emit()
  emitterCalls

emitterVars == <<arrays, current, emits, fired, parted, emitterCalls>>

-----------------------------------------------------------------------------
\* A handler is the function itself, or the callback that once() makes for it; each has
\* the number of its registration.
Handler(id, fn, once) == [id |-> id, fn |-> fn, once |-> once]
Registered == Len(fired)

\* "called" and "removed": what this emit() has called, and how many handlers were
\* taken out of its array meanwhile.
Emit(array) ==
  [array |-> array, next |-> 1, inside |-> FALSE, called |-> <<>>, removed |-> 0,
   start |-> {arrays[array][i].id : i \in DOMAIN arrays[array]}]

EmitterInit ==
  /\ arrays = <<>> /\ current = 0 /\ emits = <<>> /\ fired = <<>> /\ parted = FALSE /\ emitterCalls = 0

Runs == IF emits = <<>> THEN TRUE ELSE Last(emits).inside
Called == Runs /\ emitterCalls < MaxEmitterCalls /\ emitterCalls' = emitterCalls + 1

\* on(): behind the others, or the first of a new array.
on(handler) ==
  /\ fired' = Append(fired, 0)
  /\ IF current = 0
     THEN arrays' = Append(arrays, <<handler>>) /\ current' = Len(arrays) + 1
     ELSE arrays' = [arrays EXCEPT ![current] = Append(@, handler)] /\ UNCHANGED current

\* removeListener(): every handler that is this function; "running" are the emits.
InUse == IF current = 0 THEN {} ELSE Range(arrays[current])
removeListener(same, running) ==
  IF current = 0 THEN /\ emits' = running /\ UNCHANGED <<arrays, current>>
  ELSE LET kept == Remaining(arrays[current], same)
           gone == Len(arrays[current]) - Len(kept)
       IN /\ arrays' = [arrays EXCEPT ![current] = kept]
          /\ current' = IF kept = <<>> THEN 0 ELSE current
          /\ emits' = [i \in DOMAIN running |->
                         IF running[i].array = current
                         THEN [running[i] EXCEPT !.removed = @ + gone] ELSE running[i]]

On(fn) == on(Handler(Registered + 1, fn, FALSE)) /\ UNCHANGED <<emits, parted>>
Once(fn) == on(Handler(Registered + 1, fn, TRUE)) /\ UNCHANGED <<emits, parted>>

\* The function that was given to once() is not the one that is registered.
RemoveListener(fn) ==
  /\ removeListener({h \in InUse : h.fn = fn /\ ~h.once}, emits)
  /\ UNCHANGED <<fired, parted>>

removeAllListeners ==
  /\ current' = 0 /\ parted' = (parted \/ emits # <<>>)
  /\ UNCHANGED <<arrays, emits, fired>>

emit ==
  /\ Len(emits) < MaxEmits
  /\ emits' = IF current = 0 THEN emits ELSE Append(emits, Emit(current))
  /\ UNCHANGED <<arrays, current, fired, parted>>

-----------------------------------------------------------------------------
\* The next element of the array, as it is now; the callback of once() takes itself out
\* of the array in use before it calls the function.
CallNext ==
  /\ emits # <<>> /\ ~Last(emits).inside
  /\ LET e == Last(emits) IN
     /\ e.next <= Len(arrays[e.array])
     /\ LET h == arrays[e.array][e.next]
            entered == Append(Front(emits), [e EXCEPT !.next = @ + 1, !.inside = TRUE, !.called = Append(@, h.id)])
        IN /\ fired' = [fired EXCEPT ![h.id] = @ + 1]
           /\ IF h.once THEN removeListener({h}, entered)
              ELSE emits' = entered /\ UNCHANGED <<arrays, current>>
  /\ UNCHANGED <<parted, emitterCalls>>

HandlerReturns ==
  /\ emits # <<>> /\ Last(emits).inside
  /\ emits' = Append(Front(emits), [Last(emits) EXCEPT !.inside = FALSE])
  /\ UNCHANGED <<arrays, current, fired, parted, emitterCalls>>

\* An exception of a handler ends its emit(); the function that called this one goes on
\* or throws in turn.
HandlerThrows ==
  /\ emits # <<>> /\ Last(emits).inside
  /\ \E n \in 1..Len(emits) : emits' = SubSeq(emits, 1, n - 1)
  /\ UNCHANGED <<arrays, current, fired, parted, emitterCalls>>

EmitReturns ==
  /\ emits # <<>> /\ ~Last(emits).inside /\ Last(emits).next > Len(arrays[Last(emits).array])
  /\ emits' = Front(emits)
  /\ UNCHANGED <<arrays, current, fired, parted, emitterCalls>>

EmitterNext ==
  \/ /\ Called
     /\ \/ \E fn \in HandlerFns : On(fn) \/ Once(fn) \/ RemoveListener(fn)
        \/ removeAllListeners \/ emit
  \/ CallNext \/ HandlerReturns \/ HandlerThrows \/ EmitReturns

-----------------------------------------------------------------------------
(***************************************************************************)
(* Properties.                                                             *)
(***************************************************************************)
\* An emit() calls handlers in the order in which they were registered, none twice, also
\* when they add, remove and emit.
CalledInOrder ==
  \A i \in DOMAIN emits :
    \A j \in 1..(Len(emits[i].called) - 1) : emits[i].called[j] < emits[i].called[j + 1]

\* The array that an emit() goes through is the one that is in use or is empty: it calls no
\* handler that was taken out, unless removeAllListeners() left it an array of its own.
NoneAfterRemoval ==
  parted \/ \A i \in DOMAIN emits : emits[i].array = current \/ arrays[emits[i].array] = <<>>

\* At its end it has called every handler that was there at its start and still is,
\* except that each handler that was removed meanwhile can hide one of them.
HidesNoMore ==
  \A i \in DOMAIN emits :
    LET e == emits[i]
        passed == {arrays[e.array][j].id : j \in 1..Min({e.next - 1, Len(arrays[e.array])})}
    IN Cardinality((passed \intersect e.start) \ Range(e.called)) <= e.removed

\* What once() registered is called once, unless removeAllListeners() left it to a
\* running emit() in an array from which it cannot take itself out.
OnceOnly ==
  parted \/ \A a \in DOMAIN arrays : \A i \in DOMAIN arrays[a] : arrays[a][i].once => fired[arrays[a][i].id] = 0
=============================================================================
