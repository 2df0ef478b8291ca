------------------------- MODULE PropertyRecursion -------------------------
(***************************************************************************)
(* PropertyEnumeration and the stacks of them on which quickjs-deep.c and  *)
(* quickjs-tree-walker.c go through nested objects                         *)
(* (src/include/property-enumeration.h, src/src/property-enumeration.c).   *)
(*                                                                         *)
(* "heap" gives the own enumerable properties of each object in their      *)
(* order; a value that is not an object of "heap" is a leaf.  A frame      *)
(* keeps the keys that its object had when the frame was pushed.           *)
(***************************************************************************)
EXTENDS Integers, Sequences, SequencesExt

UNDEFINED == "undefined"
EXCEPTION == "exception"

Keys(heap, obj) == [i \in DOMAIN heap[obj] |-> heap[obj][i].key]

JS_IsObject(heap, v) == v \in DOMAIN heap

JS_HasProperty(heap, v, key) ==
  JS_IsObject(heap, v) /\ \E i \in DOMAIN heap[v] : heap[v][i].key = key

JS_GetProperty(heap, v, key) ==
  CASE v \in {UNDEFINED, EXCEPTION} -> EXCEPTION
    [] JS_HasProperty(heap, v, key) ->
         LET at == CHOOSE i \in DOMAIN heap[v] : heap[v][i].key = key IN heap[v][at].value
    [] OTHER -> UNDEFINED

\* Setting and deleting a property of an object.
JS_SetProperty(heap, obj, key, value) ==
  IF JS_HasProperty(heap, obj, key)
  THEN [heap EXCEPT ![obj] = [i \in DOMAIN @ |->
          IF @[i].key = key THEN [key |-> key, value |-> value] ELSE @[i]]]
  ELSE [heap EXCEPT ![obj] = Append(@, [key |-> key, value |-> value])]

JS_DeleteProperty(heap, obj, key) ==
  [heap EXCEPT ![obj] = SelectSeq(@, LAMBDA entry : entry.key # key)]

-----------------------------------------------------------------------------
property_enumeration_init(heap, obj) == [obj |-> obj, keys |-> Keys(heap, obj), idx |-> 0]

property_enumeration_value(heap, it) ==
  IF it.idx < Len(it.keys) THEN JS_GetProperty(heap, it.obj, it.keys[it.idx + 1]) ELSE EXCEPTION

\* A position counts from the end if it is negative; the end itself can be moved
\* to, and is no success.
Resolved(it, idx) == IF idx < 0 THEN idx + Len(it.keys) ELSE idx
property_enumeration_setpos(it, idx) ==
  IF Resolved(it, idx) \in 0..Len(it.keys) THEN [it EXCEPT !.idx = Resolved(it, idx)] ELSE it
SetposWorks(it, idx) == Resolved(it, idx) \in 0..(Len(it.keys) - 1)

-----------------------------------------------------------------------------
property_recursion_circular(frames, v) == \E i \in DOMAIN frames : frames[i].obj = v

\* An object without properties gives no frame.
property_recursion_push(heap, frames, obj) ==
  IF heap[obj] = <<>> THEN frames ELSE Append(frames, property_enumeration_init(heap, obj))

\* To the next property of the innermost frame that has one; what is left is popped.
property_recursion_skip(frames) ==
  LET open == {d \in DOMAIN frames : SetposWorks(frames[d], frames[d].idx + 1)}
      d == CHOOSE n \in open : \A m \in open : m <= n
  IN IF open = {} THEN <<>>
     ELSE Append(SubSeq(frames, 1, d - 1), property_enumeration_setpos(frames[d], frames[d].idx + 1))

\* Into the value of the present property, if it is an object with properties that
\* is not being gone through already, and else on.
property_recursion_next(heap, frames) ==
  IF frames = <<>> THEN <<>>
  ELSE LET v == property_enumeration_value(heap, Last(frames))
       IN IF JS_IsObject(heap, v) /\ ~property_recursion_circular(frames, v) /\ heap[v] # <<>>
          THEN property_recursion_push(heap, frames, v)
          ELSE property_recursion_skip(frames)

\* Into the value whatever it is; its callers see to it that it is an object.
property_recursion_enter(heap, frames, idx) ==
  LET v == property_enumeration_value(heap, Last(frames))
      pushed == property_recursion_push(heap, frames, v)
  IN IF pushed = frames THEN frames
     ELSE Append(frames, property_enumeration_setpos(Last(pushed), idx))

\* property_recursion_path(), property_recursion_pointer(); and the same in numbers.
property_recursion_path(frames) == [i \in DOMAIN frames |-> frames[i].keys[frames[i].idx + 1]]
NodeOf(frames) == [i \in DOMAIN frames |-> frames[i].idx + 1]

-----------------------------------------------------------------------------
(***************************************************************************)
(* What the traversals are measured with: where a path leads, and the      *)
(* nodes under an object in document order.  A node is given by the        *)
(* numbers of the properties that lead to it.                              *)
(***************************************************************************)
RECURSIVE Follow(_, _, _)
Follow(heap, v, path) ==
  IF path = <<>> THEN v ELSE Follow(heap, JS_GetProperty(heap, v, Head(path)), Tail(path))

RECURSIVE PathOfNode(_, _, _)
PathOfNode(heap, obj, node) ==
  IF node = <<>> THEN <<>>
  ELSE LET entry == heap[obj][Head(node)]
       IN <<entry.key>> \o PathOfNode(heap, entry.value, Tail(node))

ValueOfNode(heap, root, node) == Follow(heap, root, PathOfNode(heap, root, node))

\* "above" are the objects on the way, in none of which an object is looked into
\* again; those in "closed" are not looked into either, nor anything below "max".
RECURSIVE NodesUnder(_, _, _, _, _, _)
NodesUnder(heap, obj, node, above, closed, max) ==
  FlattenSeq([i \in DOMAIN heap[obj] |->
    LET v == heap[obj][i].value
        here == Append(node, i)
    IN <<here>> \o IF JS_IsObject(heap, v) /\ v \notin above \union closed /\ Len(here) < max
                   THEN NodesUnder(heap, v, here, above \union {v}, closed, max)
                   ELSE <<>>])

\* "b" comes after "a" in document order.
After(a, b) == \/ IsStrictPrefix(a, b)
               \/ \E i \in DOMAIN a \intersect DOMAIN b :
                    SubSeq(a, 1, i - 1) = SubSeq(b, 1, i - 1) /\ a[i] < b[i]
=============================================================================
