-------------------------------- MODULE Deep --------------------------------
(***************************************************************************)
(* quickjs-deep.c: the DeepIterator, on objects that the program may       *)
(* change between two of its steps, and the functions that go through      *)
(* nested objects in one call.                                             *)
(*                                                                         *)
(* A step is one turn of the loop of next(); the program is told of a node *)
(* when the predicate's answer says so.                                    *)
(***************************************************************************)
EXTENDS PropertyRecursion, FiniteSets, TLC

CONSTANTS
  Root,         \* the object that is gone through
  JsArrays,     \* the objects that are arrays
  Spare,        \* the objects that set() makes
  DeepOptions,  \* [max, filter, atoms, negate, mask]
  MaxOdd        \* bound: answers other than YIELD, leave(), skip() and changes

VARIABLES
  heap,     \* the properties of the objects
  iter,     \* DeepIterator
  asked,    \* the nodes that the predicate was asked about, and its answers
  strayed   \* what the program did besides, where, and after how many answers

deepVars == <<heap, iter, asked, strayed>>

\* DeepIteratorStatus.
RECURSE == 0
YIELD == 1
NO_RECURSE == 2
STATUS_YIELD(status) == status \in {1, 3}
STATUS_RECURSE(status) == status \in {0, 1}

\* FILTER_KEY_OF: properties that are passed over with all that is below them;
\* FILTER_HAS_KEY: objects that are passed over, but not what is in them.
PassedByKey(opt, obj, key) ==
  obj \notin JsArrays /\ opt.filter = "key_of" /\ (key \notin opt.atoms) # opt.negate
PassedByHas(opt, v) ==
  /\ JS_IsObject(heap, v) /\ v \notin JsArrays /\ opt.filter = "has_key"
  /\ (\A key \in opt.atoms : ~JS_HasProperty(heap, v, key)) # opt.negate
TypeAsked(opt, v) == IF JS_IsObject(heap, v) THEN "object" \in opt.mask ELSE "leaf" \in opt.mask

-----------------------------------------------------------------------------
DeepInit(heaps) ==
  /\ heap \in heaps
  /\ \E opt \in DeepOptions :
       iter = [frames |-> <<>>, seq |-> FALSE, status |-> RECURSE, options |-> opt, looping |-> FALSE]
  /\ asked = <<>> /\ strayed = <<>>

Odd == Len(strayed) + Len(SelectSeq(asked, LAMBDA a : a.answer # YIELD))

Moved ==
  LET opt == iter.options
  IN CASE ~iter.seq -> property_recursion_push(heap, <<>>, Root)
       [] ~STATUS_RECURSE(iter.status) \/ Len(iter.frames) >= opt.max -> property_recursion_skip(iter.frames)
       [] OTHER -> property_recursion_next(heap, iter.frames)

js_deep_iterator_next ==
  /\ ~iter.seq \/ iter.frames # <<>>
  /\ LET moved == Moved
         it == Last(moved)
         v == property_enumeration_value(heap, it)
         Stay(status, looping) ==
           iter' = [iter EXCEPT !.frames = moved, !.seq = TRUE, !.status = status, !.looping = looping]
     IN IF moved = <<>> THEN Stay(iter.status, FALSE) /\ UNCHANGED asked
        ELSE IF PassedByKey(iter.options, it.obj, it.keys[it.idx + 1])
        THEN Stay(NO_RECURSE, TRUE) /\ UNCHANGED asked
        ELSE IF PassedByHas(iter.options, v) THEN Stay(iter.status, TRUE) /\ UNCHANGED asked
        ELSE IF TypeAsked(iter.options, v)
        THEN \E answer \in 0..3 :
               /\ answer # YIELD => Odd < MaxOdd
               /\ Stay(answer, ~STATUS_YIELD(answer))
               /\ asked' = Append(asked, [node |-> NodeOf(moved), path |-> property_recursion_path(moved),
                                          value |-> v, answer |-> answer])
        ELSE Stay(RECURSE, TRUE) /\ UNCHANGED asked
  /\ UNCHANGED <<heap, strayed>>

Strays(what) == /\ Odd < MaxOdd
                /\ strayed' = Append(strayed, [what |-> what, node |-> NodeOf(iter.frames), at |-> Len(asked)])

\* The methods leave() and skip().
Leave ==
  /\ ~iter.looping /\ iter.frames # <<>>
  /\ Strays("leave")
  /\ iter' = [iter EXCEPT !.frames = Front(@), !.status = (@ % 2) + NO_RECURSE]
  /\ UNCHANGED <<heap, asked>>

Skip ==
  /\ ~iter.looping /\ iter.frames # <<>>
  /\ Strays("skip")
  /\ iter' = [iter EXCEPT !.frames = property_recursion_skip(@)]
  /\ UNCHANGED <<heap, asked>>

\* The program changes an object, also from within the predicate.
Change ==
  /\ iter.frames # <<>> /\ Strays("change")
  /\ \E obj \in DOMAIN heap : \E i \in DOMAIN heap[obj], v \in DOMAIN heap \union {UNDEFINED} :
       LET key == heap[obj][i].key
       IN heap' = IF v = UNDEFINED THEN JS_DeleteProperty(heap, obj, key)
                  ELSE JS_SetProperty(heap, obj, key, v)
  /\ UNCHANGED <<iter, asked>>

js_deep_iterator_return ==
  /\ ~iter.looping /\ iter.frames # <<>> /\ Strays("return")
  /\ iter' = [iter EXCEPT !.frames = <<>>]
  /\ UNCHANGED <<heap, asked>>

DeepNext == js_deep_iterator_next \/ Leave \/ Skip \/ Change \/ js_deep_iterator_return

-----------------------------------------------------------------------------
(***************************************************************************)
(* The functions.  A predicate answers YIELD for the values in "wanted"    *)
(* and lets nothing below those in "closed" be looked at.                  *)
(***************************************************************************)
Unbounded == 99

\* The frames of each turn of the loops.
RECURSIVE Turns(_, _, _)
Turns(frames, closed, max) ==
  IF frames = <<>> THEN <<>>
  ELSE LET v == property_enumeration_value(heap, Last(frames))
           skips == v \in closed \/ Len(frames) >= max
       IN <<frames>> \o Turns(IF skips THEN property_recursion_skip(frames)
                              ELSE property_recursion_next(heap, frames), closed, max)

Loop(obj, closed, max) == Turns(property_recursion_push(heap, <<>>, obj), closed, max)
TurnValue(frames) == property_enumeration_value(heap, Last(frames))

js_deep_select(obj, wanted, closed, max) ==
  SelectSeq(Loop(obj, closed, max), LAMBDA frames : TurnValue(frames) \in wanted)

\* find() stops at the first; a predicate of its cannot close anything.
js_deep_find(obj, wanted, max) ==
  LET found == js_deep_select(obj, wanted, {}, max) IN IF found = <<>> THEN <<>> ELSE Head(found)

\* pathOf() and flatten() read the first property before they look whether there is one:
\* for an object without properties they follow a null pointer.
CRASH == "crash"
js_deep_pathof(obj, v) == IF heap[obj] = <<>> THEN CRASH ELSE js_deep_find(obj, {v}, Unbounded)
js_deep_flatten(obj) ==
  LET turns == Loop(obj, {}, Unbounded)
  IN IF heap[obj] = <<>> THEN CRASH
     ELSE [path \in {property_recursion_path(turns[i]) : i \in DOMAIN turns} |->
            TurnValue(turns[CHOOSE i \in DOMAIN turns : property_recursion_path(turns[i]) = path])]

\* The copy is described by its nodes.  "stack" tells of each of the frames whether
\* there is a copy of its object to put properties on.
Copied(v) == CASE ~JS_IsObject(heap, v) -> v [] v \in JsArrays -> "[]" [] OTHER -> "{}"
RECURSIVE Cloned(_, _, _, _, _)
Cloned(turns, stack, wanted, closed, made) ==
  IF turns = <<>> THEN made
  ELSE LET frames == Head(turns)
           v == TurnValue(frames)
           kept == v \in wanted
           onto == Last(stack)
           depth == IF Len(turns) = 1 THEN 0 ELSE Len(turns[2])
       IN Cloned(Tail(turns),
                 IF depth > Len(stack) THEN Append(stack, kept /\ onto) ELSE SubSeq(stack, 1, depth),
                 wanted, closed,
                 IF kept /\ onto THEN made \union {[node |-> NodeOf(frames), copy |-> Copied(v)]} ELSE made)

js_deep_clone(obj, wanted, closed, max) ==
  Cloned(Loop(obj, closed, max), <<TRUE>>, wanted, closed, {})

\* Two loops side by side; the keys are not looked at, and two objects are as good as equal.
\* The keys of the two roots are sorted by where they lie (compare_jsatom() compares the
\* addresses and not the atoms), which leaves them in their order.
js_value_equals(v, w) == (JS_IsObject(heap, v) /\ JS_IsObject(heap, w)) \/ v = w
js_deep_equals(a, b) ==
  LET as == Loop(a, {}, Unbounded)
      bs == Loop(b, {}, Unbounded)
  IN /\ Len(as) = Len(bs)
     /\ \A i \in DOMAIN as : js_value_equals(TurnValue(as[i]), TurnValue(bs[i]))

-----------------------------------------------------------------------------
(***************************************************************************)
(* get(), set() and unset().                                               *)
(***************************************************************************)
RECURSIVE atoms_deref(_, _, _)
atoms_deref(h, v, path) ==
  IF path = <<>> \/ v = EXCEPTION THEN v ELSE atoms_deref(h, JS_GetProperty(h, v, Head(path)), Tail(path))

\* The objects that are made for what is missing are fresh.  What a value that is no
\* object would be given is lost.
RECURSIVE atoms_acquire(_, _, _)
atoms_acquire(h, v, path) ==
  IF path = <<>> THEN [heap |-> h, obj |-> v]
  ELSE IF JS_HasProperty(h, v, Head(path)) THEN atoms_acquire(h, JS_GetProperty(h, v, Head(path)), Tail(path))
  ELSE LET child == Spare[Len(path)]
           made == h @@ (child :> <<>>)
       IN atoms_acquire(IF JS_IsObject(h, v) THEN JS_SetProperty(made, v, Head(path), child) ELSE made,
                        child, Tail(path))

js_deep_get(h, obj, path) == atoms_deref(h, obj, path)
js_deep_set(h, obj, path, value) ==
  LET at == atoms_acquire(h, obj, Front(path))
  IN IF JS_IsObject(at.heap, at.obj) THEN JS_SetProperty(at.heap, at.obj, Last(path), value) ELSE at.heap
js_deep_unset(h, obj, path) ==
  LET v == atoms_deref(h, obj, Front(path))
  IN IF JS_IsObject(h, v) THEN JS_DeleteProperty(h, v, Last(path)) ELSE h

-----------------------------------------------------------------------------
(***************************************************************************)
(* Properties.                                                             *)
(***************************************************************************)
DeepTypeOK ==
  /\ \A obj \in DOMAIN heap : \A i, j \in DOMAIN heap[obj] :
       i # j => heap[obj][i].key # heap[obj][j].key
  /\ iter.status \in 0..3 /\ iter.looping \in BOOLEAN /\ iter.seq \in BOOLEAN
  /\ \A i \in DOMAIN iter.frames : iter.frames[i].idx \in 0..(Len(iter.frames[i].keys) - 1)

\* The iterator never comes back: each node it asks about is after the one before
\* in document order, and it is inside no object twice, whatever the program
\* changes, leaves or skips meanwhile.
NeverBack ==
  /\ \A i \in DOMAIN asked : i > 1 => After(asked[i - 1].node, asked[i].node)
  /\ \A i, j \in DOMAIN iter.frames : iter.frames[i].obj = iter.frames[j].obj => i = j

Did(what) == \E i \in DOMAIN strayed : strayed[i].what = what
AnswerAt(node) ==
  IF \E i \in DOMAIN asked : asked[i].node = node
  THEN asked[CHOOSE i \in DOMAIN asked : asked[i].node = node].answer
  ELSE YIELD

\* What the calls of leave() leave behind.
LeftBehind(node) ==
  \E i \in DOMAIN strayed :
    /\ strayed[i].what = "leave"
    /\ IsPrefix(Front(strayed[i].node), node) /\ After(asked[strayed[i].at].node, node)

RECURSIVE WalkUnder(_, _, _)
WalkUnder(obj, node, above) ==
  FlattenSeq([i \in DOMAIN heap[obj] |->
    LET opt == iter.options
        entry == heap[obj][i]
        v == entry.value
        here == Append(node, i)
        asks == ~PassedByHas(opt, v) /\ TypeAsked(opt, v)
        descends == /\ JS_IsObject(heap, v) /\ v \notin above /\ Len(here) < opt.max
                    /\ asks => STATUS_RECURSE(AnswerAt(here))
    IN IF LeftBehind(here) \/ PassedByKey(opt, obj, entry.key) THEN <<>>
       ELSE (IF asks THEN <<here>> ELSE <<>>) \o
            IF descends THEN WalkUnder(v, here, above \union {v}) ELSE <<>>])

\* The program is asked about the nodes that the options, its answers and its
\* leave() let through, and about each of them; the path it is given leads to the
\* value.  Where it calls skip(), the next node is passed over, neither asked about
\* nor filtered.  With FILTER_HAS_KEY what NO_RECURSE closed once may stay closed for
\* the objects that are passed over.
WalksAll ==
  LET nodes == [i \in DOMAIN asked |-> asked[i].node]
      walk == WalkUnder(Root, <<>>, {Root})
      complete == iter.options.filter = "has_key" =>
                    ~Did("leave") /\ \A i \in DOMAIN asked : STATUS_RECURSE(asked[i].answer)
  IN ~Did("change") =>
       /\ \A i \in DOMAIN asked :
            /\ asked[i].value = ValueOfNode(heap, Root, asked[i].node)
            /\ asked[i].path = PathOfNode(heap, Root, asked[i].node)
       /\ ~Did("skip") =>
            /\ \A i \in DOMAIN nodes : \E j \in DOMAIN walk : walk[j] = nodes[i]
            /\ complete => \/ nodes = walk
                           \/ IsPrefix(nodes, walk) /\ (iter.frames # <<>> \/ ~iter.seq \/ Did("return"))

-----------------------------------------------------------------------------
DeepValues == DOMAIN heap \union {"1", "2"}
Wanteds == {DeepValues, {"1"}, DOMAIN heap}
Closeds == {{}, JsArrays}

NodesOf(obj, closed, max) == NodesUnder(heap, obj, <<>>, {obj}, closed, max)
NodesSeen(turns) == [i \in DOMAIN turns |-> NodeOf(turns[i])]

\* select() gives the wanted ones among the nodes in their order, find() the first of
\* them; and the copy has the same nodes, as far as all above them were wanted.
FunctionsWalk ==
  \A obj \in DOMAIN heap, closed \in Closeds, max \in {2, Unbounded}, wanted \in Wanteds :
    LET nodes == NodesOf(obj, closed, max)
        Wanted(node) == ValueOfNode(heap, obj, node) \in wanted
    IN /\ NodesSeen(js_deep_select(obj, wanted, closed, max)) = SelectSeq(nodes, Wanted)
       /\ js_deep_clone(obj, wanted, closed, max) =
            {[node |-> n, copy |-> Copied(ValueOfNode(heap, obj, n))] :
               n \in {nodes[i] : i \in {j \in DOMAIN nodes :
                        \A d \in 1..Len(nodes[j]) : Wanted(SubSeq(nodes[j], 1, d))}}}

RECURSIVE LedTo(_, _)
LedTo(objs, n) ==
  LET more == objs \union UNION {{heap[o][i].value : i \in DOMAIN heap[o]} : o \in objs \intersect DOMAIN heap}
  IN IF n = 0 THEN objs ELSE LedTo(more, n - 1)

\* pathOf() finds whatever some path leads to, and flatten() has every node under its
\* path; an object without properties ends the program.
PathsFound ==
  \A obj \in DOMAIN heap, v \in DeepValues :
    IF heap[obj] = <<>> THEN js_deep_pathof(obj, v) = CRASH /\ js_deep_flatten(obj) = CRASH
    ELSE LET frames == js_deep_pathof(obj, v)
             entries == {heap[obj][i].value : i \in DOMAIN heap[obj]}
             flat == js_deep_flatten(obj)
             nodes == NodesOf(obj, {}, Unbounded)
         IN /\ (frames = <<>>) <=> v \notin LedTo(entries, Cardinality(DOMAIN heap))
            /\ frames # <<>> => js_deep_get(heap, obj, property_recursion_path(frames)) = v
            /\ DOMAIN flat = {PathOfNode(heap, obj, nodes[i]) : i \in DOMAIN nodes}
            /\ \A path \in DOMAIN flat : js_deep_get(heap, obj, path) = flat[path]

\* Equal are those in which the same leaves and any objects follow each other in
\* document order.  How deep they are, under which keys, and whether the objects are
\* arrays is not compared: [[1], 2] equals [[1, 2]].
EqualsMeans ==
  LET Reads(obj) == LET nodes == NodesOf(obj, {}, Unbounded)
                     IN [i \in DOMAIN nodes |-> LET v == ValueOfNode(heap, obj, nodes[i])
                                                IN IF JS_IsObject(heap, v) THEN "object" ELSE v]
  IN \A a, b \in DOMAIN heap : js_deep_equals(a, b) <=> Reads(a) = Reads(b)

\* What was set is got, and what was unset is gone, unless the path leads through a
\* leaf or through the property itself.
SetIsGot ==
  \A obj \in DOMAIN heap, k \in {"a", "b"} :
    \A path \in {<<k>>, <<k, "b">>, <<k, "a", "b">>}, v \in {"2", obj} :
      LET after == js_deep_set(heap, obj, path, v)
          up(i) == js_deep_get(heap, obj, SubSeq(path, 1, i))
      IN (\A i \in 1..(Len(path) - 1) :
            up(i) \notin {"1", "2"} /\ ~(path[i] = Last(path) /\ up(i - 1) = up(Len(path) - 1))) =>
           /\ js_deep_get(after, obj, path) = v
           /\ js_deep_get(js_deep_unset(after, obj, path), obj, path) = UNDEFINED
=============================================================================
