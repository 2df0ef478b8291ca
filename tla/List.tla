-------------------------------- MODULE List --------------------------------
(***************************************************************************)
(* The class List (quickjs-list.c): a ring of nodes with reference counts, *)
(* the sentinel in the List itself being one of them.  Iterators hold a    *)
(* node and the sentinel; the list holds each of its nodes once.  A cell   *)
(* whose count is 0 is free memory.                                        *)
(*                                                                         *)
(* The program is taken to use an iterator only as long as its node is in  *)
(* the list that it was made for: on an erased node, whose links are NULL  *)
(* or point to free memory, the code goes on without a look.               *)
(***************************************************************************)
EXTENDS Integers, Sequences, FiniteSets, SequencesExt

CONSTANTS
  Lists,     \* the cells of lists
  Nodes,     \* the cells of nodes
  Values,    \* what is stored, numbers
  Iters,     \* the iterators that the program keeps, numbers
  Args,      \* the sequences of values given to a method
  MaxListCalls, \* bound: calls of methods
  NULL

VARIABLES
  heap,      \* the cells: prev, next, ref_count, value
  size,      \* List.size
  wrappers,  \* the List objects of the program for a list
  iters,     \* ListIterator, or NULL
  listCalls  \* the calls that were made

listVars == <<heap, size, wrappers, iters, listCalls>>

Cells == Lists \union Nodes
FreeCell == [prev |-> NULL, next |-> NULL, refs |-> 0, value |-> NULL]
Allocated(h) == {c \in Cells : h[c].refs > 0}
FreeNodes(h) == {n \in Nodes : h[n].refs = 0}

-----------------------------------------------------------------------------
\* list.h and utils.c: the links.
list_link_next(h, a, b) == [h EXCEPT ![a].next = b, ![b].prev = a]
list_add(h, n, a) == list_link_next(list_link_next(h, n, h[a].next), a, n)
list_add_tail(h, n, b) == list_link_next(list_link_next(h, h[b].prev, n), n, b)
list_del(h, n) == [list_link_next(h, h[n].prev, h[n].next) EXCEPT ![n].prev = NULL, ![n].next = NULL]

\* The nodes from "start" up to "end", which are not the same, out of their ring.
list_unlink(h, start, end) ==
  [heap |-> [list_link_next(h, h[start].prev, end) EXCEPT ![start].prev = NULL, ![h[end].prev].next = NULL],
   first |-> start, last |-> h[end].prev]
list_splice(moved, at) ==
  list_link_next(list_link_next(moved.heap, moved.last, moved.heap[at].next), at, moved.first)

\* The nodes from n to the end of the list, or to another cell.
RECURSIVE Upto(_, _, _, _)
Upto(h, n, l, end) == IF n \in {l, end, NULL} THEN <<>> ELSE <<n>> \o Upto(h, h[n].next, l, end)
Ring(h, l) == Upto(h, h[l].next, l, l)

__list_reverse(h, l) ==
  FoldLeft(LAMBDA g, n : list_add(g, n, l), [h EXCEPT ![l].next = l, ![l].prev = l], Ring(h, l))

\* Mutant of node_free: a node that is held is freed.
FreeAtOnce(h, c) == [h EXCEPT ![c] = FreeCell]

node_free(h, c) == IF h[c].refs = 1 THEN [h EXCEPT ![c] = FreeCell] ELSE [h EXCEPT ![c].refs = @ - 1]
node_dup(h, c) == [h EXCEPT ![c].refs = @ + 1]

-----------------------------------------------------------------------------
(***************************************************************************)
(* The operations, on a record of the heap and the sizes.                  *)
(***************************************************************************)
Now == [heap |-> heap, size |-> size]
Fits(vs) == Cardinality(FreeNodes(heap)) >= Len(vs)

NewNode(h) == CHOOSE n \in FreeNodes(h) : TRUE
list_insert_before(s, l, v, b) ==
  LET n == NewNode(s.heap)
  IN [heap |-> list_add_tail([s.heap EXCEPT ![n] = [FreeCell EXCEPT !.refs = 1, !.value = v]], n, b),
      size |-> [s.size EXCEPT ![l] = @ + 1]]
list_insert(s, l, v, a) ==
  LET n == NewNode(s.heap)
  IN [heap |-> list_add([s.heap EXCEPT ![n] = [FreeCell EXCEPT !.refs = 1, !.value = v]], n, a),
      size |-> [s.size EXCEPT ![l] = @ + 1]]
list_erase(s, l, n) ==
  [heap |-> node_free(list_del(s.heap, n), n), size |-> [s.size EXCEPT ![l] = @ - 1]]

list_new(s, l) ==
  [heap |-> [s.heap EXCEPT ![l] = [prev |-> l, next |-> l, refs |-> 1, value |-> NULL]],
   size |-> [s.size EXCEPT ![l] = 0]]
Before(s, l, vs, b) == FoldLeft(LAMBDA t, v : list_insert_before(t, l, v, b), s, vs)

\* The nodes keep their links.
list_clear(s, l) ==
  [heap |-> [FoldLeft(LAMBDA h, n : node_free(h, n), s.heap, Ring(s.heap, l)) EXCEPT ![l].prev = l, ![l].next = l],
   size |-> [s.size EXCEPT ![l] = 0]]

\* All that l holds goes to the end of "other".
Moves(s, l, other) ==
  IF s.heap[l].next = l THEN s
  ELSE LET at == s.heap[other].prev
       IN [heap |-> list_splice(list_unlink(s.heap, s.heap[l].next, l), at),
           size |-> [s.size EXCEPT ![other] = @ + s.size[l], ![l] = 0]]

-----------------------------------------------------------------------------
\* What the program has.
Open(l) == wrappers[l] > 0
FreeLists == {l \in Lists : heap[l].refs = 0}
Has(l, c) == c = l \/ c \in ToSet(Ring(heap, l))
\* An iterator that a method of l may be given.
At(l, i) == iters[i] # NULL /\ Has(l, iters[i].node)
Inside(l, i) == At(l, i) /\ iters[i].node # l
\* "end" is not before "start".
InOrder(l, i, j) ==
  iters[j].node \in {l} \union ToSet(Upto(heap, iters[i].node, l, NULL))

Becomes(s) == heap' = s.heap /\ size' = s.size
\* A new iterator, which the program keeps in i.
list_iterator_new(s, i, n, l, type) ==
  /\ iters[i] = NULL
  /\ iters' = [iters EXCEPT ![i] = [node |-> n, header |-> l, type |-> type]]
  /\ Becomes([s EXCEPT !.heap = node_dup(node_dup(@, n), l)])
\* What a method returns, a new iterator or none that is kept.
Returns(s, i, n, l, type) ==
  IF i = NULL THEN Becomes(s) /\ UNCHANGED iters ELSE list_iterator_new(s, i, n, l, type)

js_list_constructor(l, vs) ==
  /\ l \in FreeLists /\ Fits(vs)
  /\ Becomes(Before(list_new(Now, l), l, vs, l))
  /\ wrappers' = [wrappers EXCEPT ![l] = 1] /\ UNCHANGED iters

Clear(l) == Open(l) /\ Becomes(list_clear(Now, l)) /\ UNCHANGED <<wrappers, iters>>

\* begin(), end(), rbegin(), rend() and values()
Begin(l, i, type, atEnd) ==
  /\ Open(l)
  /\ list_iterator_new(Now, i, IF atEnd THEN l ELSE IF type = "normal" THEN heap[l].next ELSE heap[l].prev, l, type)
  /\ UNCHANGED wrappers

Erase(l, i, k) ==
  /\ Open(l) /\ Inside(l, i)
  /\ LET n == iters[i].node
     IN Returns(list_erase(Now, l, n), k, heap[n].next, l, "normal")
  /\ UNCHANGED wrappers

EraseRange(l, i, j, k) ==
  /\ Open(l) /\ Inside(l, i) /\ At(l, j)
  /\ Returns(FoldLeft(LAMBDA s, n : list_erase(s, l, n), Now, Upto(heap, iters[i].node, l, iters[j].node)),
             k, iters[j].node, l, "normal")
  /\ UNCHANGED wrappers

\* Without an iterator the place is the sentinel.
Place(l, i) == IF i = NULL THEN l ELSE iters[i].node
InsertBefore(l, i, vs, k) ==
  /\ Open(l) /\ Fits(vs) /\ (i # NULL => At(l, i))
  /\ LET s == Before(Now, l, vs, Place(l, i))
     IN Returns(s, k, s.heap[heap[Place(l, i)].prev].next, l, "reverse")
  /\ UNCHANGED wrappers
Insert(l, i, vs, k) ==
  /\ Open(l) /\ Fits(vs) /\ (i # NULL => At(l, i))
  /\ LET s == FoldRight(LAMBDA v, t : list_insert(t, l, v, Place(l, i)), vs, Now)
     IN Returns(s, k, s.heap[heap[Place(l, i)].next].prev, l, "normal")
  /\ UNCHANGED wrappers

\* A node that has the value of the one before it is erased.
RECURSIVE UniqueFrom(_, _, _)
UniqueFrom(s, l, n) ==
  LET m == s.heap[n].next
  IN IF n = l THEN s
     ELSE IF m # l /\ s.heap[m].value = s.heap[n].value THEN UniqueFrom(list_erase(s, l, m), l, n)
     ELSE UniqueFrom(s, l, m)
Unique(l) == Open(l) /\ Becomes(UniqueFrom(Now, l, heap[l].next)) /\ UNCHANGED <<wrappers, iters>>

RECURSIVE MergeFrom(_, _, _, _)
MergeFrom(s, l, n, vs) ==
  IF vs = <<>> THEN s
  ELSE IF n # l /\ s.heap[n].value <= vs[1] THEN MergeFrom(s, l, s.heap[n].next, vs)
  ELSE MergeFrom(list_insert_before(s, l, vs[1], n), l, n, Tail(vs))
ValuesOf(h, ns) == [x \in DOMAIN ns |-> h[ns[x]].value]
Merge(l, other) ==
  /\ Open(l) /\ Open(other) /\ l # other /\ Fits(Ring(heap, other))
  /\ Becomes(MergeFrom(Now, l, heap[l].next, ValuesOf(heap, Ring(heap, other))))
  /\ UNCHANGED <<wrappers, iters>>

Push(l, v) == Open(l) /\ Fits(<<v>>) /\ Becomes(list_insert_before(Now, l, v, l)) /\ UNCHANGED <<wrappers, iters>>
Unshift(l, v) == Open(l) /\ Fits(<<v>>) /\ Becomes(list_insert(Now, l, v, l)) /\ UNCHANGED <<wrappers, iters>>
Pop(l) == Open(l) /\ heap[l].prev # l /\ Becomes(list_erase(Now, l, heap[l].prev)) /\ UNCHANGED <<wrappers, iters>>
Shift(l) == Open(l) /\ heap[l].next # l /\ Becomes(list_erase(Now, l, heap[l].next)) /\ UNCHANGED <<wrappers, iters>>

\* Gives a new list what this list and the arguments hold.
Concat(l, args, other) ==
  /\ other \in FreeLists /\ Open(l) /\ \A x \in DOMAIN args : Open(args[x])
  /\ Becomes(FoldLeft(LAMBDA s, a : Moves(s, a, other), list_new(Now, other), <<l>> \o args))
  /\ wrappers' = [wrappers EXCEPT ![other] = 1] /\ UNCHANGED iters

Slice(l, i, j, other) ==
  /\ other \in FreeLists /\ Open(l) /\ At(l, i) /\ At(l, j)
  /\ LET ns == IF iters[i].node = l THEN <<>> ELSE Upto(heap, iters[i].node, l, iters[j].node)
     IN Fits(ns) /\ Becomes(Before(list_new(Now, other), other, ValuesOf(heap, ns), other))
  /\ wrappers' = [wrappers EXCEPT ![other] = 1] /\ UNCHANGED iters

\* With an empty range list_unlink() follows NULL.
Splice(l, i, j, vs, other) ==
  /\ other \in FreeLists /\ Open(l) /\ Inside(l, i) /\ At(l, j) /\ Fits(vs)
  /\ iters[i].node # iters[j].node /\ InOrder(l, i, j)
  /\ LET end == iters[j].node
         s == list_new(Now, other)
         h == list_splice(list_unlink(s.heap, iters[i].node, end), other)
         n == Len(Ring(h, other))
     IN Becomes(Before([heap |-> h, size |-> [s.size EXCEPT ![other] = n, ![l] = @ - n]], l, vs, end))
  /\ wrappers' = [wrappers EXCEPT ![other] = 1] /\ UNCHANGED iters

Fill(l, v, i, j) ==
  /\ Open(l) /\ Inside(l, i) /\ At(l, j)
  /\ LET ns == ToSet(Upto(heap, iters[i].node, l, iters[j].node))
     IN heap' = [c \in Cells |-> IF c \in ns THEN [heap[c] EXCEPT !.value = v] ELSE heap[c]]
  /\ UNCHANGED <<size, wrappers, iters>>

\* Mutant of Rotate: the sentinel is put after the node.
RotateAfter(l, i) ==
  /\ Open(l) /\ Inside(l, i) /\ heap' = list_add(list_del(heap, l), l, iters[i].node)
  /\ UNCHANGED <<size, wrappers, iters>>

\* The sentinel is taken out of the ring and put before the node.
Rotate(l, i) ==
  /\ Open(l) /\ Inside(l, i) /\ heap' = list_add_tail(list_del(heap, l), l, iters[i].node)
  /\ UNCHANGED <<size, wrappers, iters>>

TurnAround(l) == Open(l) /\ heap' = __list_reverse(heap, l) /\ UNCHANGED <<size, wrappers, iters>>

\* The nodes are linked anew, those of one value in the order they had.
Sorted(h, ns) ==
  CHOOSE p \in SetToSeqs(ToSet(ns)) :
    \A x, y \in DOMAIN p : x < y =>
      \/ h[p[x]].value < h[p[y]].value
      \/ h[p[x]].value = h[p[y]].value
         /\ \E a, b \in DOMAIN ns : a < b /\ ns[a] = p[x] /\ ns[b] = p[y]
Sort(l) ==
  /\ Open(l)
  /\ heap' = FoldLeft(LAMBDA h, n : list_add_tail(h, n, l), [heap EXCEPT ![l].next = l, ![l].prev = l],
                      Sorted(heap, Ring(heap, l)))
  /\ UNCHANGED <<size, wrappers, iters>>

\* list[index] = v: beyond either end the holes are made elements, undefined ones.
Holes(n) == [x \in 1..n |-> 0]
js_list_set_property(l, index, v) ==
  LET n == size[l]
      vs == IF index >= n THEN Holes(index - n) \o <<v>> ELSE <<v>> \o Holes(-(n + 1) - index)
  IN /\ Open(l) /\ UNCHANGED <<wrappers, iters>>
     /\ IF index \in (-n)..(n - 1)
          THEN heap' = [heap EXCEPT ![Ring(heap, l)[((index + n) % n) + 1]].value = v] /\ UNCHANGED size
          ELSE Fits(vs) /\ Becomes(Before(Now, l, vs, IF index >= n THEN l ELSE heap[l].next))

list_iterator_skip(i) ==
  /\ iters[i] # NULL /\ iters[i].node # iters[i].header /\ Has(iters[i].header, iters[i].node)
  /\ LET n == iters[i].node
         m == IF iters[i].type = "normal" THEN heap[n].next ELSE heap[n].prev
     IN heap' = node_free(node_dup(heap, m), n) /\ iters' = [iters EXCEPT ![i].node = m]
  /\ UNCHANGED <<size, wrappers>>

Copy(i, k) ==
  /\ iters[i] # NULL /\ list_iterator_new(Now, k, iters[i].node, iters[i].header, iters[i].type)
  /\ UNCHANGED wrappers

\* "container" makes one more List object; list_free() when one is collected.
Container(i) ==
  /\ iters[i] # NULL /\ wrappers[iters[i].header] < 2
  /\ wrappers' = [wrappers EXCEPT ![iters[i].header] = @ + 1]
  /\ heap' = node_dup(heap, iters[i].header) /\ UNCHANGED <<size, iters>>
list_free(l) ==
  /\ Open(l) /\ wrappers' = [wrappers EXCEPT ![l] = @ - 1]
  /\ Becomes(IF heap[l].refs = 1 THEN LET s == list_clear(Now, l) IN [s EXCEPT !.heap = node_free(@, l)]
             ELSE [Now EXCEPT !.heap = node_free(@, l)])
  /\ UNCHANGED iters

js_list_iterator_finalizer(i) ==
  /\ iters[i] # NULL /\ iters' = [iters EXCEPT ![i] = NULL]
  /\ heap' = node_free(node_free(heap, iters[i].node), iters[i].header)
  /\ UNCHANGED <<size, wrappers>>

-----------------------------------------------------------------------------
ListInit ==
  /\ heap = [c \in Cells |-> FreeCell] /\ size = [l \in Lists |-> 0]
  /\ wrappers = [l \in Lists |-> 0] /\ iters = [i \in Iters |-> NULL] /\ listCalls = 0

\* Which of the free places an iterator is kept in, and which of the free cells a new
\* list has, makes no difference.
FreeIters == LET free == {i \in Iters : iters[i] = NULL} IN {i \in free : \A j \in free : i <= j}
Kept == FreeIters \union {NULL}
NewList == IF FreeLists = {} THEN {} ELSE {CHOOSE l \in FreeLists : TRUE}

Method ==
  \/ \E l \in Lists :
       \/ Clear(l) \/ Unique(l) \/ Pop(l) \/ Shift(l) \/ TurnAround(l) \/ Sort(l) \/ list_free(l)
       \/ \E v \in Values : Push(l, v) \/ Unshift(l, v) \/ (\E x \in -2..2 : js_list_set_property(l, x, v))
       \/ \E i \in FreeIters, type \in {"normal", "reverse"}, e \in BOOLEAN : Begin(l, i, type, e)
       \/ \E o \in Lists : Merge(l, o)
       \/ \E o \in NewList : Concat(l, <<>>, o) \/ (\E a \in Lists : Concat(l, <<a>>, o))
       \/ \E i, j \in Iters, o \in NewList : Slice(l, i, j, o) \/ (\E vs \in Args : Splice(l, i, j, vs, o))
       \/ \E i \in Iters, k \in Kept : Erase(l, i, k) \/ (\E j \in Iters : EraseRange(l, i, j, k))
       \/ \E i \in Iters \union {NULL}, k \in Kept, vs \in Args : Insert(l, i, vs, k) \/ InsertBefore(l, i, vs, k)
       \/ \E i \in Iters : Rotate(l, i) \/ (\E j \in Iters, v \in Values : Fill(l, v, i, j))
  \/ \E i \in Iters : list_iterator_skip(i) \/ Container(i) \/ js_list_iterator_finalizer(i)
  \/ \E i \in Iters, k \in FreeIters : Copy(i, k)
  \/ \E l \in NewList, vs \in Args : js_list_constructor(l, vs)

ListNext == listCalls < MaxListCalls /\ listCalls' = listCalls + 1 /\ Method

ListSpec == ListInit /\ [][ListNext]_listVars
-----------------------------------------------------------------------------
ListTypeOK ==
  /\ heap \in [Cells -> [prev : Cells \union {NULL}, next : Cells \union {NULL}, refs : Nat,
                         value : Values \union {0, NULL}]]
  /\ size \in [Lists -> Nat] /\ wrappers \in [Lists -> 0..2]
  /\ \A i \in Iters : iters[i] # NULL =>
       iters[i].node \in Cells /\ iters[i].header \in Lists /\ iters[i].type \in {"normal", "reverse"}

\* Every list is a ring, the same one in both directions, of allocated nodes that are
\* in no other list, and its length is their number.
RingsClosed ==
  \A l \in Lists : heap[l].refs > 0 =>
    LET r == <<l>> \o Ring(heap, l)
    IN /\ size[l] = Len(r) - 1 /\ IsInjective(r)
       /\ \A x \in DOMAIN r : /\ heap[r[x]].refs > 0
                             /\ heap[r[(x % Len(r)) + 1]].prev = r[x]
       /\ \A m \in Lists \ {l} : heap[m].refs > 0 => ToSet(r) \intersect ToSet(Ring(heap, m)) = {}

\* A cell is counted by its list or the List objects and by the iterators that hold it:
\* what somebody holds is not freed, and what is in a list is held by nobody else.
HeldCells ==
  \A c \in Cells :
    LET by == Cardinality({i \in Iters : iters[i] # NULL /\ iters[i].node = c})
              + Cardinality({i \in Iters : iters[i] # NULL /\ iters[i].header = c})
        in == {l \in Lists : heap[l].refs > 0 /\ c \in ToSet(Ring(heap, l))}
    IN IF c \in Lists THEN heap[c].refs = wrappers[c] + by
       ELSE IF in # {} THEN heap[c].refs = 1 + by
       ELSE heap[c].refs >= by

\* What each method does to the sequence of the elements, with the other lists left
\* alone and whatever iterators there are: s is what the list had and n how many.
Had(l) == ValuesOf(heap, Ring(heap, l))
Has2(l) == ValuesOf(heap', Ring(heap', l))
LeavesAlone(ls) == \A m \in Lists \ ls : heap[m].refs > 0 => Ring(heap', m) = Ring(heap, m) /\ Has2(m) = Had(m)
Gets(l, s) == Has2(l) = s /\ LeavesAlone({l})
Index(l, c) == IF c = l THEN size[l] + 1 ELSE CHOOSE x \in DOMAIN Ring(heap, l) : Ring(heap, l)[x] = c
From(l, i) == Index(l, iters[i].node)
Ends(l, i, j) == IF From(l, j) < From(l, i) THEN size[l] + 1 ELSE From(l, j)
Only(s, Test(_)) == LET kept == SetToSortSeq({x \in DOMAIN s : Test(x)}, <) IN [x \in DOMAIN kept |-> s[kept[x]]]
Ascends(s) == \A x, y \in DOMAIN s : x < y => s[x] <= s[y]
Times(s, v) == Len(SelectSeq(s, LAMBDA w : w = v))

\* clear(), erase(), unique(), pop() and shift() take elements out; unique() those that
\* equal the one before them.
Shrinks(l, s, n) ==
  /\ Clear(l) => Gets(l, <<>>)
  /\ Pop(l) => Gets(l, SubSeq(s, 1, n - 1))
  /\ Shift(l) => Gets(l, SubSeq(s, 2, n))
  /\ Unique(l) => Gets(l, Only(s, LAMBDA x : x = 1 \/ s[x] # s[x - 1]))
  /\ \A i \in Iters, k \in Kept :
       /\ Erase(l, i, k) => Gets(l, SubSeq(s, 1, From(l, i) - 1) \o SubSeq(s, From(l, i) + 1, n))
       /\ \A j \in Iters : EraseRange(l, i, j, k) =>
            Gets(l, SubSeq(s, 1, From(l, i) - 1) \o SubSeq(s, Ends(l, i, j), n))

\* push(), unshift(), insert(), insertBefore(), merge() and list[index] = v put them in.
\* Without a place insertBefore() puts them at the end, and insert() at the beginning.
\* merge() puts each behind those that are not greater and behind the one it put in
\* before it: of two lists in order it makes one in order.
Grows(l, s, n) ==
  /\ \A v \in Values :
       /\ Push(l, v) => Gets(l, Append(s, v))
       /\ Unshift(l, v) => Gets(l, <<v>> \o s)
       /\ \A x \in -2..2 : js_list_set_property(l, x, v) =>
            Gets(l, IF x >= n THEN s \o Holes(x - n) \o <<v>> ELSE <<v>> \o Holes(-(n + 1) - x) \o s)
  /\ \A i \in Iters \union {NULL}, k \in Kept, vs \in Args :
       LET at == IF i = NULL THEN n + 1 ELSE From(l, i)
       IN /\ InsertBefore(l, i, vs, k) => Gets(l, SubSeq(s, 1, at - 1) \o vs \o SubSeq(s, at, n))
          /\ Insert(l, i, vs, k) =>
               IF at = n + 1 THEN Gets(l, vs \o s)
               ELSE Gets(l, SubSeq(s, 1, at) \o vs \o SubSeq(s, at + 1, n))
  /\ \A o \in Lists : Merge(l, o) =>
       /\ LeavesAlone({l}) /\ Ascends(s) /\ Ascends(Had(o)) => Ascends(Has2(l))
       /\ \A v \in Values \union {0} : Times(Has2(l), v) = Times(s, v) + Times(Had(o), v)
       /\ Only(Ring(heap', l), LAMBDA x : Ring(heap', l)[x] \in ToSet(Ring(heap, l))) = Ring(heap, l)
       /\ Only(Has2(l), LAMBDA x : Ring(heap', l)[x] \notin ToSet(Ring(heap, l))) = Had(o)

\* concat(), slice() and splice() give a new list o; concat() leaves the others empty.
Parts(l, s, n, o) ==
  /\ Concat(l, <<>>, o) => Has2(l) = <<>> /\ Has2(o) = s /\ LeavesAlone({l, o})
  /\ \A a \in Lists : Concat(l, <<a>>, o) =>
       /\ Has2(l) = <<>> /\ Has2(a) = <<>> /\ LeavesAlone({l, a, o})
       /\ Has2(o) = IF a = l THEN s ELSE s \o Had(a)
  /\ \A i, j \in Iters :
       /\ Slice(l, i, j, o) => Gets(o, SubSeq(s, From(l, i), Ends(l, i, j) - 1))
       /\ \A vs \in Args : Splice(l, i, j, vs, o) =>
            /\ Has2(l) = SubSeq(s, 1, From(l, i) - 1) \o vs \o SubSeq(s, From(l, j), n)
            /\ Has2(o) = SubSeq(s, From(l, i), From(l, j) - 1) /\ LeavesAlone({l, o})

\* rotate(), reverse() and sort() change the order of the nodes, and sort() not that of
\* those that are equal; fill() and list[index] = v change what they hold.
Turns(l, s, n) ==
  LET ns == Ring(heap, l)
      ms == Ring(heap', l)
  IN /\ \A i \in Iters : Rotate(l, i) =>
          ms = SubSeq(ns, From(l, i), n) \o SubSeq(ns, 1, From(l, i) - 1) /\ LeavesAlone({l})
     /\ TurnAround(l) => ms = Reverse(ns) /\ LeavesAlone({l})
     /\ Sort(l) => /\ LeavesAlone({l}) /\ Ascends(Has2(l))
                   /\ \A v \in Values \union {0} :
                        Only(ms, LAMBDA x : heap'[ms[x]].value = v) = Only(ns, LAMBDA x : s[x] = v)
     /\ \A v \in Values :
          /\ \A i, j \in Iters : Fill(l, v, i, j) =>
               Gets(l, [x \in 1..n |-> IF From(l, i) <= x /\ x < Ends(l, i, j) THEN v ELSE s[x]])
          /\ \A x \in -n..(n - 1) : js_list_set_property(l, x, v) => Gets(l, [s EXCEPT ![((x + n) % n) + 1] = v])

\* Each method that changes a list changes it so.
MethodsMean ==
  [][\A l \in Lists :
       Open(l) /\ heap' # heap =>
         LET s == Had(l)
             n == size[l]
         IN IF size' = size THEN Turns(l, s, n) /\ \A o \in NewList : Parts(l, s, n, o)
            ELSE Shrinks(l, s, n) /\ Grows(l, s, n) /\ \A o \in NewList : Parts(l, s, n, o)]_listVars
=============================================================================
