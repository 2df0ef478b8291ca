----------------------------- MODULE TreeWalker -----------------------------
(***************************************************************************)
(* TreeWalker and the TreeIterators that are made of it, which move the    *)
(* same walker (src/quickjs-tree-walker.c): a position among nested        *)
(* objects that each method moves by one step of its kind.                 *)
(*                                                                         *)
(* firstChild() and lastChild() are called on objects only: an assertion   *)
(* ends the program elsewhere.                                             *)
(***************************************************************************)
EXTENDS PropertyRecursion, FiniteSets

CONSTANTS
  Root,          \* what the walker was made for
  Masks,         \* tagMask: the kinds of values that nextNode() stops at
  Filters,       \* the values that the filter lets pass; its FILTER_REJECT and
                 \* FILTER_SKIP are numbers, and let them pass like FILTER_ACCEPT
  MaxWalkCalls   \* bound

VARIABLES
  heap,       \* the objects
  walker,     \* TreeWalker
  walkCalls

walkerVars == <<heap, walker, walkCalls>>

Here == Last(walker.hier)
CurrentNode == property_enumeration_value(heap, Here)

WalkerInit(heaps) ==
  /\ heap \in heaps /\ walkCalls = 0
  /\ \E mask \in Masks, filter \in Filters :
       walker = [hier |-> property_recursion_push(heap, <<>>, Root), tag_mask |-> mask, filter |-> filter]

Accepts(v, filter) == /\ IF JS_IsObject(heap, v) THEN "object" \in walker.tag_mask ELSE "leaf" \in walker.tag_mask
                      /\ v \in filter

\* A value that is not accepted is gone into all the same.
RECURSIVE js_tree_walker_next(_, _)
js_tree_walker_next(hier, filter) ==
  LET next == property_recursion_next(heap, hier)
  IN IF next = <<>> \/ Accepts(property_enumeration_value(heap, Last(next)), filter) THEN next
     ELSE js_tree_walker_next(next, filter)

Sibling(hier, by) == Append(Front(hier), property_enumeration_setpos(Last(hier), Last(hier).idx + by))
Previous(hier) == IF Last(hier).idx = 0 THEN Front(hier) ELSE Sibling(hier, -1)

-----------------------------------------------------------------------------
(***************************************************************************)
(* The methods.  A walker that has come out of its root stays there.       *)
(***************************************************************************)
Moves(hier) == /\ walkCalls < MaxWalkCalls /\ walkCalls' = walkCalls + 1
               /\ walker.hier # <<>>
               /\ walker' = [walker EXCEPT !.hier = hier]
               /\ UNCHANGED heap

FirstChild == /\ walker.hier # <<>> /\ JS_IsObject(heap, CurrentNode)
              /\ Moves(property_recursion_enter(heap, walker.hier, 0))
LastChild == /\ walker.hier # <<>> /\ JS_IsObject(heap, CurrentNode)
             /\ Moves(property_recursion_enter(heap, walker.hier, -1))
NextNode == Moves(js_tree_walker_next(walker.hier, walker.filter))
NextSibling == Moves(Sibling(walker.hier, 1))
PreviousSibling == Moves(Sibling(walker.hier, -1))
ParentNode == Moves(Front(walker.hier))
PreviousNode == Moves(Previous(walker.hier))

\* A TreeIterator has a predicate of its own, or none.
js_tree_iterator_next == \E filter \in Filters : Moves(js_tree_walker_next(walker.hier, filter))

\* A negative index is taken modulo the length as an unsigned number of 64 bits, to
\* which the length is added: it is always behind the end.
SetIndex ==
  \E index \in -1..1 :
    LET len == Len(Here.keys)
        high == 2 ^ 16 % len
        idx == IF index >= 0 THEN index
               ELSE ((high * high * high * high + len + index) % len) + len
    IN Moves(Append(Front(walker.hier), [Here EXCEPT !.idx = idx]))

SetTagMask ==
  /\ walkCalls < MaxWalkCalls /\ walkCalls' = walkCalls + 1 /\ walker.hier # <<>>
  /\ \E mask \in Masks : walker' = [walker EXCEPT !.tag_mask = mask]
  /\ UNCHANGED heap

WalkerNext ==
  FirstChild \/ LastChild \/ NextNode \/ NextSibling \/ PreviousSibling \/ ParentNode \/ PreviousNode
  \/ js_tree_iterator_next \/ SetIndex \/ SetTagMask

-----------------------------------------------------------------------------
(***************************************************************************)
(* Properties.                                                             *)
(***************************************************************************)
Inside == walker.hier # <<>> /\ Here.idx < Len(Here.keys)

\* However the walker came where it is, its path leads from the root to its node.
PathLeads ==
  /\ \A i \in 1..(Len(walker.hier) - 1) : walker.hier[i].idx < Len(walker.hier[i].keys)
  /\ Inside => Follow(heap, Root, property_recursion_path(walker.hier)) = CurrentNode

\* nextNode() goes to the first node behind the present position, in document order,
\* that is accepted, and comes out of the root if there is none; also from behind the
\* last property of an object.  A walker starts at the first property of its root, which
\* nextNode() therefore never comes to.
AllNodes == NodesUnder(heap, Root, <<>>, {Root}, {}, 99)
InsideOnce(hier) == hier # <<>> /\ \A i, j \in DOMAIN hier : hier[i].obj = hier[j].obj => i = j
NextInOrder ==
  LET hier == walker.hier
      nodes == AllNodes
      behind == {i \in DOMAIN nodes : /\ After(NodeOf(hier), nodes[i])
                                      /\ Accepts(ValueOfNode(heap, Root, nodes[i]), walker.filter)}
      to == js_tree_walker_next(hier, walker.filter)
  IN InsideOnce(hier) =>
       /\ IF behind = {} THEN to = <<>>
          ELSE NodeOf(to) = nodes[CHOOSE i \in behind : \A j \in behind : i <= j]
       /\ NodeOf(to) # <<1>>

\* previousNode() goes back to the parent or to the previous sibling, and passes over
\* all that is in this sibling, which lies between in document order.
PassesSiblings ==
  InsideOnce(walker.hier) /\ Inside =>
    LET from == NodeOf(walker.hier)
        to == NodeOf(Previous(walker.hier))
        nodes == AllNodes
    IN /\ After(to, from)
       /\ \A i \in DOMAIN nodes :
            After(to, nodes[i]) /\ After(nodes[i], from) => to # <<>> /\ IsStrictPrefix(to, nodes[i])

\* A step to a child or to the next sibling is taken back by the step to the parent or
\* to the previous sibling.
StepsTakenBack ==
  Inside =>
    /\ JS_IsObject(heap, CurrentNode) =>
         \A idx \in {0, -1} :
           LET to == property_recursion_enter(heap, walker.hier, idx)
           IN to = walker.hier \/ Front(to) = walker.hier
    /\ Sibling(Sibling(walker.hier, 1), -1) = walker.hier
=============================================================================
