------------------------------ MODULE Pointer ------------------------------
(***************************************************************************)
(* Pointer (src/pointer.c, quickjs-pointer.c): a list of keys that leads   *)
(* into nested objects.  A key is a text; the atoms that stand for keys    *)
(* are counted, and a pointer owns a reference for each of its keys.       *)
(*                                                                         *)
(* The C functions are operators on sequences of keys; EXCEPTION is what a *)
(* method gives when the memory for no key at all is asked for.            *)
(***************************************************************************)
EXTENDS Integers, Sequences, SequencesExt

CONSTANTS
  Pointers,     \* the objects
  PointerKeys,  \* the keys that the program uses
  MaxPointerCalls, NULL

VARIABLES
  keysOf,    \* the keys of each Pointer; NULL is none
  atomRefs,  \* how many references of each atom the pointers own
  borrowed,  \* atoms were taken as numbers, which counts nothing
  freed,     \* the pointers whose memory was freed, which they go on with
  pointerCalls

pointerVars == <<keysOf, atomRefs, borrowed, freed, pointerCalls>>

\* What no Pointer holds.
EXCEPTION == <<<<"exception">>>>

-----------------------------------------------------------------------------
(***************************************************************************)
(* Ranges.                                                                 *)
(***************************************************************************)
Clamp(i, low, high) == IF i > high THEN high ELSE IF i < low THEN low ELSE i
RANGE_NUM(i, n) == Clamp(IF i < 0 THEN i + n ELSE i, 0, n)

\* indexrange_from_argv(): the end is never before the start.
IndexRange(n, start, end) ==
  LET from == RANGE_NUM(start, n) IN [start |-> from, end |-> Clamp(IF end < 0 THEN end + n ELSE end, from, n)]

pointer_slice(keys, start, end) ==
  LET a == RANGE_NUM(start, Len(keys))
      b == RANGE_NUM(end, Len(keys))
  IN IF a = b THEN EXCEPTION
     ELSE IF a < b THEN SubSeq(keys, a + 1, b) ELSE SubSeq(keys, b + 1, a)

\* What is removed, and what is left.
pointer_splice(keys, start, end, atoms) ==
  [removed |-> IF start = end THEN EXCEPTION ELSE SubSeq(keys, start + 1, end),
   left |-> SubSeq(keys, 1, start) \o atoms \o SubSeq(keys, end + 1, Len(keys))]

\* The index of the first difference, or -1 - length.
pointer_compare(a, b, aoffs, boffs, len) ==
  LET from == RANGE_NUM(aoffs, Len(a))
      with == RANGE_NUM(boffs, Len(b))
      upto == Min({len, Len(a) - from, Len(b) - with})
      differ == {i \in 0..(upto - 1) : a[from + i + 1] # b[with + i + 1]}
  IN IF differ = {} THEN -1 - upto ELSE Min(differ)

pointer_startswith(a, b) == IsPrefix(b, a)
pointer_endswith(a, b) == IsSuffix(b, a)
pointer_at(keys, i) == keys[(i % Len(keys)) + 1]

Slice(keys, start, end) ==
  LET range == IndexRange(Len(keys), start, end) IN pointer_slice(keys, range.start, range.end)
Up(keys, n) == pointer_slice(keys, 0, IF n < 0 THEN Len(keys) + n ELSE n)
Common(a, b) ==
  LET r == pointer_compare(a, b, 0, 0, Min({Len(a), Len(b)})) IN IF r < 0 THEN -r - 1 ELSE r
RelativeTo(a, b) ==
  IF pointer_startswith(a, b) THEN pointer_slice(a, Len(b), Len(a)) ELSE EXCEPTION
Hier(keys) == [i \in DOMAIN keys |-> pointer_slice(keys, 0, i)]

-----------------------------------------------------------------------------
(***************************************************************************)
(* The text of a pointer.                                                  *)
(***************************************************************************)
Digits == {"1"}
IsIndex(key) == key # <<>> /\ key[1] \in Digits
LeadingDigits(text) ==
  LET ends == {i \in DOMAIN text : text[i] \notin Digits}
  IN IF ends = {} THEN text ELSE SubSeq(text, 1, Min(ends) - 1)

Escaped(key) == FlattenSeq([i \in DOMAIN key |-> IF key[i] = "." THEN <<"\\", ".">> ELSE <<key[i]>>])

atoms_serialize(keys) ==
  FlattenSeq([i \in DOMAIN keys |->
    IF IsIndex(keys[i]) THEN <<"[">> \o LeadingDigits(keys[i]) \o <<"]">>
    ELSE (IF i > 1 THEN <<".">> ELSE <<>>) \o Escaped(keys[i])])

\* Where a key ends that begins at the start of "text": at the first delimiter that no
\* backslash precedes.
RECURSIVE Delimiter(_, _)
Delimiter(text, from) ==
  LET set == IF text[1] = "[" THEN {"]"} ELSE {".", "["}
      stops == {i \in (from + 1)..Len(text) : text[i] \in set}
      delim == IF stops = {} THEN Len(text) ELSE Min(stops) - 1
  IN IF delim < Len(text) /\ delim > 0 /\ text[delim] = "\\"
     THEN Delimiter(text, delim + 1) ELSE delim

\* A backslash at the very end stays.
RECURSIVE Unescaped(_)
Unescaped(text) ==
  IF text = <<>> THEN <<>>
  ELSE IF Head(text) = "\\" /\ Len(text) > 1 THEN <<text[2]>> \o Unescaped(SubSeq(text, 3, Len(text)))
  ELSE <<Head(text)>> \o Unescaped(Tail(text))

\* A backslash before a delimiter makes all of the key unescaped.
HasEscape(text, start, delim) ==
  \E i \in (start + 1)..(delim - 1) :
    text[i] = "\\" /\ text[i + 1] \in (IF text[1] = "[" THEN {"]"} ELSE {".", "["})

RECURSIVE ParseFrom(_)
ParseFrom(text) ==
  IF text = <<>> THEN <<>>
  ELSE LET start == IF text[1] = "[" THEN 1 ELSE 0
           delim == Delimiter(text, start)
           key == SubSeq(text, start + 1, delim)
           consumed == IF delim < Len(text) /\ text[delim + 1] \in {"]", "."} THEN delim + 1 ELSE delim
           rest == SubSeq(text, consumed + 1, Len(text))
           after == IF start = 1 /\ rest # <<>> /\ Head(rest) = "." THEN Tail(rest) ELSE rest
       IN <<IF HasEscape(text, start, delim) THEN Unescaped(key) ELSE key>> \o ParseFrom(after)

pointer_parse(text) == ParseFrom(IF text # <<>> /\ Head(text) = "." THEN Tail(text) ELSE text)

-----------------------------------------------------------------------------
(***************************************************************************)
(* The objects.                                                            *)
(***************************************************************************)
PointerInit ==
  /\ keysOf = [p \in Pointers |-> NULL] /\ atomRefs = [k \in PointerKeys |-> 0]
  /\ borrowed = FALSE /\ freed = {} /\ pointerCalls = 0

Occurrences(keys, k) == Len(SelectSeq(keys, LAMBDA key : key = k))
JS_DupAtom(refs, keys) == [k \in PointerKeys |-> refs[k] + Occurrences(keys, k)]
JS_FreeAtom(refs, keys) == [k \in PointerKeys |-> refs[k] - Occurrences(keys, k)]

Lives(p) == keysOf[p] # NULL
Called == pointerCalls < MaxPointerCalls /\ pointerCalls' = pointerCalls + 1
Keys(n) == UNION {[1..m -> PointerKeys] : m \in 0..n}

\* The result becomes a new object; without one there is an exception.
js_pointer_wrap(pointers, keys) ==
  IF keys = EXCEPTION THEN keysOf' = pointers
  ELSE \E q \in Pointers : keysOf[q] = NULL /\ keysOf' = [pointers EXCEPT ![q] = keys]
OrNone(keys) == IF keys = EXCEPTION THEN <<>> ELSE keys

\* An array of keys, then perhaps a Pointer, which takes the place of what came before.
\* Where it has no keys, pointer_reserve() gives the memory of those before it back and
\* goes on with the address.
js_pointer_constructor ==
  /\ Called /\ UNCHANGED borrowed
  /\ \E keys \in Keys(2), source \in Pointers \union {NULL} :
       LET made == IF source = NULL THEN keys ELSE keysOf[source]
       IN /\ source # NULL => Lives(source)
          /\ atomRefs' = JS_DupAtom(IF source = NULL THEN atomRefs
                                    ELSE JS_FreeAtom(JS_DupAtom(atomRefs, keys), keys), made)
          /\ js_pointer_wrap(keysOf, made)
          /\ freed' = IF keys # <<>> /\ made = <<>> THEN freed \union {p \in Pointers : ~Lives(p) /\ keysOf'[p] # NULL}
                      ELSE freed

pointer_push(p) ==
  \E k \in PointerKeys : /\ keysOf' = [keysOf EXCEPT ![p] = Append(@, k)]
                         /\ atomRefs' = JS_DupAtom(atomRefs, <<k>>)
pointer_unshift(p) ==
  \E k \in PointerKeys : /\ keysOf' = [keysOf EXCEPT ![p] = <<k>> \o @]
                         /\ atomRefs' = JS_DupAtom(atomRefs, <<k>>)
pointer_pop(p) == /\ keysOf[p] # <<>>
                  /\ keysOf' = [keysOf EXCEPT ![p] = Front(@)]
                  /\ atomRefs' = JS_FreeAtom(atomRefs, <<Last(keysOf[p])>>)
pointer_shift(p) == /\ keysOf[p] # <<>>
                    /\ keysOf' = [keysOf EXCEPT ![p] = Tail(@)]
                    /\ atomRefs' = JS_FreeAtom(atomRefs, <<Head(keysOf[p])>>)

\* slice(), up(), down(), concat() and relativeTo() leave the object as it is.
Derive(p) ==
  LET n == Len(keysOf[p])
  IN \E keys \in {Slice(keysOf[p], a, b) : a, b \in -1..n} \union {Up(keysOf[p], a) : a \in -1..n}
                 \union {keysOf[p] \o more : more \in Keys(1) \union {keysOf[q] : q \in {r \in Pointers : Lives(r)}}}
                 \union {RelativeTo(keysOf[p], keysOf[q]) : q \in {r \in Pointers : Lives(r)}} :
       /\ js_pointer_wrap(keysOf, keys)
       /\ atomRefs' = JS_DupAtom(atomRefs, OrNone(keys))

\* The removed atoms move to the new object.
Splice(p) ==
  \E a, b \in -1..Len(keysOf[p]), atoms \in Keys(1) :
    LET range == IndexRange(Len(keysOf[p]), a, b)
        spliced == pointer_splice(keysOf[p], range.start, range.end, atoms)
    IN /\ js_pointer_wrap([keysOf EXCEPT ![p] = spliced.left], spliced.removed)
       /\ atomRefs' = JS_DupAtom(atomRefs, atoms)

\* The setter of "path" empties the pointer before it goes through the value.
SetPath(p) ==
  \E value \in {keysOf[q] : q \in {r \in Pointers \ {p} : Lives(r)}} \union {<<>>} :
    /\ keysOf' = [keysOf EXCEPT ![p] = value]
    /\ atomRefs' = JS_DupAtom(JS_FreeAtom(atomRefs, keysOf[p]), value)

\* An index behind the end is the one that it is modulo the length.
js_pointer_set_property(p) ==
  \E index \in 0..(Len(keysOf[p]) + 1), k \in PointerKeys :
    LET n == Len(keysOf[p])
        i == (index % n) + 1
    IN IF index = n
       THEN /\ keysOf' = [keysOf EXCEPT ![p] = Append(@, k)]
            /\ atomRefs' = JS_DupAtom(atomRefs, <<k>>)
       ELSE /\ n > 0
            /\ keysOf' = [keysOf EXCEPT ![p][i] = k]
            /\ atomRefs' = JS_DupAtom(JS_FreeAtom(atomRefs, <<keysOf[p][i]>>), <<k>>)

\* fromAtoms(pointer.atoms) and ofAtoms() take the numbers of atoms as they are.
FromAtoms(p) ==
  /\ borrowed' = TRUE /\ js_pointer_wrap(keysOf, keysOf[p]) /\ UNCHANGED atomRefs

\* The garbage collector.
js_pointer_finalizer(p) ==
  /\ keysOf' = [keysOf EXCEPT ![p] = NULL]
  /\ atomRefs' = JS_FreeAtom(atomRefs, keysOf[p])

\* What writes to memory that was freed, or frees it again, is not followed: the program
\* is undefined from there on.
PointerNext ==
  \/ js_pointer_constructor
  \/ \E p \in Pointers :
       /\ Lives(p) /\ Called /\ UNCHANGED freed
       /\ \/ FromAtoms(p)
          \/ UNCHANGED borrowed /\ (pointer_pop(p) \/ pointer_shift(p) \/ Derive(p))
          \/ /\ UNCHANGED borrowed /\ p \notin freed
             /\ \/ pointer_push(p) \/ pointer_unshift(p) \/ Splice(p) \/ SetPath(p)
                \/ js_pointer_set_property(p) \/ js_pointer_finalizer(p)

-----------------------------------------------------------------------------
(***************************************************************************)
(* Properties.                                                             *)
(***************************************************************************)
\* Each key of each pointer has its reference, and nothing else has one: no atom is
\* freed under a pointer, and none stays for ever.  A pointer whose memory was freed
\* has no keys, and none is looked for there.
KeysCounted ==
  /\ ~borrowed =>
       \A k \in PointerKeys :
         atomRefs[k] = FoldSet(LAMBDA p, n : n + IF Lives(p) THEN Occurrences(keysOf[p], k) ELSE 0, 0, Pointers)
  /\ \A p \in freed : keysOf[p] = <<>>

\* What Array.prototype.slice() gives for the same keys.
ArraySlice(keys, start, end) ==
  SelectSeq([i \in DOMAIN keys |-> <<i, keys[i]>>],
            LAMBDA e : e[1] > RANGE_NUM(start, Len(keys)) /\ e[1] <= RANGE_NUM(end, Len(keys)))

\* What Array.prototype.splice() takes out and leaves.
ArraySplice(keys, start, count, items) ==
  LET from == RANGE_NUM(start, Len(keys))
      upto == Clamp(from + count, from, Len(keys))
  IN [removed |-> SubSeq(keys, from + 1, upto),
      left |-> SubSeq(keys, 1, from) \o items \o SubSeq(keys, upto + 1, Len(keys))]

\* The methods agree with those of Array where they give something, but that splice()
\* is given an end and not a count: splice(start, end) takes out what Array's does for
\* the count end - start, and for "end" itself only at the ends of the keys.  And they
\* agree with each other: what is relative to another pointer, put behind it, is the pointer; the
\* common part of two is the longest that both begin with; the prefixes are those that
\* the pointer starts with; and what was taken out, put back, makes it whole.
PointersAgree ==
  \A p, q \in Pointers :
    Lives(p) /\ Lives(q) =>
      LET a == keysOf[p]
          b == keysOf[q]
          n == Len(a)
          part(keys) == [i \in DOMAIN keys |-> keys[i][2]]
      IN /\ \A start, end \in -(n + 1)..(n + 1) :
              LET range == IndexRange(n, start, end)
                  spliced == pointer_splice(a, range.start, range.end, b)
                  removed == OrNone(spliced.removed)
              IN /\ OrNone(Slice(a, start, end)) = part(ArraySlice(a, start, end))
                 /\ [removed |-> removed, left |-> spliced.left]
                      = ArraySplice(a, start, range.end - range.start, b)
                 /\ start \in 0..n /\ end \in 0..n =>
                      (removed = ArraySplice(a, start, end, b).removed <=> 0 \in {start, end} \/ n \in {start, end})
                 /\ pointer_splice(spliced.left, range.start, range.start + Len(b), removed).left = a
         /\ SubSeq(a, 1, Common(a, b)) = SubSeq(b, 1, Common(a, b))
         /\ Common(a, b) < Min({n, Len(b)}) => a[Common(a, b) + 1] # b[Common(a, b) + 1]
         /\ pointer_startswith(a, b) <=> Common(a, b) = Len(b)
         /\ pointer_startswith(a, b) => b \o OrNone(RelativeTo(a, b)) = a
         /\ \A i \in DOMAIN a : pointer_startswith(a, Hier(a)[i]) /\ RelativeTo(a, Hier(a)[i]) # a
         /\ pointer_endswith(b \o a, a)
         /\ \A i \in DOMAIN a : pointer_at(a, -i) = Reverse(a)[i]

\* A pointer is read from the text that is written for it, unless a key is empty, holds a
\* bracket or a backslash, or begins with a digit and is no number.
TextLeads ==
  \A p \in Pointers :
    Lives(p) =>
      LET Plain(key) == /\ key # <<>> /\ \A i \in DOMAIN key : key[i] \notin {"[", "\\"}
                        /\ IsIndex(key) => LeadingDigits(key) = key
      IN (\A i \in DOMAIN keysOf[p] : Plain(keysOf[p][i])) =>
           pointer_parse(atoms_serialize(keysOf[p])) = keysOf[p]
=============================================================================
