-------------------------------- MODULE Path --------------------------------
(***************************************************************************)
(* The functions of src/src/path.c that take paths apart and put them      *)
(* together, against what paths mean: a starting point, the root or the    *)
(* current directory, some levels up from there, and the names that lead   *)
(* down.  Texts are sequences of characters; a position is a number of     *)
(* characters, as in C.  The program's arguments grow one piece at a time. *)
(***************************************************************************)
EXTENDS Integers, Sequences

CONSTANTS
  PathChars,   \* characters of paths: "/", "." and others
  Pieces,      \* pieces of patterns, see Tokens
  MaxPath,     \* bound: length of a path on its own
  MaxPair,     \* bound: length of each of two paths
  MaxPieces    \* bound: pieces of a pattern

VARIABLES path, other, pattern

pathVars == <<path, other, pattern>>

Seps == {"/"}
Names == (PathChars \union {"nul"}) \ Seps
After(p, n) == SubSeq(p, n + 1, Len(p))

\* How many characters of a set a text begins with: path_component2 for names,
\* path_separator2 for separators.
Leading(p, C) ==
  CHOOSE n \in 0..Len(p) : (\A i \in 1..n : p[i] \in C) /\ (n = Len(p) \/ p[n + 1] \notin C)
Component(p) == Leading(p, Names)
Separator(p) == Leading(p, Seps)
\* path_skip2: a name with the separators after it.
Skip(p) == Component(p) + Separator(After(p, Component(p)))

-----------------------------------------------------------------------------
(***************************************************************************)
(* path_normalize2 works in the buffer that holds the text: what is cut    *)
(* off at the end stays behind it.                                         *)
(***************************************************************************)
At(buf, x) == IF x < Len(buf) THEN buf[x + 1] ELSE "nul"
EndOrSep(c) == c \in Seps \union {"nul"}
IsDot(buf, x) == At(buf, x) = "." /\ EndOrSep(At(buf, x + 1))
IsDotDot(buf, x) == At(buf, x) = "." /\ At(buf, x + 1) = "." /\ EndOrSep(At(buf, x + 2))

\* byte_copy() of n characters to the left.
Copy(buf, to, from, n) ==
  [k \in 1..Len(buf) |-> IF k \in to + 1..to + n THEN buf[k - to + from] ELSE buf[k]]
EndAt(buf, x) == IF x < Len(buf) THEN [buf EXCEPT ![x + 1] = "nul"] ELSE buf

RECURSIVE Again(_, _), Walk(_, _, _)

\* "again": of several separators in front one is kept.
Again(buf, len) ==
  LET i == Separator(SubSeq(buf, 1, len)) IN
  IF i > 1 THEN Walk(Copy(buf, 1, i, len - i), len - i + 1, 1) ELSE Walk(buf, len, i)

\* What is at i up to j is removed.
Remove(buf, len, i, j) == Again(EndAt(Copy(buf, i, j, len - j), i + len - j), i + len - j)

\* Mutant of Climbs: does not see that the name to be removed is itself "..".
ClimbsAlways(buf, len, i, j) == len - j >= 2 /\ IsDotDot(buf, j)

\* The name at i is taken back by ".." at j.
Climbs(buf, len, i, j) == ~IsDotDot(buf, i) /\ len - j >= 2 /\ IsDotDot(buf, j)

Walk(buf, len, i) ==
  IF i >= len THEN SubSeq(buf, 1, len)
  ELSE LET k == Component(SubSeq(buf, i + 1, len))
           j == i + Skip(SubSeq(buf, i + 1, len))
           n == i + k + 1
       IN  IF i > 0 /\ IsDot(buf, i) THEN Remove(buf, len, i, j)
           ELSE IF Climbs(buf, len, i, j)
           THEN Remove(buf, len, i, j + (IF len - j = 2 \/ At(buf, j + 2) = "nul" THEN 2 ELSE 3))
           ELSE IF n < j THEN Walk(Copy(buf, n, j, len - j), len - (j - n), n)
           ELSE Walk(buf, len, n)

path_normalize2(p) == Again(p, Len(p))

-----------------------------------------------------------------------------
(***************************************************************************)
(* Components.                                                             *)
(***************************************************************************)
\* path_at4: where the i-th component begins, and how long it is.
RECURSIVE path_at4(_, _, _)
path_at4(p, i, pos) ==
  LET rest == After(p, pos) IN
  IF rest = <<>> THEN [pos |-> pos, len |-> 0]
  ELSE IF i <= 0 THEN [pos |-> pos, len |-> Component(rest)]
  ELSE path_at4(p, i - 1, pos + Skip(rest))
Part(p, i) == LET a == path_at4(p, i, 0) IN SubSeq(p, a.pos + 1, a.pos + a.len)

\* path_length2: an empty component counts only in front.
RECURSIVE LengthFrom(_, _)
LengthFrom(p, n) ==
  IF p = <<>> \/ (n > 0 /\ Component(p) = 0) THEN n ELSE LengthFrom(After(p, Skip(p)), n + 1)
path_length2(p) == LengthFrom(p, 0)

\* path_isin4
path_isin4(p, dir) ==
  /\ path_length2(p) >= path_length2(dir)
  /\ \A i \in 0..path_length2(dir) - 1 : Part(p, i) = Part(dir, i)

\* path_slice4
RECURSIVE SliceFrom(_, _, _, _, _)
SliceFrom(p, i, start, end, out) ==
  IF i >= end THEN out
  ELSE LET len == Component(p)
           sep == (out # <<>> /\ out[Len(out)] # "/") \/ (i = start /\ len = 0)
       IN  SliceFrom(After(p, Skip(p)), i + 1, start, end,
             IF i < start THEN out
             ELSE (IF sep THEN Append(out, "/") ELSE out) \o SubSeq(p, 1, len))
path_slice4(p, start, end) == SliceFrom(p, 0, start, end, <<>>)

\* path_common4: how much of each path is common to both.
RECURSIVE CommonFrom(_, _, _, _)
CommonFrom(p, q, m, n) ==
  IF m = Len(p) \/ n = Len(q) THEN [sz1 |-> m, sz2 |-> n]
  ELSE LET s == Separator(After(p, m))  t == Separator(After(q, n)) IN
       IF (s = 0) # (t = 0) THEN [sz1 |-> m, sz2 |-> n]
       ELSE LET c == Component(After(p, m + s))  d == Component(After(q, n + t)) IN
            IF SubSeq(p, m + s + 1, m + s + c) # SubSeq(q, n + t + 1, n + t + d)
            THEN [sz1 |-> m + s, sz2 |-> n + t]
            ELSE CommonFrom(p, q, m + s + c, n + t + d)
path_common4(p, q) == CommonFrom(p, q, 0, 0)

\* path_relative5: up from what is left of the one, down what is left of the other.
RECURSIVE Ups(_)
Ups(q) == IF q = <<>> THEN <<>> ELSE <<".", ".", "/">> \o Ups(After(q, Skip(q)))
path_relative5(p, q) ==
  LET c == path_common4(p, q)
      down == After(p, c.sz1)
      rest == After(q, c.sz2)
      out == Ups(After(rest, Separator(rest))) \o After(down, Separator(down))
  IN  IF out = <<>> THEN <<".">>
      ELSE IF out[Len(out)] = "/" THEN SubSeq(out, 1, Len(out) - 1) ELSE out

\* path_right2, for a path that is not empty: where its last component begins.
Right(p) ==
  LET trimmed == CHOOSE n \in 1..Len(p) :
                   (n = 1 \/ p[n] # "/") /\ \A i \in n + 1..Len(p) : p[i] = "/"
      start == CHOOSE n \in 1..trimmed : (n = 1 \/ p[n] = "/") /\ \A i \in n + 1..trimmed : p[i] # "/"
  IN  [pos |-> IF p[start] = "/" THEN start ELSE start - 1, end |-> trimmed]

\* path_basename3
path_basename3(p) == SubSeq(p, Right(p).pos + 1, Right(p).end)

\* path_dirlen2, and "." where it finds nothing to cut off.
path_dirname2(p) ==
  LET n == Right(p).pos
      i == CHOOSE m \in 0..n : (m = 0 \/ p[m] # "/") /\ \A j \in m + 1..n : p[j] = "/"
  IN  IF i = 0 THEN <<".">> ELSE SubSeq(p, 1, i)

-----------------------------------------------------------------------------
(***************************************************************************)
(* path_fnmatch5 without escapes.  flags are PATH_FNM_PATHNAME and _PERIOD, *)
(* "first" the state of PATH_NOTFIRST, "last" the character before.        *)
(***************************************************************************)
Flags == SUBSET {"PATHNAME", "PERIOD"}
Code(c) == CASE c = "." -> 46 [] c = "/" -> 47 [] c = "a" -> 97 [] c = "b" -> 98 [] OTHER -> 0

\* The class that begins after "[": 0, or how long the pattern is up to "]".
RECURSIVE InClass(_, _, _, _)
InClass(pat, c, neg, start) ==
  IF pat = <<>> \/ (pat[1] = "]" /\ ~start) THEN FALSE
  ELSE LET range == Len(pat) > 2 /\ pat[2] = "-" /\ pat[3] # "]"
           res == IF range THEN Code(pat[1]) <= Code(c) /\ Code(c) <= Code(pat[3]) ELSE pat[1] = c
           rest == After(pat, IF range THEN 3 ELSE 1)
       IN  IF res THEN ~neg
           ELSE IF neg /\ rest # <<>> /\ rest[1] = "]" THEN TRUE
           ELSE InClass(rest, c, neg, FALSE)
AfterClass(pat) == After(pat, CHOOSE n \in 2..Len(pat) : pat[n] = "]" /\ \A i \in 2..n - 1 : pat[i] # "]")

RECURSIVE Matches(_, _, _, _, _)
Matches(pat, text, flags, first, last) ==
  IF text = <<>> THEN \A i \in 1..Len(pat) : pat[i] = "*"
  ELSE
    LET c == text[1]
        atSep == c = "/" /\ "PATHNAME" \in flags
        Next1 == Matches(After(pat, 1), After(text, 1), flags, FALSE, c)
    IN
    /\ pat # <<>>
    /\ ~(/\ c = "." /\ pat[1] # "." /\ "PERIOD" \in flags
         /\ first \/ ("PATHNAME" \in flags /\ last = "/"))
    /\ CASE pat[1] = "[" ->
              LET neg == Len(pat) > 1 /\ pat[2] = "!"
                  class == After(pat, IF neg THEN 2 ELSE 1)
              IN  ~atSep /\ InClass(class, c, neg, TRUE)
                  /\ Matches(AfterClass(pat), After(text, 1), flags, FALSE, c)
         [] pat[1] = "*" ->
              \/ ~atSep /\ Matches(pat, After(text, 1), flags, FALSE, c)
              \/ Matches(After(pat, 1), text, flags, FALSE, last)
         [] pat[1] = "?" -> ~atSep /\ Next1
         [] OTHER -> pat[1] = c /\ Next1

path_fnmatch5(pat, text, flags) == Matches(pat, text, flags, TRUE, "nul")

-----------------------------------------------------------------------------
PathInit == path = <<>> /\ other = <<>> /\ pattern = <<>>

\* The program's arguments: one path, two paths, or a path and a pattern.
Longer(c) ==
  /\ Len(path) < MaxPath /\ other = <<>> /\ pattern = <<>>
  /\ path' = Append(path, c) /\ UNCHANGED <<other, pattern>>
LongerOther(c) ==
  /\ Len(path) <= MaxPair /\ Len(other) < MaxPair /\ pattern = <<>>
  /\ other' = Append(other, c) /\ UNCHANGED <<path, pattern>>
LongerPattern(piece) ==
  /\ Len(path) <= MaxPieces /\ Len(pattern) < MaxPieces /\ other = <<>>
  /\ pattern' = Append(pattern, piece) /\ UNCHANGED <<path, other>>

PathNext ==
  \/ \E c \in PathChars : Longer(c) \/ LongerOther(c)
  \/ \E piece \in Pieces : LongerPattern(piece)

-----------------------------------------------------------------------------
(***************************************************************************)
(* What paths mean.                                                        *)
(***************************************************************************)
RECURSIVE Parts(_)
Parts(p) ==
  IF p = <<>> THEN <<>>
  ELSE IF p[1] = "/" THEN Parts(After(p, Separator(p)))
  ELSE <<SubSeq(p, 1, Component(p))>> \o Parts(After(p, Component(p)))

Absolute(p) == p # <<>> /\ p[1] = "/"

RECURSIVE Walked(_, _)
Walked(m, parts) ==
  IF parts = <<>> THEN m
  ELSE Walked(CASE parts[1] = <<".">> -> m
                [] parts[1] = <<".", ".">> ->
                     IF m.down # <<>> THEN [m EXCEPT !.down = SubSeq(@, 1, Len(@) - 1)]
                     ELSE IF m.root THEN m ELSE [m EXCEPT !.up = @ + 1]
                [] OTHER -> [m EXCEPT !.down = Append(@, parts[1])],
              Tail(parts))
Meaning(p) == Walked([root |-> Absolute(p), up |-> 0, down |-> <<>>], Parts(p))

Here == [root |-> FALSE, up |-> 0, down |-> <<>>]

\* A relative path whose first parts lead nowhere, by "." with ".." to come, which
\* is taken for a name, or by ".." before two separators, of which one is left.
Slips(p) ==
  \E n \in 1..Len(p) :
    /\ ~Absolute(p) /\ Meaning(SubSeq(p, 1, n)) = Here /\ n < Len(p) /\ p[n + 1] = "/"
    /\ \/ p[n] = "." /\ (n = 1 \/ p[n - 1] = "/") /\ Meaning(p).up > 0
       \/ n + 1 < Len(p) /\ p[n + 2] = "/"

Plain(p) == \A i \in 1..Len(Parts(p)) : Parts(p)[i] \notin {<<".">>, <<".", ".">>}
Twice(p) == \E i \in 1..Len(p) - 1 : p[i] = "/" /\ p[i + 1] = "/"

\* Nothing is left to be done: no separator twice, no "." but in front, no name
\* before "..".
Tidy(p) ==
  /\ ~Twice(p)
  /\ \A i \in 1..Len(Parts(p)) :
       /\ Parts(p)[i] = <<".">> => i = 1 /\ ~Absolute(p)
       /\ Parts(p)[i] = <<".", ".">> /\ i > 1 => Parts(p)[i - 1] = <<".", ".">>

\* normalize() changes what a path looks like and not where it leads, and when it
\* has no separators in a row it is tidy afterwards.
NormalizeKeepsMeaning ==
  LET q == path_normalize2(path) IN
  ~Slips(path) => Meaning(q) = Meaning(path) /\ (~Twice(path) => Tidy(q))

\* relative() leads from one plain absolute path to the other.
RelativeLeadsThere ==
  Absolute(path) /\ Absolute(other) /\ Plain(path) /\ Plain(other) =>
    Meaning(other \o <<"/">> \o path_relative5(path, other)) = Meaning(path)

\* A path is in a directory when the directory's parts are its first ones.
InMeansBelow ==
  Plain(path) /\ Plain(other) /\ other # <<>> =>
    (path_isin4(path, other) <=>
       /\ Absolute(path) = Absolute(other)
       /\ Len(Parts(other)) <= Len(Parts(path))
       /\ SubSeq(Parts(path), 1, Len(Parts(other))) = Parts(other))

\* Parts by number, slices, and dirname() with basename() take a path apart
\* without loss, where it has a directory part below the root.
PartsAddUp ==
  LET n == path_length2(path) IN
  /\ SelectSeq([i \in 1..n |-> Part(path, i - 1)], LAMBDA x : x # <<>>) = Parts(path)
  /\ \A k \in 0..n : Parts(path_slice4(path, 0, k)) \o Parts(path_slice4(path, k, n)) = Parts(path)
  /\ Meaning(path_slice4(path, 0, n)) = Meaning(path)
  /\ Parts(path) # <<>> =>
       /\ path_basename3(path) = Parts(path)[Len(Parts(path))]
       /\ ~(Absolute(path) /\ Len(Parts(path)) = 1) =>
            Meaning(path_dirname2(path) \o <<"/">> \o path_basename3(path)) = Meaning(path)

\* What a pattern means: pieces stand for characters, stars for any number of them;
\* only a period itself stands for a hidden one, not after a star either.
RECURSIVE Flat(_)
Flat(pieces) == IF pieces = <<>> THEN <<>> ELSE Head(pieces) \o Flat(Tail(pieces))
Stands(piece, c) ==
  CASE piece = <<"?">> -> TRUE
    [] piece[1] = "[" ->
         LET neg == piece[2] = "!"
             class == SubSeq(piece, IF neg THEN 3 ELSE 2, Len(piece) - 1)
             hit == IF Len(class) = 3 /\ class[2] = "-" THEN Code(c) \in Code(class[1])..Code(class[3])
                    ELSE \E i \in 1..Len(class) : class[i] = c
         IN  hit # neg
    [] OTHER -> piece = <<c>>
RECURSIVE Fits(_, _, _, _)
Fits(pieces, text, flags, before) ==
  IF pieces = <<>> THEN text = <<>>
  ELSE LET hidden == text # <<>> /\ text[1] = "." /\ "PERIOD" \in flags
                       /\ (before = "nul" \/ ("PATHNAME" \in flags /\ before = "/"))
           sep == text # <<>> /\ text[1] = "/" /\ "PATHNAME" \in flags
           plain == pieces[1] \notin {<<"?">>, <<"*">>} /\ pieces[1][1] # "["
       IN  IF pieces[1] = <<"*">>
           THEN /\ ~hidden
                /\ \/ Fits(Tail(pieces), text, flags, before)
                   \/ text # <<>> /\ ~sep /\ Fits(pieces, Tail(text), flags, text[1])
           ELSE /\ text # <<>> /\ (plain \/ (~hidden /\ ~sep)) /\ Stands(pieces[1], text[1])
                /\ Fits(Tail(pieces), Tail(text), flags, text[1])

\* fnmatch() matches what the pattern means.
FnmatchMeans ==
  \A flags \in Flags : path_fnmatch5(Flat(pattern), path, flags) <=> Fits(pattern, path, flags, "nul")

PathTypeOK == path \in Seq(PathChars) /\ other \in Seq(PathChars) /\ pattern \in Seq(Pieces)
PathsMean ==
  /\ NormalizeKeepsMeaning /\ RelativeLeadsThere /\ InMeansBelow /\ PartsAddUp /\ FnmatchMeans
=============================================================================
