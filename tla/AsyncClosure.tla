---------------------------- MODULE AsyncClosure ----------------------------
(***************************************************************************)
(* AsyncClosure (src/src/async-closure.c): a promise that is settled by a  *)
(* handler of the event loop.  Closures are kept in one list of the        *)
(* process, the newest first, and are looked up there by descriptor; a     *)
(* closure that wants to read or to write has its handler installed.       *)
(*                                                                         *)
(* Closures are numbered in the order they are made.  A function here      *)
(* takes and gives w, which holds what the functions of the file change.   *)
(***************************************************************************)
EXTENDS Integers, Sequences, FiniteSetsExt

CONSTANT Fd     \* descriptors; -1 is none

VARIABLES
  closures,     \* the closures made so far
  io            \* io[f][d]: the closure whose handler watches f, or 0

Wants == {"none", "read", "write"}
Watches == {"read", "write"}

World == [list |-> closures, io |-> io]
Becomes(w) == closures' = w.list /\ io' = w.io

\* js_iohandler_set(): the handler of a descriptor is replaced.
Sets(w, f, d, k) == IF f \in Fd THEN [w EXCEPT !.io[f][d] = k] ELSE w

\* Mutant of asyncclosure_change_event: only the end removes a handler.
ChangeKeepsOld(w, k, new) ==
  LET ac == w.list[k]
      off == IF new # "none" THEN w ELSE Sets(w, ac.fd, ac.state, 0)
      on == [off EXCEPT !.list[k].state = new]
  IN IF ac.state = new THEN w
     ELSE IF new = "none" THEN on ELSE Sets(on, ac.fd, new, k)

\* The old handler goes, whosever it is by now, and the new one comes.
asyncclosure_change_event(w, k, new) ==
  LET ac == w.list[k]
      off == IF ac.state = "none" THEN w ELSE Sets(w, ac.fd, ac.state, 0)
      on == [off EXCEPT !.list[k].state = new]
  IN IF ac.state = new THEN w
     ELSE IF new = "none" THEN on ELSE Sets(on, ac.fd, new, k)

\* "who" is what the closure works for: its connection, its operation.
asyncclosure_new(w, who, f, want) ==
  LET k == Len(w.list) + 1
      fresh == [w EXCEPT !.list = Append(@,
                  [who |-> who, fd |-> f, state |-> "none", listed |-> TRUE,
                   st |-> "pending"])]
  IN asyncclosure_change_event(fresh, k, want)

\* The list starts with the newest: 0 if there is none for f.
asyncclosure_lookup(w, f) ==
  LET at == {k \in DOMAIN w.list : w.list[k].listed /\ w.list[k].fd = f}
  IN IF at = {} THEN 0 ELSE Max(at)

\* The assertion at its top, that the promise is settled, is the caller's to keep.
asyncclosure_done(w, k) ==
  [asyncclosure_change_event(w, k, "none") EXCEPT !.list[k].listed = FALSE]

asyncclosure_resolve(w, k) ==
  asyncclosure_done([w EXCEPT !.list[k].st = "resolved"], k)

asyncclosure_error(w, k) ==
  asyncclosure_done([w EXCEPT !.list[k].st = "rejected"], k)
=============================================================================
