----------------------------- MODULE Combinators -----------------------------
(***************************************************************************)
(* race, merge, zip and latest of src/quickjs-repeater.c: executors that   *)
(* feed a Repeater from several asynchronous iterators, the contenders.    *)
(* The Repeater is the one of module Repeater, and what was left open      *)
(* there, what the executor does, is the program of the combinator here.   *)
(*                                                                         *)
(* The k-th value of a contender is named k.  A contender answers the      *)
(* calls of its next() in order, as generators and Repeaters do, and       *)
(* nothing but its end follows its end or its failure.  Promise jobs run   *)
(* in any order.                                                           *)
(***************************************************************************)
EXTENDS Repeater, FiniteSets

CONSTANTS
  Contenders,   \* asynchronous iterators
  Programs      \* "user" for a Repeater with an executor of its own, or combinators

ASSUME CombinatorsAssumption ==
  /\ IsFiniteSet(Contenders)
  /\ Programs \subseteq {"user", "race", "merge", "zip", "latest"}

VARIABLES
  program,   \* which of them runs
  calls,     \* calls[c]: the calls of c.next(), and the answers so far
  main,      \* where the executor is, and its variables
  loops,     \* loops[c]: where the function that merge and latest start for c is
  carried,   \* carried[i]: what the i-th accepted push carries
  ending     \* what stop() was first called with

combVars == <<calls, main, loops, carried, ending>>
allVars == <<vars, program, combVars>>

Iters == DOMAIN calls
Answers(c) == calls[c].told
NobodyYet == [c |-> "nobody", answer |-> "none"]

\* await push(): it goes on when the item was taken, or at once after stop().
Taken(i) == i # 0 => heard[i].st = "resolved"
ItemGiven == IF state >= STOPPED THEN 0 ELSE offers + 1

Gives(v) ==
  \/ Push("plain") /\ carried' = Append(carried, v)
  \/ PushDropped /\ UNCHANGED carried

Stops(with) ==
  \/ Stop("plain") /\ ending' = with
  \/ StopIgnored /\ UNCHANGED ending

\* next() of every contender; the loops of merge, and of latest after its first
\* round, ask one.
AskAll == calls' = [c \in Iters |-> [calls[c] EXCEPT !.asked = @ + 1]]
Ask(c) == calls' = [calls EXCEPT ![c].asked = @ + 1]

\* The "finally" of the four.
Return == Stops("end") /\ main' = [main EXCEPT !.at = "returned"]
-----------------------------------------------------------------------------
CombInit ==
  /\ Init
  /\ program \in Programs
  /\ \E cs \in SUBSET Contenders :
       /\ program = "user" => cs = {}
       /\ calls = [c \in cs |-> [asked |-> 0, told |-> <<>>]]
       /\ main = [at |-> "idle", item |-> 0, winner |-> NobodyYet, stopped |-> FALSE,
                  heeded |-> [c \in cs |-> 0], values |-> [c \in cs |-> 0]]
       /\ loops = [c \in cs |-> [at |-> "none", item |-> 0]]
  /\ carried = <<>> /\ ending = "none"

\* The contenders; the bound on their values keeps the pushes below MaxOffers.
AllValues ==
  {x \in Iters \X (1..MaxOffers) : x[2] <= Len(Answers(x[1])) /\ Answers(x[1])[x[2]] = "value"}
Ended(c) == \E k \in 1..Len(Answers(c)) : Answers(c)[k] # "value"
ContenderAnswers(c, answer_) ==
  /\ Len(Answers(c)) < calls[c].asked
  /\ Ended(c) => answer_ = "done"
  /\ answer_ = "value" => Cardinality(AllValues) < MaxOffers
  /\ calls' = [calls EXCEPT ![c].told = Append(@, answer_)]
  /\ UNCHANGED <<vars, main, loops, carried, ending>>

\* The part of the executor before its first "await".
Begin ==
  /\ starting /\ main.at = "idle"
  /\ IF Iters = {} THEN Return /\ UNCHANGED <<calls, loops, carried>>
     ELSE /\ AskAll
          /\ main' = [main EXCEPT !.at = CASE program = "race" -> "race"
                                           [] program = "merge" -> "loops"
                                           [] OTHER -> "gather"]
          /\ loops' = [c \in Iters |-> [loops[c] EXCEPT !.at = IF program = "merge" THEN "asking" ELSE @]]
          /\ UNCHANGED <<vars, carried, ending>>
-----------------------------------------------------------------------------
(***************************************************************************)
(* race.  A contender that is late is heard all the same, and may end the  *)
(* race; its values of earlier rounds are not used.                        *)
(***************************************************************************)
RaceHears(c) ==
  LET k == main.heeded[c] + 1
      result == Answers(c)[k]
      first == main.at = "race" /\ k = calls[c].asked /\ main.winner = NobodyYet
  IN
  /\ program = "race" /\ k <= Len(Answers(c))
  /\ IF result = "value" THEN UNCHANGED <<vars, ending>>
     ELSE Stops(IF result = "error" THEN "error" ELSE "end")
  /\ main' = [main EXCEPT !.heeded[c] = k, !.stopped = @ \/ result # "value",
                          !.winner = IF first THEN [c |-> c, answer |-> result] ELSE @]
  /\ UNCHANGED <<calls, loops, carried>>

RaceDecided ==
  /\ main.at = "race" /\ main.winner # NobodyYet
  /\ IF main.stopped \/ main.winner.answer # "value"
       THEN Return /\ UNCHANGED carried
       ELSE /\ Gives([c |-> main.winner.c, n |-> calls[main.winner.c].asked])
            /\ main' = [main EXCEPT !.at = "pushing", !.item = ItemGiven]
            /\ UNCHANGED ending
  /\ UNCHANGED <<calls, loops>>

RaceAgain ==
  /\ program = "race" /\ main.at = "pushing" /\ Taken(main.item)
  /\ IF main.stopped THEN Return /\ UNCHANGED calls
     ELSE /\ AskAll
          /\ main' = [main EXCEPT !.at = "race", !.winner = NobodyYet]
          /\ UNCHANGED <<vars, ending>>
  /\ UNCHANGED <<loops, carried>>
-----------------------------------------------------------------------------
(***************************************************************************)
(* zip, and the first round of latest.                                     *)
(***************************************************************************)
RoundOf(c) == Answers(c)[calls[c].asked]
Answered(c) == Len(Answers(c)) = calls[c].asked

\* Promise.all() is rejected by the first contender that fails.
GatherFails ==
  /\ main.at = "gather" /\ \E c \in Iters : Answered(c) /\ RoundOf(c) = "error"
  /\ Stops("error") /\ main' = [main EXCEPT !.at = "returned"]
  /\ UNCHANGED <<calls, loops, carried>>

Last == IF program = "zip" THEN \E c \in Iters : RoundOf(c) = "done"
        ELSE \A c \in Iters : RoundOf(c) = "done"

Gathered ==
  /\ main.at = "gather" /\ \A c \in Iters : Answered(c) /\ RoundOf(c) # "error"
  /\ IF Last THEN Return /\ UNCHANGED carried
     ELSE LET values == [c \in Iters |-> IF RoundOf(c) = "value" THEN calls[c].asked ELSE 0] IN
          /\ Gives(values)
          /\ main' = [main EXCEPT !.at = "pushing", !.item = ItemGiven, !.values = values]
          /\ UNCHANGED ending
  /\ UNCHANGED <<calls, loops>>

ZipAgain ==
  /\ program = "zip" /\ main.at = "pushing" /\ Taken(main.item)
  /\ AskAll /\ main' = [main EXCEPT !.at = "gather"]
  /\ UNCHANGED <<vars, loops, carried, ending>>

LatestBegins ==
  /\ program = "latest" /\ main.at = "pushing" /\ Taken(main.item)
  /\ main' = [main EXCEPT !.at = "loops"]
  /\ calls' = [c \in Iters |-> [calls[c] EXCEPT !.asked = IF RoundOf(c) = "done" THEN @ ELSE @ + 1]]
  /\ loops' = [c \in Iters |-> [loops[c] EXCEPT !.at = IF RoundOf(c) = "done" THEN "ended" ELSE "asking"]]
  /\ UNCHANGED <<vars, carried, ending>>
-----------------------------------------------------------------------------
(***************************************************************************)
(* The loops of merge and latest, one for each contender.  A loop does not *)
(* look at what became of the others: after stop() the rest of them go on  *)
(* and what they push is dropped.                                          *)
(***************************************************************************)
LoopHears(c) ==
  /\ loops[c].at = "asking" /\ Answered(c)
  /\ CASE RoundOf(c) = "value" ->
            LET values == [main.values EXCEPT ![c] = calls[c].asked] IN
            /\ Gives(IF program = "merge" THEN [c |-> c, n |-> calls[c].asked] ELSE values)
            /\ loops' = [loops EXCEPT ![c] = [at |-> "pushing", item |-> ItemGiven]]
            /\ main' = [main EXCEPT !.values = values]
            /\ UNCHANGED ending
       [] RoundOf(c) = "error" ->
            /\ Stops("error") /\ loops' = [loops EXCEPT ![c].at = "ended"]
            /\ UNCHANGED <<main, carried>>
       [] OTHER -> loops' = [loops EXCEPT ![c].at = "ended"] /\ UNCHANGED <<vars, main, carried, ending>>
  /\ UNCHANGED calls

\* Mutant of LoopAgain: does not wait for the item to be taken.
LoopAgainAtOnce(c) ==
  /\ loops[c].at = "pushing"
  /\ Ask(c) /\ loops' = [loops EXCEPT ![c].at = "asking"]
  /\ UNCHANGED <<vars, main, carried, ending>>

LoopAgain(c) ==
  /\ loops[c].at = "pushing" /\ Taken(loops[c].item)
  /\ Ask(c) /\ loops' = [loops EXCEPT ![c].at = "asking"]
  /\ UNCHANGED <<vars, main, carried, ending>>

LoopsEnded ==
  /\ main.at = "loops" /\ \A c \in Iters : loops[c].at = "ended"
  /\ Return
  /\ UNCHANGED <<calls, loops, carried>>
-----------------------------------------------------------------------------
\* The promise jobs of the combinators.
CombJob ==
  /\ ~starting
  /\ \/ RaceDecided \/ RaceAgain \/ GatherFails \/ Gathered \/ ZipAgain \/ LatestBegins \/ LoopsEnded
     \/ \E c \in Iters : RaceHears(c) \/ LoopHears(c) \/ LoopAgain(c)

\* The consumer and the Repeater's own jobs; the executor's promise.
Consumer == ~starting /\ (CallNext \/ \E k \in Requests : Job(k))

CombNext ==
  /\ UNCHANGED program
  /\ \/ program = "user" /\ Next /\ UNCHANGED combVars
     \/ program # "user" /\ (Start \/ Consumer) /\ UNCHANGED combVars
     \/ program # "user" /\ main.at # "idle" /\ ExecutorCalled /\ UNCHANGED combVars
     \/ main.at = "returned" /\ ExecutorReturns /\ UNCHANGED combVars
     \/ program # "user" /\ Begin
     \/ \E c \in Iters, a \in {"value", "done", "error"} : ~starting /\ ContenderAnswers(c, a)
     \/ CombJob

CombSpec ==
  /\ CombInit /\ [][CombNext]_allVars
  /\ \A k \in Requests : WF_allVars(Job(k) /\ UNCHANGED <<program, combVars>>)
  /\ WF_allVars(CombJob /\ UNCHANGED program)
-----------------------------------------------------------------------------
CombTypeOK ==
  /\ program \in Programs /\ Iters \subseteq Contenders
  /\ main.at \in {"idle", "race", "gather", "pushing", "loops", "returned"}
  /\ \A c \in Iters : /\ Len(Answers(c)) \in 0..calls[c].asked
                      /\ loops[c].at \in {"none", "asking", "pushing", "ended"}
                      /\ loops[c].at # "none" => main.at \in {"loops", "returned"}
  /\ ending \in {"none", "end", "error"} /\ (ending = "none" <=> state < STOPPED)
  /\ Len(carried) = offers

\* The values a loop has seen, and those of a contender that were passed on.
Seen1(c) == {k \in 1..Len(Answers(c)) : Answers(c)[k] = "value"
               /\ (k < calls[c].asked \/ loops[c].at # "asking")}
Passed(c) == {carried[j].n : j \in {i \in 1..offers : carried[i].c = c}}

\* race gives one value of each round, merge all the values of each contender in
\* their order until something fails, zip the k-th values together, and latest
\* every change of the values it holds.
CarriesRight ==
  CASE program = "race" -> \A j \in 1..offers : carried[j].n = j
    [] program = "merge" ->
         /\ \A i, j \in 1..offers :
              i < j /\ carried[i].c = carried[j].c => carried[i].n < carried[j].n
         /\ \A c \in Iters : /\ ending # "error" => Passed(c) = Seen1(c)
                             /\ \A n \in Passed(c) : 1..n \subseteq Passed(c)
    [] program = "zip" -> \A j \in 1..offers : carried[j] = [c \in Iters |-> j]
    [] OTHER ->
         /\ offers > 0 => \A c \in Iters : carried[1][c] = IF Answers(c)[1] = "value" THEN 1 ELSE 0
         /\ \A j \in 2..offers : \E c \in Iters : carried[j] = [carried[j - 1] EXCEPT ![c] = @ + 1]
         /\ offers > 0 /\ ending = "none" => carried[offers] = main.values

\* The end: it comes when the contenders that decide it have ended, it carries the
\* error of a contender that failed before, and the executor does not return
\* without it.
Heeds(c, a) ==
  \E k \in 1..Len(Answers(c)) :
    /\ Answers(c)[k] = a
    /\ CASE program = "race" -> k <= main.heeded[c]
         [] main.at = "gather" -> FALSE
         [] OTHER -> loops[c].at # "asking" \/ k < calls[c].asked
EndsRight ==
  /\ main.at = "returned" => state >= STOPPED
  /\ ending = "error" => \E c \in Iters : Heeds(c, "error")
  /\ ending = "end" /\ Iters # {} =>
       CASE program \in {"race", "zip"} -> \E c \in Iters : Heeds(c, "done")
         [] OTHER -> \A c \in Iters : Heeds(c, "done") /\ ~Heeds(c, "error")

\* Back-pressure: no more items wait than there are functions that push.
FewWait ==
  Cardinality({j \in 1..Len(pushes) : ~pushes[j].stop}) <=
    CASE program \in {"race", "zip"} -> 1
      [] OTHER -> Cardinality(Iters)

\* The executor goes on, unless a contender owes an answer or the consumer has not
\* taken an item.
CombinatorReturns ==
  []<>(\/ main.at \in {"idle", "returned"} \/ pushes # <<>>
       \/ \E c \in Iters : Len(Answers(c)) < calls[c].asked)

\* What the combinators promise.
CombinatorsMean ==
  program # "user" => CombTypeOK /\ CarriesRight /\ EndsRight /\ FewWait

\* Requests are answered, and the combinators go on.
EveryoneGoesOn == DecidedSettle /\ CombinatorReturns
=============================================================================
