------------------------------ MODULE Repeater ------------------------------
(***************************************************************************)
(* src/quickjs-repeater.c: an asynchronous iterator fed by an executor.    *)
(* next() and push() meet through two lists of resolvable items; promise   *)
(* jobs, the executor's own promise and the promises that are pushed as    *)
(* values settle later, in any order.                                      *)
(*                                                                         *)
(* Items are numbered in the order they are made: the i-th accepted push   *)
(* is item i, and stop() makes the one after the last push.  Requests are  *)
(* numbered in the order the body of next() runs.  The argument of a       *)
(* next() is a plain value, named by the number of the request.            *)
(***************************************************************************)
EXTENDS Naturals, Sequences

CONSTANTS
  MaxOffers,    \* bound: accepted pushes
  MaxAsked,     \* bound: calls of next()
  MayReject     \* TRUE: a promise pushed as a value may be rejected

ASSUME ConstantsAssumption ==
  /\ MaxOffers \in Nat /\ MaxAsked \in Nat
  /\ MayReject \in BOOLEAN

VARIABLES
  state,      \* rpt->state
  starting,   \* next() is inside js_repeater_execute
  execution,  \* rpt->execution: the executor's promise
  pushes,     \* rpt->pushes
  nexts,      \* rpt->nexts
  offers,     \* pushes accepted so far
  asked,      \* requests so far
  waited,     \* how many of them there were at stop()
  value,      \* value[i]: what item i carries
  answer,     \* answer[k]: the promise next() returned to the k-th request
  heard       \* heard[i]: the promise push() or stop() returned for item i

vars == <<state, starting, execution, pushes, nexts, offers, asked, waited,
          value, answer, heard>>

INITIAL == 0
STARTED == 1
STOPPED == 2
DONE == 3

Items == 1..(MaxOffers + 1)
Requests == 1..MaxAsked

StopItem == offers + 1

\* What an item carries: a plain value, or a promise and how it stands.
Kinds == {"plain", "pending"}
Values == {"none", "plain", "pending", "fulfilled", "rejected"}

\* from: the item an answer comes from, 0 for the executor's end
Answer == [st : {"none", "queued", "deferred", "awaiting", "resolved", "rejected"},
           from : Nat, done : BOOLEAN]
Heard == [st : {"none", "pending", "resolved", "rejected", "undefined"}, by : Nat]

Given(st, from, done) == [st |-> st, from |-> from, done |-> done]
-----------------------------------------------------------------------------
Init ==
  /\ state = INITIAL
  /\ starting = FALSE
  /\ execution = "undefined"
  /\ pushes = <<>> /\ nexts = <<>>
  /\ offers = 0 /\ asked = 0 /\ waited = 0
  /\ value = [i \in Items |-> "none"]
  /\ answer = [k \in Requests |-> [st |-> "none", from |-> 0, done |-> FALSE]]
  /\ heard = [i \in Items |-> [st |-> "none", by |-> 0]]

\* js_repeater_create_iteration: a promise job turns the item's value into a
\* result; whether it is the last one is decided now, after state has changed.
create_iteration(k, i, after) ==
  answer' = [answer EXCEPT ![k] =
               Given("awaiting", i, after >= DONE)]

\* Mutant of TakePush: next() decides about done before it looks at item->stop.
TakePushEarly(k) ==
  LET item == Head(pushes) IN
  /\ pushes' = Tail(pushes)
  /\ heard' = [heard EXCEPT ![item.id] = [st |-> "resolved", by |-> k]]
  /\ state' = IF item.stop THEN DONE ELSE state
  /\ create_iteration(k, item.id, state)
  /\ UNCHANGED nexts

\* An item is waiting: its push hears of this request.
TakePush(k) ==
  LET item == Head(pushes) IN
  /\ pushes' = Tail(pushes)
  /\ heard' = [heard EXCEPT ![item.id] = [st |-> "resolved", by |-> k]]
  /\ state' = IF item.stop THEN DONE ELSE state
  /\ create_iteration(k, item.id, state')
  /\ UNCHANGED nexts

\* repeater_consume: the answer waits for the executor, fulfilled or rejected; the
\* first next() has stored what the executor returned just before.  While the
\* executor is still in its call there is no promise to wait for.
Consume(k) ==
  /\ IF execution' = "undefined"
       THEN answer' = [answer EXCEPT ![k] =
                         Given("resolved", 0, state >= DONE)]
       ELSE create_iteration(k, 0, state)
  /\ UNCHANGED <<state, pushes, nexts, heard>>

Enqueue(k) ==
  /\ answer' = [answer EXCEPT ![k].st = "queued"]
  /\ nexts' = Append(nexts, k)
  /\ UNCHANGED <<state, pushes, heard>>

\* js_repeater_next, after the executor was given its chance to run.
next_body(k) ==
  /\ k \in Requests
  /\ asked' = k
  /\ \/ pushes # <<>> /\ TakePush(k)
     \/ pushes = <<>> /\ state >= STOPPED /\ Consume(k)
     \/ pushes = <<>> /\ state < STOPPED /\ Enqueue(k)
  /\ UNCHANGED <<offers, waited, value>>

\* The first next() calls the executor, which may call push(), stop() and
\* next() itself before it returns its promise.
Start ==
  /\ state = INITIAL
  /\ asked < MaxAsked
  /\ state' = STARTED
  /\ starting' = TRUE
  /\ UNCHANGED <<execution, pushes, nexts, offers, asked, waited, value, answer, heard>>

ExecutorCalled ==
  /\ starting
  /\ starting' = FALSE
  /\ execution' = "running"
  /\ next_body(asked + 1)

CallNext ==
  /\ state # INITIAL
  /\ asked + (IF starting THEN 1 ELSE 0) < MaxAsked
  /\ UNCHANGED <<starting, execution>>
  /\ next_body(asked + 1)

\* Mutant of PushMeets: the newest of the waiting requests is served.
PushMeetsLast(i, kind) ==
  LET k == nexts[Len(nexts)] IN
  /\ nexts' = SubSeq(nexts, 1, Len(nexts) - 1)
  /\ IF kind = "plain"
       THEN /\ answer' = [answer EXCEPT ![k] = Given("resolved", i, FALSE)]
            /\ heard' = [heard EXCEPT ![i] = [st |-> "resolved", by |-> k]]
       ELSE /\ answer' = [answer EXCEPT ![k] = Given("deferred", i, FALSE)]
            /\ heard' = [heard EXCEPT ![i] = [st |-> "pending", by |-> k]]
  /\ UNCHANGED pushes

\* js_repeater_push with a request waiting: a plain value resolves it at once,
\* a promise when it is fulfilled (resolvable_deferred).
PushMeets(i, kind) ==
  LET k == Head(nexts) IN
  /\ nexts' = Tail(nexts)
  /\ IF kind = "plain"
       THEN /\ answer' = [answer EXCEPT ![k] = Given("resolved", i, FALSE)]
            /\ heard' = [heard EXCEPT ![i] = [st |-> "resolved", by |-> k]]
       ELSE /\ answer' = [answer EXCEPT ![k] = Given("deferred", i, FALSE)]
            /\ heard' = [heard EXCEPT ![i] = [st |-> "pending", by |-> k]]
  /\ UNCHANGED pushes

PushWaits(i) ==
  /\ pushes' = Append(pushes, [id |-> i, stop |-> FALSE])
  /\ heard' = [heard EXCEPT ![i].st = "pending"]
  /\ UNCHANGED <<nexts, answer>>

Push(kind) ==
  LET i == offers + 1 IN
  /\ state # INITIAL
  /\ offers < MaxOffers
  /\ nexts # <<>> \/ state < STOPPED
  /\ offers' = i
  /\ value' = [value EXCEPT ![i] = kind]
  /\ IF nexts # <<>> THEN PushMeets(i, kind) ELSE PushWaits(i)
  /\ UNCHANGED <<state, starting, execution, asked, waited>>

\* push() after stop() returns undefined and drops the value.
PushDropped ==
  /\ nexts = <<>> /\ state >= STOPPED
  /\ UNCHANGED vars

Waiting == {nexts[j] : j \in 1..Len(nexts)}

\* Mutant of StopWaits: leaves state as it is.
StopWaitsOpen ==
  /\ nexts = <<>>
  /\ pushes' = Append(pushes, [id |-> StopItem, stop |-> TRUE])
  /\ heard' = [heard EXCEPT ![StopItem].st = "pending"]
  /\ UNCHANGED <<state, nexts, answer>>

\* js_repeater_stop with nobody waiting: the end is queued after the values.
StopWaits ==
  /\ nexts = <<>>
  /\ state' = STOPPED
  /\ pushes' = Append(pushes, [id |-> StopItem, stop |-> TRUE])
  /\ heard' = [heard EXCEPT ![StopItem].st = "pending"]
  /\ UNCHANGED <<nexts, answer>>

\* Mutant of StopMeets: tells only the oldest request.
StopMeetsOne ==
  /\ nexts # <<>>
  /\ state' = DONE
  /\ answer' = [answer EXCEPT ![Head(nexts)] = Given("resolved", StopItem, TRUE)]
  /\ nexts' = Tail(nexts)
  /\ heard' = [heard EXCEPT ![StopItem].st = "undefined"]
  /\ UNCHANGED pushes

\* ... and with requests waiting: all of them are told the end now.
StopMeets ==
  /\ nexts # <<>>
  /\ state' = DONE
  /\ answer' = [k \in Requests |->
       IF k \in Waiting THEN Given("resolved", StopItem, TRUE) ELSE answer[k]]
  /\ nexts' = <<>>
  /\ heard' = [heard EXCEPT ![StopItem].st = "undefined"]
  /\ UNCHANGED pushes

\* Mutant of Stop: does not look at state first.
StopAgain(kind) ==
  /\ state # INITIAL
  /\ waited' = asked
  /\ value' = [value EXCEPT ![StopItem] = kind]
  /\ StopWaits \/ StopMeets
  /\ UNCHANGED <<starting, execution, offers, asked>>

Stop(kind) ==
  /\ state # INITIAL /\ state < STOPPED
  /\ waited' = asked
  /\ value' = [value EXCEPT ![StopItem] = kind]
  /\ StopWaits \/ StopMeets
  /\ UNCHANGED <<starting, execution, offers, asked>>

\* stop() again returns undefined.
StopIgnored == state >= STOPPED /\ UNCHANGED vars
-----------------------------------------------------------------------------
\* The executor's promise is fulfilled or rejected; nothing of the repeater
\* looks at it before the next repeater_consume.
ExecutorReturns ==
  /\ execution = "running"
  /\ execution' = "settled"
  /\ UNCHANGED <<state, starting, pushes, nexts, offers, asked, waited, value,
                 answer, heard>>

\* A promise that was pushed or passed to stop() is settled by its owner.
ValueSettles(i, how) ==
  /\ value[i] = "pending"
  /\ how = "rejected" => MayReject
  /\ value' = [value EXCEPT ![i] = how]
  /\ UNCHANGED <<state, starting, execution, pushes, nexts, offers, asked, waited,
                 answer, heard>>

Unmoved == UNCHANGED <<state, starting, execution, pushes, nexts, offers, asked,
                       waited, value>>

SourceReady(k) ==
  LET i == answer[k].from IN
  IF i = 0 THEN execution = "settled" ELSE value[i] \in {"plain", "fulfilled"}

SourceRejected(k) == answer[k].from # 0 /\ value[answer[k].from] = "rejected"

\* The promise jobs: js_repeater_iteration ...
Iterate(k) ==
  /\ answer[k].st = "awaiting"
  /\ \/ SourceReady(k) /\ answer' = [answer EXCEPT ![k].st = "resolved"]
     \/ SourceRejected(k) /\ answer' = [answer EXCEPT ![k] = Given("rejected", @.from, FALSE)]
  /\ Unmoved /\ UNCHANGED heard

\* ... and resolvable_deferred, which runs only when the value is fulfilled;
\* when it is rejected push()'s promise is, and nobody resolves the request.
Deferred(k) ==
  LET i == answer[k].from IN
  /\ answer[k].st = "deferred"
  /\ \/ /\ value[i] = "fulfilled"
        /\ answer' = [answer EXCEPT ![k].st = "resolved"]
        /\ heard' = [heard EXCEPT ![i].st = "resolved"]
     \/ /\ value[i] = "rejected"
        /\ heard[i].st = "pending"
        /\ heard' = [heard EXCEPT ![i].st = "rejected"]
        /\ UNCHANGED answer
  /\ Unmoved

Job(k) == Iterate(k) \/ Deferred(k)

Next ==
  \/ Start \/ ExecutorCalled \/ CallNext \/ ExecutorReturns
  \/ \E kind \in Kinds : Push(kind) \/ Stop(kind)
  \/ PushDropped \/ StopIgnored
  \/ \E i \in Items, how \in {"fulfilled", "rejected"} : ValueSettles(i, how)
  \/ \E k \in Requests : Job(k)

Spec == Init /\ [][Next]_vars

\* The event loop runs every promise job that was queued; nothing is assumed
\* of the executor, of the consumer or of the promises they make.
FairSpec == Spec /\ \A k \in Requests : WF_vars(Job(k))
-----------------------------------------------------------------------------
(***************************************************************************)
(* Properties.                                                             *)
(***************************************************************************)
\* Types; the requests that were made and the items that carry a value are
\* those that the counters name.
TypeOK ==
  /\ state \in {INITIAL, STARTED, STOPPED, DONE}
  /\ starting \in BOOLEAN
  /\ execution \in {"undefined", "running", "settled"}
  /\ pushes \in Seq([id : Items, stop : BOOLEAN])
  /\ nexts \in Seq(Requests)
  /\ offers \in 0..MaxOffers /\ asked \in 0..MaxAsked /\ waited \in 0..MaxAsked
  /\ value \in [Items -> Values]
  /\ answer \in [Requests -> Answer]
  /\ heard \in [Items -> Heard]
  /\ \A k \in Requests : answer[k].st = "none" <=> k > asked
  /\ \A i \in Items :
       value[i] = "none" <=> i > (IF state >= STOPPED THEN StopItem ELSE offers)

\* The two lists are one rendezvous: whichever side is ahead waits, in order,
\* and the other list is empty.
Fewer(a, b) == IF a < b THEN a ELSE b

Ahead ==
  /\ pushes = <<>> \/ nexts = <<>>
  /\ \A j \in 1..Len(nexts) : nexts[j] = offers + j
  /\ \A j \in 1..Len(pushes) :
       pushes[j] = [id |-> asked + j, stop |-> asked + j = StopItem]

\* STOPPED means that the end is queued as the last item, DONE that it was
\* handed out: no request can be left in nexts that nothing will ever answer.
\* Until then every value and every request was matched or is in its list.
StopsLast ==
  /\ state = STOPPED => nexts = <<>> /\ Len(pushes) = StopItem - asked /\ asked <= offers
  /\ state = DONE => pushes = <<>> /\ nexts = <<>> /\ offers < asked
  /\ state < STOPPED => asked + Len(pushes) = offers + Len(nexts)

\* What the consumer and the producer can see of the repeater.
Seen(k) ==
  IF answer[k].st = "resolved"
    THEN [from |-> answer[k].from, done |-> answer[k].done]
    ELSE [from |-> 0, done |-> FALSE]

Told(i) == IF heard[i].st = "resolved" THEN heard[i].by ELSE 0

R == INSTANCE Rendezvous
       WITH closed <- state >= STOPPED,
            got <- [k \in Requests |-> Seen(k)],
            heard <- [i \in Items |-> Told(i)]

\* The k-th request gets the k-th accepted value and no request gets a value
\* after the end, whichever side was ahead, whoever waited for a promise and
\* whatever order the jobs ran in; each push hears of the request it fed.
ImplementsRendezvous == R!Spec

\* A request that a value or the end was found for.
Decided(k) == k <= asked /\ (k <= offers \/ state >= STOPPED)

Settled(k) == answer[k].st \in {"resolved", "rejected"}

\* push() found the request waiting and its value was rejected.
Dropped(k) == answer[k].st = "deferred" /\ value[answer[k].from] = "rejected"

UserSettles ==
  <>[](execution = "settled" /\ \A i \in Items : value[i] # "pending")

\* If the executor returns and the promises it pushes are settled, every
\* request that a value or the end was found for is answered, except one whose
\* value was rejected when it was already waiting.
DecidedSettle ==
  UserSettles => \A k \in Requests : Decided(k) ~> (Settled(k) \/ Dropped(k))

\* doc/native/repeater.md: next() "Returns a promise for the next {value, done}".
NextIsAnswered ==
  UserSettles => \A k \in Requests : Decided(k) ~> Settled(k)
=============================================================================
