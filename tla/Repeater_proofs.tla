--------------------------- MODULE Repeater_proofs ---------------------------
(***************************************************************************)
(* Proofs about Repeater for any number of pushes and requests, and about  *)
(* race, merge, zip and latest for any contenders.                         *)
(***************************************************************************)
EXTENDS Combinators, SequenceTheorems, FiniteSetTheorems, FunctionTheorems, TLAPS

\* Every answer that was decided is the one due, and every push that was told
\* of a request was told of its own.
Correspond ==
  /\ waited <= asked
  /\ \A k \in Requests :
       answer[k].st \in {"awaiting", "deferred", "resolved"} =>
         /\ Decided(k)
         /\ answer[k].from = R!Due(k).from /\ answer[k].done = R!Due(k).done
  /\ \A k \in Requests :
       answer[k].st = "deferred" => k <= offers /\ heard[k].by = k
  /\ \A i \in Items : heard[i].st = "resolved" => heard[i].by = i /\ i <= asked
  /\ \A i \in Items : value[i] = "none" => heard[i].st = "none"

IInv == TypeOK /\ Ahead /\ StopsLast /\ Correspond

-----------------------------------------------------------------------------
\* The head and the tail of a list that is not empty.
LEMMA Shifted ==
  ASSUME NEW S, NEW s \in Seq(S), s # <<>>
  PROVE  /\ Len(s) \in Nat /\ Len(s) > 0
         /\ Head(s) = s[1] /\ Head(s) \in S
         /\ Tail(s) \in Seq(S) /\ Len(Tail(s)) = Len(s) - 1
         /\ \A j \in 1..Len(Tail(s)) : Tail(s)[j] = s[j + 1]
BY HeadTailProperties

\* The new last element of a list.
LEMMA Appended ==
  ASSUME NEW S, NEW s \in Seq(S), NEW e \in S
  PROVE  /\ Len(s) \in Nat
         /\ Append(s, e) \in Seq(S) /\ Len(Append(s, e)) = Len(s) + 1
         /\ Append(s, e) # <<>>
         /\ \A j \in 1..Len(s) : Append(s, e)[j] = s[j]
         /\ Append(s, e)[Len(s) + 1] = e
BY AppendProperties

LEMMA EmptyList ==
  ASSUME NEW S
  PROVE  <<>> \in Seq(S) /\ Len(<<>>) = 0 /\ \A s \in Seq(S) : Len(s) = 0 => s = <<>>
BY EmptySeq

\* What the numbers of the types are.
LEMMA Counters ==
  ASSUME TypeOK
  PROVE  /\ state \in 0..3 /\ MaxOffers \in Nat /\ MaxAsked \in Nat
         /\ offers \in Nat /\ asked \in Nat /\ waited \in Nat
         /\ offers <= MaxOffers /\ asked <= MaxAsked /\ StopItem \in Items
         /\ Len(pushes) \in Nat /\ Len(nexts) \in Nat
         /\ Items \subseteq Nat /\ Requests \subseteq Nat
<1>1. offers \in Nat /\ asked \in Nat /\ waited \in Nat /\ MaxOffers \in Nat /\ MaxAsked \in Nat
  BY ConstantsAssumption DEF TypeOK
<1>2. state \in 0..3
  BY DEF TypeOK, INITIAL, STARTED, STOPPED, DONE
<1>3. Len(pushes) \in Nat /\ Len(nexts) \in Nat
  BY DEF TypeOK
<1> QED BY <1>1, <1>2, <1>3 DEF TypeOK, Items, Requests, StopItem

\* What is due to a request stays what it is once it was decided.
LEMMA DueStays ==
  ASSUME NEW k \in Nat, offers \in Nat, offers' \in Nat, offers <= offers',
         k <= offers \/ (offers' = offers /\ waited' = waited)
  PROVE  R!Due(k)' = R!Due(k)
<1>1. CASE k <= offers
  <2>1. k <= offers'
    BY <1>1
  <2> QED BY <1>1, <2>1 DEF R!Due
<1>2. CASE offers' = offers /\ waited' = waited
  BY <1>2 DEF R!Due
<1> QED BY <1>1, <1>2

-----------------------------------------------------------------------------
\* A step that answers no request and makes no item known.
LEMMA QuietStep ==
  ASSUME IInv, TypeOK', UNCHANGED <<pushes, nexts, offers, asked, waited, answer, heard>>,
         state < STOPPED <=> state' < STOPPED, state >= STOPPED => state' = state,
         \A i \in Items : value'[i] = "none" => value[i] = "none"
  PROVE  IInv'
<1>1. state \in 0..3 /\ state' \in 0..3
  BY DEF IInv, TypeOK, INITIAL, STARTED, STOPPED, DONE
<1>2. Ahead'
  BY DEF IInv, Ahead, StopItem
<1>3. StopsLast'
  BY <1>1 DEF IInv, StopsLast, StopItem, STOPPED, DONE
<1>4. ASSUME NEW k \in Requests PROVE R!Due(k)' = R!Due(k)
  BY DEF R!Due
<1>5. Correspond'
  BY <1>1, <1>4 DEF IInv, Correspond, Decided, STOPPED
<1> QED BY <1>2, <1>3, <1>5 DEF IInv

-----------------------------------------------------------------------------
\* The body of next() in each of its three cases.
LEMMA NextTakesPush ==
  ASSUME IInv, asked + 1 \in Requests, asked' = asked + 1, pushes # <<>>,
         TakePush(asked + 1), UNCHANGED <<offers, waited, value>>,
         starting' \in BOOLEAN, execution' \in {"undefined", "running", "settled"}
  PROVE  IInv'
<1> DEFINE k == asked + 1
<1> DEFINE item == Head(pushes)
<1>1. /\ Len(pushes) \in Nat /\ Len(pushes) > 0 /\ item = pushes[1]
      /\ Tail(pushes) \in Seq([id : Items, stop : BOOLEAN])
      /\ Len(Tail(pushes)) = Len(pushes) - 1
      /\ \A j \in 1..Len(Tail(pushes)) : Tail(pushes)[j] = pushes[j + 1]
  BY Shifted DEF IInv, TypeOK
<1>2. item.id = k /\ item.stop = (k = StopItem) /\ item.id \in Items
  BY <1>1, Shifted DEF IInv, Ahead, TypeOK
<1>3. nexts = <<>> /\ nexts' = <<>> /\ Len(nexts) = 0
  BY DEF IInv, Ahead, TakePush, TypeOK
<1>4. /\ state \in 0..3 /\ offers \in Nat /\ asked \in Nat /\ waited \in Nat
      /\ offers <= MaxOffers /\ asked <= MaxAsked /\ MaxOffers \in Nat /\ MaxAsked \in Nat
  BY Counters DEF IInv
<1>5. state' = IF k = StopItem THEN DONE ELSE state
  BY <1>2 DEF TakePush
<1>6. /\ pushes' = Tail(pushes)
      /\ heard' = [heard EXCEPT ![k] = [st |-> "resolved", by |-> k]]
      /\ answer' = [answer EXCEPT ![k] = Given("awaiting", k, state' >= DONE)]
  BY <1>2 DEF TakePush, create_iteration
<1>7. state < STOPPED => k < StopItem
  BY <1>1, <1>2, <1>3, <1>4 DEF IInv, StopsLast, Ahead, StopItem
<1>8. state \in {STARTED, INITIAL, STOPPED}
  BY <1>1 DEF IInv, StopsLast, TypeOK
<1> HIDE DEF item
<1>9. TypeOK'
  <2>1. answer' \in [Requests -> Answer]
    BY <1>6, <1>4 DEF IInv, TypeOK, Answer, Given
  <2>2. heard' \in [Items -> Heard]
    BY <1>6, <1>2, <1>4 DEF IInv, TypeOK, Heard
  <2>3. \A j \in Requests : answer'[j].st = "none" <=> j > asked'
    BY <1>6, <1>4 DEF IInv, TypeOK, Given, Requests
  <2>4. state' \in {INITIAL, STARTED, STOPPED, DONE} /\ (state' >= STOPPED <=> state >= STOPPED)
    BY <1>5, <1>7, <1>8 DEF INITIAL, STARTED, STOPPED, DONE, StopItem
  <2>5. \A i \in Items :
          value'[i] = "none" <=> i > (IF state' >= STOPPED THEN StopItem' ELSE offers')
    BY <2>4 DEF IInv, TypeOK, StopItem
  <2> QED BY <1>1, <1>3, <1>4, <1>6, <2>1, <2>2, <2>3, <2>4, <2>5 DEF IInv, TypeOK, Requests
<1>10. Ahead'
  <2>1. \A j \in 1..Len(pushes') :
          pushes'[j] = [id |-> asked' + j, stop |-> asked' + j = StopItem']
    <3> TAKE j \in 1..Len(pushes')
    <3>1. j + 1 \in 1..Len(pushes) /\ pushes'[j] = pushes[j + 1]
      BY <1>1, <1>6
    <3>2. pushes[j + 1] = [id |-> asked + (j + 1), stop |-> asked + (j + 1) = StopItem]
      BY <3>1 DEF IInv, Ahead
    <3> QED BY <3>1, <3>2, <1>4 DEF StopItem
  <2> QED BY <1>3, <2>1 DEF Ahead
<1>11. StopsLast'
  <2>1. CASE k = StopItem
    <3>0. k = offers + 1 /\ ~(state < STOPPED)
      BY <2>1, <1>7, <1>4 DEF StopItem
    <3>1. state = STOPPED
      BY <3>0, <1>8 DEF STARTED, INITIAL, STOPPED
    <3>4. Len(pushes) = 1
      <4>1. Len(pushes) = (offers + 1) - asked /\ asked <= offers
        BY <3>1 DEF IInv, StopsLast, StopItem
      <4> QED BY <4>1, <3>0, <1>1, <1>4
    <3>2. Tail(pushes) = <<>>
      <4>1. Len(Tail(pushes)) = 0
        BY <3>4, <1>1
      <4> QED BY <4>1, <1>1, EmptyList
    <3>3. state' = DONE /\ offers' < asked'
      BY <1>5, <2>1, <1>4 DEF StopItem
    <3> QED BY <3>2, <3>3, <1>3, <1>6 DEF StopsLast, STOPPED, DONE
  <2>2. CASE k # StopItem
    <3>1. state' = state
      BY <1>5, <2>2
    <3>2. ASSUME state = STOPPED PROVE Len(pushes') = StopItem' - asked' /\ asked' <= offers'
      BY <3>2, <2>2, <1>1, <1>4, <1>6 DEF IInv, StopsLast, StopItem
    <3>3. ASSUME state < STOPPED PROVE asked' + Len(pushes') = offers' + Len(nexts')
      <4>1. asked + Len(pushes) = offers + 0
        BY <3>3, <1>3 DEF IInv, StopsLast
      <4>2. Len(nexts') = 0 /\ Len(pushes') = Len(pushes) - 1
        BY <1>1, <1>3, <1>6
      <4> QED BY <4>1, <4>2, <1>1, <1>4
    <3>4. state # DONE
      BY <1>8 DEF STARTED, INITIAL, STOPPED, DONE
    <3> QED BY <3>1, <3>2, <3>3, <3>4, <1>3 DEF StopsLast
  <2> QED BY <2>1, <2>2
<1>12. Correspond'
  <2>1. k <= offers \/ (k = offers + 1 /\ state = STOPPED)
    BY <1>1, <1>2, <1>4, <1>7, <1>8 DEF IInv, StopsLast, Ahead, StopItem, STARTED, INITIAL, STOPPED, DONE
  <2>2. \A j \in Requests : R!Due(j)' = R!Due(j)
    BY <1>4, DueStays DEF Requests
  <2>3. state' >= STOPPED <=> state >= STOPPED
    BY <1>5, <1>7, <1>8 DEF INITIAL, STARTED, STOPPED, DONE, StopItem
  <2>4. R!Due(k) = [from |-> k, done |-> state' >= DONE]
    <3>1. CASE k <= offers
      <4>1. R!Due(k) = [from |-> k, done |-> FALSE]
        BY <3>1 DEF R!Due
      <4>2. ~(state' >= DONE)
        BY <3>1, <1>4, <1>5, <1>8 DEF INITIAL, STARTED, STOPPED, DONE, StopItem
      <4>3. (state' >= DONE) = FALSE
        BY <4>2
      <4> QED BY <4>1, <4>3, Zenon
    <3>2. CASE k = offers + 1
      <4>0. ~(k <= offers) /\ k <= offers + 1
        BY <3>2, <1>4
      <4>1. R!Due(k) = [from |-> k, done |-> TRUE]
        BY <4>0, <3>2, Zenon DEF R!Due
      <4>2. state' >= DONE
        BY <3>2, <1>4, <1>5 DEF DONE, StopItem
      <4>3. (state' >= DONE) = TRUE
        BY <4>2
      <4> QED BY <4>1, <4>3, Zenon
    <3> QED BY <3>1, <3>2, <2>1
  <2>5. ASSUME NEW j \in Requests, answer'[j].st \in {"awaiting", "deferred", "resolved"}
        PROVE  /\ Decided(j)'
               /\ answer'[j].from = R!Due(j).from /\ answer'[j].done = R!Due(j).done
    <3>1. CASE j = k
      BY <3>1, <2>1, <2>3, <2>4, <1>4, <1>6, <2>5 DEF IInv, TypeOK, Decided, Given
    <3>2. CASE j # k
      <4>1. answer'[j] = answer[j]
        BY <3>2, <1>6 DEF IInv, TypeOK
      <4>2. /\ Decided(j)
            /\ answer[j].from = R!Due(j).from /\ answer[j].done = R!Due(j).done
        BY <4>1, <2>5 DEF IInv, Correspond
      <4>3. Decided(j)'
        BY <4>2, <2>3, <1>4 DEF Decided, Requests
      <4> QED BY <4>1, <4>2, <4>3
    <3> QED BY <3>1, <3>2
  <2>6. \A j \in Requests : answer'[j].st = "deferred" => j <= offers' /\ heard'[j].by = j
    BY <1>4, <1>6, <1>2 DEF IInv, TypeOK, Correspond, Given, Items
  <2>7. \A i \in Items : heard'[i].st = "resolved" => heard'[i].by = i /\ i <= asked'
    BY <1>4, <1>6, <1>2 DEF IInv, TypeOK, Correspond, Items
  <2>8. value[k] # "none"
    BY <2>1, <1>2, <1>4 DEF IInv, TypeOK, StopItem, STOPPED
  <2>9. \A i \in Items : value'[i] = "none" => heard'[i].st = "none"
    BY <2>8, <1>6 DEF IInv, TypeOK, Correspond
  <2> QED BY <2>2, <2>5, <2>6, <2>7, <2>9, <1>4 DEF IInv, Correspond
<1> QED BY <1>9, <1>10, <1>11, <1>12 DEF IInv

LEMMA NextConsumes ==
  ASSUME IInv, asked + 1 \in Requests, asked' = asked + 1, pushes = <<>>, state >= STOPPED,
         Consume(asked + 1), UNCHANGED <<offers, waited, value>>,
         starting' \in BOOLEAN, execution' \in {"undefined", "running", "settled"}
  PROVE  IInv'
<1> DEFINE k == asked + 1
<1>1. /\ state \in 0..3 /\ offers \in Nat /\ asked \in Nat /\ waited \in Nat
      /\ offers <= MaxOffers /\ asked <= MaxAsked /\ MaxOffers \in Nat /\ MaxAsked \in Nat
  BY Counters DEF IInv
<1>2. Len(pushes) = 0
  BY EmptyList
<1>3. state = DONE
  <2>1. state # STOPPED
    <3> SUFFICES ASSUME state = STOPPED PROVE FALSE
      OBVIOUS
    <3>1. 0 = (offers + 1) - asked /\ asked <= offers
      BY <1>2 DEF IInv, StopsLast, StopItem
    <3> QED BY <3>1, <1>1
  <2> QED BY <2>1, <1>1 DEF STOPPED, DONE
<1>4. /\ UNCHANGED <<state, pushes, nexts, heard>>
      /\ \E st \in {"awaiting", "resolved"} :
           answer' = [answer EXCEPT ![k] = Given(st, 0, TRUE)]
  <2>1. (state >= DONE) = TRUE
    BY <1>3 DEF DONE
  <2> QED BY <2>1 DEF Consume, create_iteration
<1>5. PICK st \in {"awaiting", "resolved"} : answer' = [answer EXCEPT ![k] = Given(st, 0, TRUE)]
  BY <1>4
<1>13. UNCHANGED <<state, pushes, nexts, heard>>
  BY <1>4
<1>14. \A j \in Requests : j # k => answer'[j].st = answer[j].st
  BY <1>5 DEF IInv, TypeOK
<1>6. nexts = <<>> /\ offers < asked
  BY <1>3 DEF IInv, StopsLast
<1>7. \A j \in Requests : j # k => answer'[j] = answer[j]
  BY <1>5 DEF IInv, TypeOK
<1>8. answer'[k] = [st |-> st, from |-> 0, done |-> TRUE]
  BY <1>5 DEF IInv, TypeOK, Given
<1>9. TypeOK'
  <2>1. answer' \in [Requests -> Answer]
    <3>1. Given(st, 0, TRUE) \in Answer
      BY DEF Given, Answer
    <3> QED BY <3>1, <1>5 DEF IInv, TypeOK
  <2>2. \A j \in Requests : answer'[j].st = "none" <=> j > asked'
    <3> TAKE j \in Requests
    <3>1. j \in Nat /\ (answer[j].st = "none" <=> j > asked)
      BY DEF IInv, TypeOK, Requests
    <3> QED BY <3>1, <1>1, <1>7, <1>8
  <2>3. asked' \in 0..MaxAsked
    BY <1>1 DEF Requests
  <2> QED BY <1>4, <2>1, <2>2, <2>3 DEF IInv, TypeOK, StopItem
<1>10. Ahead'
  BY <1>4, <1>6, EmptyList DEF Ahead
<1>11. StopsLast'
  BY <1>1, <1>3, <1>4, <1>6 DEF StopsLast, STOPPED, DONE
<1>12. Correspond'
  <2>1. \A j \in Requests : R!Due(j)' = R!Due(j)
    BY DEF R!Due
  <2>2. R!Due(k) = [from |-> 0, done |-> TRUE]
    <3>1. ~(k <= offers) /\ ~(k <= offers + 1) /\ ~(k <= waited)
      BY <1>1, <1>6 DEF IInv, Correspond
    <3> QED BY <3>1, Zenon DEF R!Due
  <2>3. ASSUME NEW j \in Requests, answer'[j].st \in {"awaiting", "deferred", "resolved"}
        PROVE  /\ Decided(j)'
               /\ answer'[j].from = R!Due(j).from /\ answer'[j].done = R!Due(j).done
    <3>1. CASE j = k
      <4>0. answer'[k].from = 0 /\ answer'[k].done = TRUE
        BY <1>8
      <4>3. R!Due(k).from = 0 /\ R!Due(k).done = TRUE
        BY <2>2
      <4>1. answer'[j].from = R!Due(j).from /\ answer'[j].done = R!Due(j).done
        BY <3>1, <4>0, <4>3, Zenon
      <4>2. Decided(j)'
        BY <3>1, <1>1, <1>3, <1>13 DEF Decided, STOPPED, DONE
      <4> QED BY <4>1, <4>2
    <3>2. CASE j # k
      <4>1. answer'[j] = answer[j]
        BY <3>2, <1>7
      <4>2. /\ Decided(j)
            /\ answer[j].from = R!Due(j).from /\ answer[j].done = R!Due(j).done
        BY <4>1, <2>3 DEF IInv, Correspond
      <4>3. Decided(j)'
        BY <4>2, <1>1, <1>13 DEF Decided, Requests
      <4> QED BY <4>1, <4>2, <4>3
    <3> QED BY <3>1, <3>2
  <2>4. \A j \in Requests : answer'[j].st = "deferred" => j <= offers' /\ heard'[j].by = j
    BY <1>13, <1>14, <1>8 DEF IInv, Correspond
  <2>5. \A i \in Items : heard'[i].st = "resolved" => heard'[i].by = i /\ i <= asked'
    BY <1>1, <1>13 DEF IInv, Correspond, Items
  <2> QED BY <2>1, <2>3, <2>4, <2>5, <1>1, <1>13 DEF IInv, Correspond
<1> QED BY <1>9, <1>10, <1>11, <1>12 DEF IInv

LEMMA NextWaits ==
  ASSUME IInv, asked + 1 \in Requests, asked' = asked + 1, pushes = <<>>, state < STOPPED,
         Enqueue(asked + 1), UNCHANGED <<offers, waited, value>>,
         starting' \in BOOLEAN, execution' \in {"undefined", "running", "settled"}
  PROVE  IInv'
<1> DEFINE k == asked + 1
<1>1. /\ state \in 0..3 /\ offers \in Nat /\ asked \in Nat /\ waited \in Nat
      /\ offers <= MaxOffers /\ asked <= MaxAsked /\ MaxOffers \in Nat /\ MaxAsked \in Nat
  BY Counters DEF IInv
<1>2. Len(pushes) = 0
  BY EmptyList
<1>3. /\ UNCHANGED <<state, pushes, heard>>
      /\ nexts' = Append(nexts, k)
      /\ answer' = [answer EXCEPT ![k].st = "queued"]
  BY DEF Enqueue
<1>4. /\ Len(nexts) \in Nat /\ nexts' \in Seq(Requests) /\ Len(nexts') = Len(nexts) + 1
      /\ \A j \in 1..Len(nexts) : nexts'[j] = nexts[j]
      /\ nexts'[Len(nexts) + 1] = k
  BY <1>3, Appended DEF IInv, TypeOK
<1>5. asked = offers + Len(nexts)
  <2>1. asked + 0 = offers + Len(nexts)
    BY <1>2 DEF IInv, StopsLast
  <2> QED BY <2>1, <1>1
<1>7. \A j \in Requests : j # k => answer'[j] = answer[j]
  BY <1>3 DEF IInv, TypeOK
<1>8. answer'[k] \in Answer /\ answer'[k].st = "queued"
  BY <1>3 DEF IInv, TypeOK, Answer
<1>9. TypeOK'
  <2>1. answer' \in [Requests -> Answer]
    BY <1>3 DEF IInv, TypeOK, Answer
  <2>2. \A j \in Requests : answer'[j].st = "none" <=> j > asked'
    <3> TAKE j \in Requests
    <3>1. j \in Nat /\ (answer[j].st = "none" <=> j > asked)
      BY DEF IInv, TypeOK, Requests
    <3> QED BY <3>1, <1>1, <1>7, <1>8
  <2>3. asked' \in 0..MaxAsked
    BY <1>1 DEF Requests
  <2> QED BY <1>3, <1>4, <2>1, <2>2, <2>3 DEF IInv, TypeOK, StopItem
<1>10. Ahead'
  <2>1. ASSUME NEW j \in 1..Len(nexts') PROVE nexts'[j] = offers' + j
    <3>1. CASE j = Len(nexts) + 1
      BY <3>1, <1>4, <1>5, <1>1
    <3>2. CASE j # Len(nexts) + 1
      <4>1. j \in 1..Len(nexts)
        BY <3>2, <1>4
      <4> QED BY <4>1, <1>4 DEF IInv, Ahead
    <3> QED BY <3>1, <3>2
  <2> QED BY <2>1, <1>2, <1>3 DEF Ahead
<1>11. StopsLast'
  BY <1>1, <1>2, <1>3, <1>4, <1>5 DEF StopsLast, STOPPED, DONE
<1>12. Correspond'
  <2>1. \A j \in Requests : R!Due(j)' = R!Due(j)
    BY DEF R!Due
  <2>3. ASSUME NEW j \in Requests, answer'[j].st \in {"awaiting", "deferred", "resolved"}
        PROVE  /\ Decided(j)'
               /\ answer'[j].from = R!Due(j).from /\ answer'[j].done = R!Due(j).done
    <3>1. answer'[j] = answer[j]
      BY <1>7, <1>8, <2>3
    <3>2. /\ Decided(j)
          /\ answer[j].from = R!Due(j).from /\ answer[j].done = R!Due(j).done
      BY <3>1, <2>3 DEF IInv, Correspond
    <3>3. Decided(j)'
      BY <3>2, <1>1, <1>3 DEF Decided, Requests
    <3> QED BY <3>1, <3>2, <3>3
  <2>4. \A j \in Requests : answer'[j].st = "deferred" => j <= offers' /\ heard'[j].by = j
    BY <1>3, <1>7, <1>8 DEF IInv, Correspond
  <2>5. \A i \in Items : heard'[i].st = "resolved" => heard'[i].by = i /\ i <= asked'
    BY <1>1, <1>3 DEF IInv, Correspond, Items
  <2> QED BY <2>1, <2>3, <2>4, <2>5, <1>1, <1>3 DEF IInv, Correspond
<1> QED BY <1>9, <1>10, <1>11, <1>12 DEF IInv

\* The body of next(), whether the executor ran before it or not.
LEMMA NextBodyKeeps ==
  ASSUME IInv, next_body(asked + 1),
         starting' \in BOOLEAN, execution' \in {"undefined", "running", "settled"}
  PROVE  IInv'
<1>1. asked + 1 \in Requests /\ asked' = asked + 1 /\ UNCHANGED <<offers, waited, value>>
  BY DEF next_body
<1>2. CASE pushes # <<>> /\ TakePush(asked + 1)
  BY <1>1, <1>2, NextTakesPush
<1>3. CASE pushes = <<>> /\ state >= STOPPED /\ Consume(asked + 1)
  BY <1>1, <1>3, NextConsumes
<1>4. CASE pushes = <<>> /\ state < STOPPED /\ Enqueue(asked + 1)
  BY <1>1, <1>4, NextWaits
<1> QED BY <1>2, <1>3, <1>4 DEF next_body

-----------------------------------------------------------------------------
\* push() in its two cases.  The item it makes carried no value before.
LEMMA PushKeeps ==
  ASSUME IInv, NEW kind \in Kinds, Push(kind)
  PROVE  IInv'
<1> DEFINE i == offers + 1
<1>1. /\ state \in 0..3 /\ offers \in Nat /\ asked \in Nat /\ waited \in Nat
      /\ offers <= MaxOffers /\ asked <= MaxAsked /\ MaxOffers \in Nat /\ MaxAsked \in Nat
      /\ Len(pushes) \in Nat /\ Len(nexts) \in Nat
  BY Counters DEF IInv
<1>2. /\ offers' = i /\ offers < MaxOffers
      /\ UNCHANGED <<state, starting, execution, asked, waited>>
      /\ value' = [value EXCEPT ![i] = kind]
  BY DEF Push
<1>3. state < STOPPED
  <2>1. CASE nexts = <<>>
    BY <2>1 DEF Push
  <2>2. CASE nexts # <<>>
    BY <2>2, <1>1 DEF IInv, StopsLast, STOPPED, DONE
  <2> QED BY <2>1, <2>2
<1>4. i \in Items /\ StopItem = i /\ StopItem' = i + 1
  BY <1>1, <1>2 DEF Items, StopItem
<1>5. asked + Len(pushes) = offers + Len(nexts)
  BY <1>3 DEF IInv, StopsLast
<1>6. /\ value' \in [Items -> Values]
      /\ \A j \in Items : value'[j] = "none" <=> j > offers'
  <2>1. kind \in Values /\ kind # "none"
    BY DEF Kinds, Values
  <2>2. value' \in [Items -> Values] /\ \A j \in Items : value'[j] = IF j = i THEN kind ELSE value[j]
    BY <2>1, <1>2, <1>4 DEF IInv, TypeOK
  <2>3. \A j \in Items : value[j] = "none" <=> j > offers
    BY <1>3, <1>1 DEF IInv, TypeOK, STOPPED
  <2> QED BY <2>1, <2>2, <2>3, <1>1, <1>2 DEF Items
<1>7. ASSUME NEW j \in Requests, Decided(j)
      PROVE  R!Due(j)' = R!Due(j) /\ Decided(j)'
  <2>1. j \in Nat /\ j <= offers
    BY <1>1, <1>3, <1>7 DEF Decided, Requests, STOPPED
  <2> QED BY <2>1, <1>1, <1>2, <1>7, DueStays DEF Decided
<1>8. value[i] = "none" /\ heard[i].st = "none" /\ heard[i] \in Heard
  BY <1>1, <1>3, <1>4 DEF IInv, TypeOK, Correspond, STOPPED
<1>9. CASE nexts # <<>>
  <2>0. Head(nexts) \in Requests
    BY <1>9, Shifted DEF IInv, TypeOK
  <2> PICK k \in Requests : k = Head(nexts)
    BY <2>0
  <2>1. /\ k = nexts[1] /\ Len(nexts) > 0
        /\ Tail(nexts) \in Seq(Requests) /\ Len(Tail(nexts)) = Len(nexts) - 1
        /\ \A j \in 1..Len(Tail(nexts)) : Tail(nexts)[j] = nexts[j + 1]
    BY <1>9, Shifted DEF IInv, TypeOK
  <2>2. k = i /\ pushes = <<>> /\ Len(pushes) = 0 /\ k <= asked
    BY <2>1, <1>1, <1>5, <1>9, EmptyList DEF IInv, Ahead
  <2>3. /\ nexts' = Tail(nexts) /\ pushes' = <<>>
        /\ \/ /\ answer' = [answer EXCEPT ![k] = Given("resolved", i, FALSE)]
              /\ heard' = [heard EXCEPT ![i] = [st |-> "resolved", by |-> k]]
           \/ /\ answer' = [answer EXCEPT ![k] = Given("deferred", i, FALSE)]
              /\ heard' = [heard EXCEPT ![i] = [st |-> "pending", by |-> k]]
    BY <1>9, <2>2 DEF Push, PushMeets
  <2>4. PICK st \in {"resolved", "deferred"}, told \in {"resolved", "pending"} :
          /\ answer' = [answer EXCEPT ![k] = [st |-> st, from |-> i, done |-> FALSE]]
          /\ heard' = [heard EXCEPT ![i] = [st |-> told, by |-> k]]
    BY <2>3 DEF Given
  <2>5. /\ answer'[k] = [st |-> st, from |-> i, done |-> FALSE]
        /\ \A j \in Requests : j # k => answer'[j] = answer[j]
        /\ answer' \in [Requests -> Answer]
    BY <2>1, <2>4, <1>1 DEF IInv, TypeOK, Answer
  <2>6. /\ heard'[i] = [st |-> told, by |-> k]
        /\ \A j \in Items : j # i => heard'[j] = heard[j]
        /\ heard' \in [Items -> Heard]
    BY <2>2, <2>4, <1>1, <1>4 DEF IInv, TypeOK, Heard
  <2>7. TypeOK'
    <3>1. ASSUME NEW j \in Requests PROVE answer'[j].st = "none" <=> j > asked'
      <4>1. answer'[k].st # "none" /\ ~(k > asked)
        BY <2>2, <2>5, <1>1 DEF Requests
      <4>2. answer[j].st = "none" <=> j > asked
        BY DEF IInv, TypeOK
      <4> QED BY <4>1, <4>2, <2>5, <1>2
    <3>2. offers' \in 0..MaxOffers /\ ~(state' >= STOPPED)
      BY <1>1, <1>2, <1>3 DEF STOPPED
    <3>3. pushes' \in Seq([id : Items, stop : BOOLEAN])
      BY <2>3, EmptyList
    <3> QED BY <3>1, <3>2, <3>3, <2>1, <2>3, <2>5, <2>6, <1>2, <1>6 DEF IInv, TypeOK
  <2>8. Ahead' /\ StopsLast'
    <3>1. ASSUME NEW j \in 1..Len(nexts') PROVE nexts'[j] = offers' + j
      <4>1. j + 1 \in 1..Len(nexts) /\ nexts'[j] = nexts[j + 1]
        BY <2>1, <2>3, <1>1
      <4>2. nexts[j + 1] = offers + (j + 1)
        BY <4>1 DEF IInv, Ahead
      <4> QED BY <4>1, <4>2, <1>1, <1>2
    <3>2. asked' + Len(pushes') = offers' + Len(nexts')
      BY <2>1, <2>2, <2>3, <1>1, <1>2, <1>5
    <3>3. Ahead'
      BY <3>1, <2>2, <2>3, EmptyList DEF Ahead
    <3> QED BY <3>2, <3>3, <1>1, <1>2, <1>3 DEF StopsLast, STOPPED, DONE
  <2>9. Correspond'
    <3>0. k <= offers' /\ k <= asked'
      BY <2>2, <1>1, <1>2
    <3>1. R!Due(k)'.from = i /\ R!Due(k)'.done = FALSE /\ Decided(k)'
      BY <2>2, <3>0 DEF R!Due, Decided
    <3>2. ASSUME NEW j \in Requests, answer'[j].st \in {"awaiting", "deferred", "resolved"}
          PROVE  /\ Decided(j)'
                 /\ answer'[j].from = R!Due(j)'.from /\ answer'[j].done = R!Due(j)'.done
      <4>1. CASE j = k
        <5>1. answer'[k].from = i /\ answer'[k].done = FALSE
          BY <2>5
        <5> QED BY <4>1, <5>1, <3>1, Zenon
      <4>2. CASE j # k
        <5>1. answer'[j] = answer[j]
          BY <4>2, <2>5
        <5>2. Decided(j) /\ answer[j].from = R!Due(j).from /\ answer[j].done = R!Due(j).done
          BY <5>1, <3>2 DEF IInv, Correspond
        <5> QED BY <5>1, <5>2, <1>7
      <4> QED BY <4>1, <4>2
    <3>3. \A j \in Requests : answer'[j].st = "deferred" => j <= offers' /\ heard'[j].by = j
      <4> SUFFICES ASSUME NEW j \in Requests, answer'[j].st = "deferred"
                   PROVE  j <= offers' /\ heard'[j].by = j
        OBVIOUS
      <4>1. CASE j = k
        BY <4>1, <2>2, <2>6, <1>1, <1>2
      <4>2. CASE j # k
        <5>1. j \in Nat /\ j <= offers /\ heard[j].by = j
          BY <4>2, <2>5 DEF IInv, Correspond, Requests
        <5>2. j \in Items /\ j # i
          BY <5>1, <1>1 DEF Items, Requests
        <5> QED BY <5>1, <5>2, <2>6, <1>1, <1>2
      <4> QED BY <4>1, <4>2
    <3>4. \A j \in Items : heard'[j].st = "resolved" => heard'[j].by = j /\ j <= asked'
      BY <2>2, <2>6, <1>2 DEF IInv, Correspond
    <3>5. \A j \in Items : value'[j] = "none" => heard'[j].st = "none"
      BY <2>6, <1>2, <1>1, <1>6 DEF IInv, TypeOK, Correspond
    <3> QED BY <3>2, <3>3, <3>4, <3>5, <1>2 DEF IInv, Correspond
  <2> QED BY <2>7, <2>8, <2>9 DEF IInv
<1>10. CASE nexts = <<>>
  <2> DEFINE item == [id |-> i, stop |-> FALSE]
  <2>1. /\ pushes' = Append(pushes, item)
        /\ heard' = [heard EXCEPT ![i].st = "pending"]
        /\ UNCHANGED <<nexts, answer>>
    BY <1>10 DEF Push, PushWaits
  <2>2. item \in [id : Items, stop : BOOLEAN]
    BY <1>4
  <2>3. /\ pushes' \in Seq([id : Items, stop : BOOLEAN]) /\ Len(pushes') = Len(pushes) + 1
        /\ \A j \in 1..Len(pushes) : pushes'[j] = pushes[j]
        /\ pushes'[Len(pushes) + 1] = item
    BY <2>1, <2>2, Appended DEF IInv, TypeOK
  <2>4. Len(nexts) = 0 /\ asked + Len(pushes) = offers
    <3>1. Len(nexts) = 0
      BY <1>10, EmptyList
    <3> QED BY <3>1, <1>5, <1>1
  <2>6. /\ heard'[i].st = "pending"
        /\ \A j \in Items : j # i => heard'[j] = heard[j]
        /\ \A j \in Items : heard'[j].by = heard[j].by
        /\ heard' \in [Items -> Heard]
    BY <2>1, <1>4 DEF IInv, TypeOK, Heard
  <2>7. TypeOK'
    <3>2. offers' \in 0..MaxOffers /\ ~(state' >= STOPPED)
      BY <1>1, <1>2, <1>3 DEF STOPPED
    <3> QED BY <3>2, <2>1, <2>3, <2>6, <1>2, <1>6 DEF IInv, TypeOK
  <2>8. Ahead'
    <3>1. ASSUME NEW j \in 1..Len(pushes')
          PROVE  pushes'[j] = [id |-> asked' + j, stop |-> asked' + j = StopItem']
      <4>1. CASE j = Len(pushes) + 1
        <5>1. asked' + j = i /\ ~(asked' + j = StopItem')
          BY <4>1, <2>4, <1>1, <1>2, <1>4
        <5>2. (asked' + j = StopItem') = FALSE
          BY <5>1
        <5> QED BY <4>1, <5>1, <5>2, <2>3
      <4>2. CASE j # Len(pushes) + 1
        <5>1. j \in 1..Len(pushes)
          BY <4>2, <2>3, <1>1
        <5>2. pushes'[j] = [id |-> asked + j, stop |-> asked + j = StopItem]
          BY <5>1, <2>3 DEF IInv, Ahead
        <5>3. ~(asked + j = StopItem) /\ ~(asked + j = StopItem')
          BY <5>1, <2>4, <1>1, <1>4
        <5>4. (asked + j = StopItem) = (asked' + j = StopItem')
          BY <5>3, <1>2
        <5>5. pushes'[j] = [id |-> asked' + j, stop |-> asked + j = StopItem]
          BY <5>2, <1>2
        <5> QED BY <5>4, <5>5, Zenon
      <4> QED BY <4>1, <4>2
    <3>2. nexts' = <<>> /\ \A j \in 1..Len(nexts') : nexts'[j] = offers' + j
      BY <2>1, <2>4, <1>10
    <3> QED BY <3>1, <3>2, Zenon DEF Ahead
  <2>9. StopsLast'
    <3>2. asked' + Len(pushes') = offers' + Len(nexts')
      BY <2>1, <2>3, <2>4, <1>1, <1>2
    <3> QED BY <3>2, <1>1, <1>2, <1>3 DEF StopsLast, STOPPED, DONE
  <2>10. Correspond'
    <3>2. ASSUME NEW j \in Requests, answer'[j].st \in {"awaiting", "deferred", "resolved"}
          PROVE  /\ Decided(j)'
                 /\ answer'[j].from = R!Due(j)'.from /\ answer'[j].done = R!Due(j)'.done
      <4>1. Decided(j) /\ answer[j].from = R!Due(j).from /\ answer[j].done = R!Due(j).done
        BY <2>1, <3>2 DEF IInv, Correspond
      <4> QED BY <4>1, <2>1, <1>7
    <3>3. ASSUME NEW j \in Requests, answer'[j].st = "deferred"
          PROVE  j <= offers' /\ heard'[j].by = j
      <4>1. j \in Nat /\ j <= offers /\ heard[j].by = j
        BY <2>1, <3>3 DEF IInv, Correspond, Requests
      <4>2. j \in Items
        BY <4>1, <1>1 DEF Items, Requests
      <4> QED BY <4>1, <4>2, <2>6, <1>1, <1>2
    <3>4. \A j \in Items : heard'[j].st = "resolved" => heard'[j].by = j /\ j <= asked'
      BY <2>6, <1>2 DEF IInv, Correspond
    <3>5. \A j \in Items : value'[j] = "none" => heard'[j].st = "none"
      BY <2>6, <1>2, <1>1, <1>6 DEF IInv, TypeOK, Correspond
    <3> QED BY <3>2, <3>3, <3>4, <3>5, <1>2 DEF IInv, Correspond
  <2> QED BY <2>7, <2>8, <2>9, <2>10 DEF IInv
<1> QED BY <1>9, <1>10

-----------------------------------------------------------------------------
\* stop() in its two cases.
LEMMA StopKeeps ==
  ASSUME IInv, NEW kind \in Kinds, Stop(kind)
  PROVE  IInv'
<1> DEFINE i == offers + 1
<1>1. /\ state \in 0..3 /\ offers \in Nat /\ asked \in Nat /\ waited \in Nat
      /\ offers <= MaxOffers /\ asked <= MaxAsked /\ MaxOffers \in Nat /\ MaxAsked \in Nat
      /\ Len(pushes) \in Nat /\ Len(nexts) \in Nat
  BY Counters DEF IInv
<1>2. /\ state < STOPPED /\ waited' = asked
      /\ UNCHANGED <<starting, execution, offers, asked>>
      /\ value' = [value EXCEPT ![i] = kind]
  BY DEF Stop, StopItem
<1>3. state' = STOPPED \/ state' = DONE
  BY DEF Stop, StopWaits, StopMeets
<1>4. i \in Items /\ StopItem = i /\ StopItem' = i
  BY <1>1, <1>2 DEF Items, StopItem
<1>5. asked + Len(pushes) = offers + Len(nexts)
  BY <1>2 DEF IInv, StopsLast
<1>6. /\ value' \in [Items -> Values]
      /\ \A j \in Items : value'[j] = "none" <=> j > StopItem'
  <2>1. kind \in Values /\ kind # "none"
    BY DEF Kinds, Values
  <2>2. value' \in [Items -> Values] /\ \A j \in Items : value'[j] = IF j = i THEN kind ELSE value[j]
    BY <2>1, <1>2, <1>4 DEF IInv, TypeOK
  <2>3. \A j \in Items : value[j] = "none" <=> j > offers
    BY <1>2, <1>1 DEF IInv, TypeOK, STOPPED
  <2> QED BY <2>1, <2>2, <2>3, <1>1, <1>4 DEF Items
<1>7. ASSUME NEW j \in Requests, Decided(j)
      PROVE  R!Due(j)' = R!Due(j) /\ Decided(j)'
  <2>1. j \in Nat /\ j <= offers
    BY <1>1, <1>2, <1>7 DEF Decided, Requests, STOPPED
  <2> QED BY <2>1, <1>1, <1>2, <1>7, DueStays DEF Decided
<1>8. value[i] = "none" /\ heard[i].st = "none"
  BY <1>1, <1>2, <1>4 DEF IInv, TypeOK, Correspond, STOPPED
<1>11. /\ state' \in {INITIAL, STARTED, STOPPED, DONE} /\ state' >= STOPPED
       /\ waited' \in 0..MaxAsked
  BY <1>1, <1>2, <1>3 DEF INITIAL, STARTED, STOPPED, DONE
<1>12. ASSUME NEW st \in {"pending", "undefined"}, heard' = [heard EXCEPT ![i].st = st]
       PROVE  /\ heard' \in [Items -> Heard]
              /\ \A j \in Items : heard'[j].by = heard[j].by
              /\ \A j \in Items : heard'[j].st = "resolved" => heard'[j].by = j /\ j <= asked'
              /\ \A j \in Items : value'[j] = "none" => heard'[j].st = "none"
  <2>1. heard' \in [Items -> Heard] /\ \A j \in Items : heard'[j].by = heard[j].by
    BY <1>12, <1>4 DEF IInv, TypeOK, Heard
  <2>2. heard'[i].st = st /\ \A j \in Items : j # i => heard'[j] = heard[j]
    BY <1>12, <1>4 DEF IInv, TypeOK, Heard
  <2>3. value'[i] # "none" /\ \A j \in Items : j # i => value'[j] = value[j]
    BY <1>2, <1>4 DEF IInv, TypeOK, Kinds
  <2> QED BY <2>1, <2>2, <2>3, <1>2 DEF IInv, Correspond
<1>13. ASSUME NEW j \in Requests, answer[j].st = "deferred"
       PROVE  j <= offers /\ j \in Items /\ heard[j].by = j
  BY <1>13, <1>1 DEF IInv, Correspond, Requests, Items
<1>9. CASE StopWaits
  <2> DEFINE item == [id |-> i, stop |-> TRUE]
  <2>1. /\ nexts = <<>> /\ nexts' = <<>> /\ answer' = answer /\ state' = STOPPED
        /\ pushes' = Append(pushes, item)
        /\ heard' = [heard EXCEPT ![i].st = "pending"]
    BY <1>9 DEF StopWaits, StopItem
  <2>2. /\ pushes' \in Seq([id : Items, stop : BOOLEAN]) /\ Len(pushes') = Len(pushes) + 1
        /\ \A j \in 1..Len(pushes) : pushes'[j] = pushes[j]
        /\ pushes'[Len(pushes) + 1] = item
    <3>1. item \in [id : Items, stop : BOOLEAN]
      BY <1>4
    <3> QED BY <3>1, <2>1, Appended DEF IInv, TypeOK
  <2>3. Len(nexts) = 0 /\ asked + Len(pushes) = offers
    <3>1. Len(nexts) = 0
      BY <2>1, EmptyList
    <3> QED BY <3>1, <1>5, <1>1
  <2>4. TypeOK'
    BY <2>1, <2>2, <1>2, <1>6, <1>11, <1>12 DEF IInv, TypeOK
  <2>5. Ahead'
    <3>1. ASSUME NEW j \in 1..Len(pushes')
          PROVE  pushes'[j] = [id |-> asked' + j, stop |-> asked' + j = StopItem']
      <4>1. CASE j = Len(pushes) + 1
        <5>1. asked' + j = i /\ asked' + j = StopItem'
          BY <4>1, <2>3, <1>1, <1>2, <1>4
        <5>2. (asked' + j = StopItem') = TRUE
          BY <5>1
        <5>3. pushes'[j] = [id |-> i, stop |-> TRUE]
          BY <4>1, <2>2
        <5> QED BY <5>1, <5>2, <5>3, Zenon
      <4>2. CASE j # Len(pushes) + 1
        <5>1. j \in 1..Len(pushes)
          BY <4>2, <2>2, <1>1
        <5>2. pushes'[j] = [id |-> asked + j, stop |-> asked + j = StopItem]
          BY <5>1, <2>2 DEF IInv, Ahead
        <5> QED BY <5>2, <1>2, <1>4, Zenon
      <4> QED BY <4>1, <4>2
    <3>2. nexts' = <<>> /\ \A j \in 1..Len(nexts') : nexts'[j] = offers' + j
      BY <2>1, <2>3
    <3> QED BY <3>1, <3>2, Zenon DEF Ahead
  <2>6. StopsLast'
    <3>1. Len(pushes') = StopItem' - asked' /\ asked' <= offers'
      BY <2>2, <2>3, <1>1, <1>2, <1>4
    <3> QED BY <3>1, <2>1 DEF StopsLast, STOPPED, DONE
  <2>7. Correspond'
    <3>2. ASSUME NEW j \in Requests, answer'[j].st \in {"awaiting", "deferred", "resolved"}
          PROVE  /\ Decided(j)'
                 /\ answer'[j].from = R!Due(j)'.from /\ answer'[j].done = R!Due(j)'.done
      <4>1. Decided(j) /\ answer[j].from = R!Due(j).from /\ answer[j].done = R!Due(j).done
        BY <2>1, <3>2 DEF IInv, Correspond
      <4> QED BY <4>1, <2>1, <1>7
    <3>3. \A j \in Requests : answer'[j].st = "deferred" => j <= offers' /\ heard'[j].by = j
      BY <2>1, <1>2, <1>12, <1>13
    <3> QED BY <3>2, <3>3, <2>1, <1>1, <1>2, <1>12 DEF Correspond
  <2> QED BY <2>4, <2>5, <2>6, <2>7 DEF IInv
<1>10. CASE StopMeets
  <2>1. /\ nexts # <<>> /\ nexts' = <<>> /\ pushes' = pushes /\ state' = DONE
        /\ answer' = [k \in Requests |->
             IF k \in Waiting THEN [st |-> "resolved", from |-> i, done |-> TRUE]
             ELSE answer[k]]
        /\ heard' = [heard EXCEPT ![i].st = "undefined"]
    BY <1>10 DEF StopMeets, StopItem, Given
  <2>2. pushes = <<>> /\ Len(pushes) = 0
    BY <2>1, EmptyList DEF IInv, Ahead
  <2>3. asked = offers + Len(nexts) /\ Len(nexts) > 0
    <3>1. Len(nexts) # 0
      BY <2>1, EmptyList DEF IInv, TypeOK
    <3> QED BY <3>1, <2>2, <1>1, <1>5
  <2>4. ASSUME NEW j \in Waiting PROVE j \in Nat /\ offers < j /\ j <= asked
    <3>1. PICK p \in 1..Len(nexts) : j = nexts[p]
      BY DEF Waiting
    <3>2. j = offers + p
      BY <3>1 DEF IInv, Ahead
    <3> QED BY <3>2, <2>3, <1>1
  <2>5. TypeOK'
    <3>1. answer' \in [Requests -> Answer]
      BY <2>1, <1>1 DEF IInv, TypeOK, Answer
    <3>2. ASSUME NEW j \in Requests PROVE answer'[j].st = "none" <=> j > asked'
      <4>1. CASE j \in Waiting
        BY <4>1, <2>1, <2>4, <1>1, <1>2
      <4>2. CASE j \notin Waiting
        BY <4>2, <2>1, <1>2 DEF IInv, TypeOK
      <4> QED BY <4>1, <4>2
    <3> QED BY <3>1, <3>2, <2>1, <1>2, <1>6, <1>11, <1>12, EmptyList DEF IInv, TypeOK
  <2>6. Ahead' /\ StopsLast'
    BY <2>1, <2>2, <2>3, <1>1, <1>2, EmptyList DEF Ahead, StopsLast, STOPPED, DONE
  <2>7. Correspond'
    <3>2. ASSUME NEW j \in Requests, answer'[j].st \in {"awaiting", "deferred", "resolved"}
          PROVE  /\ Decided(j)'
                 /\ answer'[j].from = R!Due(j)'.from /\ answer'[j].done = R!Due(j)'.done
      <4>1. CASE j \in Waiting
        <5>1. ~(j <= offers') /\ j <= waited' /\ j <= asked' /\ offers' + 1 = i
          BY <4>1, <2>4, <1>1, <1>2
        <5>2. R!Due(j)'.from = i /\ R!Due(j)'.done = TRUE
          BY <5>1 DEF R!Due
        <5>3. answer'[j].from = i /\ answer'[j].done = TRUE
          BY <4>1, <2>1
        <5>4. Decided(j)'
          BY <5>1, <1>11 DEF Decided
        <5> QED BY <5>2, <5>3, <5>4, Zenon
      <4>2. CASE j \notin Waiting
        <5>1. answer'[j] = answer[j]
          BY <4>2, <2>1
        <5>2. Decided(j) /\ answer[j].from = R!Due(j).from /\ answer[j].done = R!Due(j).done
          BY <5>1, <3>2 DEF IInv, Correspond
        <5> QED BY <5>1, <5>2, <1>7
      <4> QED BY <4>1, <4>2
    <3>3. \A j \in Requests : answer'[j].st = "deferred" => j <= offers' /\ heard'[j].by = j
      <4>1. \A j \in Requests : answer'[j].st = "deferred" => answer[j].st = "deferred"
        BY <2>1
      <4> QED BY <4>1, <2>1, <1>2, <1>12, <1>13
    <3>4. /\ \A j \in Items : heard'[j].st = "resolved" => heard'[j].by = j /\ j <= asked'
          /\ \A j \in Items : value'[j] = "none" => heard'[j].st = "none"
      BY <2>1, <1>12
    <3>5. waited' <= asked'
      BY <1>1, <1>2
    <3> QED BY <3>2, <3>3, <3>4, <3>5, Zenon DEF Correspond
  <2> QED BY <2>5, <2>6, <2>7 DEF IInv
<1> QED BY <1>9, <1>10 DEF Stop

-----------------------------------------------------------------------------
\* The promise jobs.
LEMMA JobKeeps ==
  ASSUME IInv, NEW k \in Requests, Job(k)
  PROVE  IInv'
<1>1. UNCHANGED <<state, starting, execution, pushes, nexts, offers, asked, waited, value>>
  BY DEF Job, Iterate, Deferred, Unmoved
<1>2. /\ answer[k] \in Answer /\ answer[k].st \in {"awaiting", "deferred"}
  BY DEF IInv, TypeOK, Job, Iterate, Deferred
<1>3. /\ Decided(k) /\ answer[k].from = R!Due(k).from /\ answer[k].done = R!Due(k).done
      /\ answer[k].st = "deferred" => answer[k].from = k /\ k \in Items /\ k <= asked /\ heard[k].by = k
  <2>1. Decided(k) /\ answer[k].from = R!Due(k).from /\ answer[k].done = R!Due(k).done
    BY <1>2 DEF IInv, Correspond
  <2>2. ASSUME answer[k].st = "deferred" PROVE R!Due(k).from = k /\ k \in Items /\ heard[k].by = k
    BY <2>2, Counters DEF IInv, Correspond, R!Due, Requests, Items
  <2> QED BY <2>1, <2>2 DEF Decided
<1>4. \A j \in Requests : R!Due(j)' = R!Due(j) /\ (Decided(j)' <=> Decided(j))
  BY <1>1 DEF R!Due, Decided
<1>5. /\ answer' \in [Requests -> Answer]
      /\ \A j \in Requests : j # k => answer'[j] = answer[j]
      /\ answer'[k].st # "none"
      /\ \/ answer'[k].st = "rejected"
         \/ answer'[k].from = answer[k].from /\ answer'[k].done = answer[k].done
      /\ answer'[k].st = "deferred" => answer[k].st = "deferred"
  <2>1. CASE \E st \in {"resolved", "deferred"} :
               /\ answer' = [answer EXCEPT ![k].st = st]
               /\ st = "deferred" => answer[k].st = "deferred"
    BY <2>1, <1>2, SMTT(60) DEF IInv, TypeOK, Answer
  <2>2. CASE answer' = [answer EXCEPT ![k] = Given("rejected", answer[k].from, FALSE)]
    <3>1. Given("rejected", answer[k].from, FALSE) \in Answer
      BY <1>2 DEF Given, Answer
    <3> QED BY <2>2, <3>1 DEF IInv, TypeOK, Given
  <2>3. ASSUME UNCHANGED answer, answer[k].st = "deferred"
        PROVE  answer' = [answer EXCEPT ![k].st = "deferred"]
    BY <2>3 DEF IInv, TypeOK, Answer
  <2> QED BY <2>1, <2>2, <2>3 DEF Job, Iterate, Deferred
<1>6. /\ heard' \in [Items -> Heard]
      /\ \A j \in Items : heard'[j].by = heard[j].by
      /\ \A j \in Items : heard'[j].st = heard[j].st
                           \/ (j = k /\ j <= asked /\ heard[j].by = j /\ value[j] # "none")
  <2>1. CASE Iterate(k)
    BY <2>1 DEF IInv, TypeOK, Iterate
  <2>2. CASE Deferred(k)
    <3>1. answer[k].from = k /\ k \in Items /\ k <= asked /\ heard[k].by = k
      BY <2>2, <1>3 DEF Deferred
    <3>2. PICK st \in {"resolved", "rejected", heard[k].st} : heard' = [heard EXCEPT ![k].st = st]
      BY <2>2, <3>1 DEF Deferred
    <3>3. value[k] # "none"
      BY <2>2, <3>1 DEF Deferred
    <3> QED BY <3>1, <3>2, <3>3 DEF IInv, TypeOK, Heard
  <2> QED BY <2>1, <2>2 DEF Job
<1>7. TypeOK'
  <2>1. ASSUME NEW j \in Requests PROVE answer'[j].st = "none" <=> j > asked'
    BY <1>1, <1>2, <1>5 DEF IInv, TypeOK
  <2> QED BY <2>1, <1>1, <1>5, <1>6 DEF IInv, TypeOK, StopItem
<1>8. Ahead' /\ StopsLast'
  BY <1>1 DEF IInv, Ahead, StopsLast, StopItem
<1>9. Correspond'
  <2>1. ASSUME NEW j \in Requests, answer'[j].st \in {"awaiting", "deferred", "resolved"}
        PROVE  /\ Decided(j)'
               /\ answer'[j].from = R!Due(j)'.from /\ answer'[j].done = R!Due(j)'.done
    <3>1. Decided(j) /\ answer'[j].from = R!Due(j).from /\ answer'[j].done = R!Due(j).done
      BY <2>1, <1>3, <1>5 DEF IInv, Correspond
    <3> QED BY <3>1, <1>4
  <2>2. ASSUME NEW j \in Requests, answer'[j].st = "deferred"
        PROVE  j <= offers' /\ heard'[j].by = j
    <3>1. answer[j].st = "deferred"
      BY <2>2, <1>5
    <3>2. j <= offers /\ heard[j].by = j /\ j \in Items
      BY <3>1, Counters DEF IInv, Correspond, Requests, Items
    <3> QED BY <3>2, <1>1, <1>6
  <2>3. ASSUME NEW j \in Items
        PROVE  /\ heard'[j].st = "resolved" => heard'[j].by = j /\ j <= asked'
               /\ value'[j] = "none" => heard'[j].st = "none"
    BY <1>1, <1>6 DEF IInv, Correspond
  <2> QED BY <2>1, <2>2, <2>3, <1>1 DEF IInv, Correspond
<1> QED BY <1>7, <1>8, <1>9 DEF IInv

-----------------------------------------------------------------------------
THEOREM InitInvariant == Init => IInv
<1> SUFFICES ASSUME Init PROVE IInv
  OBVIOUS
<1>1. TypeOK
  <2>1. pushes \in Seq([id : Items, stop : BOOLEAN]) /\ nexts \in Seq(Requests)
    BY EmptyList DEF Init
  <2>2. answer \in [Requests -> Answer] /\ \A k \in Requests : answer[k].st = "none" /\ k > asked
    BY DEF Init, Answer, Requests
  <2>3. heard \in [Items -> Heard]
    BY DEF Init, Heard
  <2>4. value \in [Items -> Values] /\ \A i \in Items : value[i] = "none" /\ i > offers
    BY ConstantsAssumption DEF Init, Values, Items
  <2>5. ~(state >= STOPPED) /\ state \in {INITIAL, STARTED, STOPPED, DONE}
    BY DEF Init, INITIAL, STOPPED
  <2>6. offers \in 0..MaxOffers /\ asked \in 0..MaxAsked /\ waited \in 0..MaxAsked
    BY ConstantsAssumption DEF Init
  <2>7. starting \in BOOLEAN /\ execution \in {"undefined", "running", "settled"}
    BY DEF Init
  <2> QED BY <2>1, <2>2, <2>3, <2>4, <2>5, <2>6, <2>7 DEF TypeOK
<1>2. Ahead /\ StopsLast
  BY EmptyList DEF Init, Ahead, StopsLast, INITIAL, STOPPED, DONE
<1>3. Correspond
  BY DEF Init, Correspond
<1> QED BY <1>1, <1>2, <1>3 DEF IInv

\* Every step keeps the invariant.
THEOREM StepKeepsInvariant == IInv /\ [Next]_vars => IInv'
<1> SUFFICES ASSUME IInv, [Next]_vars PROVE IInv'
  OBVIOUS
<1>1. CASE Start
  <2>1. TypeOK'
    BY <1>1 DEF IInv, TypeOK, Start, StopItem, INITIAL, STARTED, STOPPED
  <2> QED BY <1>1, <2>1, QuietStep DEF Start, INITIAL, STARTED, STOPPED
<1>2. CASE ExecutorCalled
  BY <1>2, NextBodyKeeps DEF ExecutorCalled
<1>3. CASE CallNext
  BY <1>3, NextBodyKeeps DEF CallNext, IInv, TypeOK
<1>4. CASE ExecutorReturns
  <2>1. TypeOK'
    BY <1>4 DEF IInv, TypeOK, ExecutorReturns, StopItem
  <2> QED BY <1>4, <2>1, QuietStep DEF ExecutorReturns
<1>5. ASSUME NEW i \in Items, NEW how \in {"fulfilled", "rejected"}, ValueSettles(i, how)
      PROVE  IInv'
  <2>1. value' \in [Items -> Values] /\ \A j \in Items : value'[j] = "none" <=> value[j] = "none"
    BY <1>5 DEF IInv, TypeOK, ValueSettles, Values
  <2>2. TypeOK'
    BY <1>5, <2>1 DEF IInv, TypeOK, ValueSettles, StopItem
  <2> QED BY <1>5, <2>1, <2>2, QuietStep DEF ValueSettles
<1>6. CASE UNCHANGED vars
  <2>1. TypeOK'
    BY <1>6 DEF vars, IInv, TypeOK, StopItem
  <2> QED BY <1>6, <2>1, QuietStep DEF vars
<1>7. CASE PushDropped \/ StopIgnored
  BY <1>6, <1>7 DEF PushDropped, StopIgnored
<1> QED BY <1>1, <1>2, <1>3, <1>4, <1>5, <1>6, <1>7, PushKeeps, StopKeeps, JobKeeps DEF Next

THEOREM InvariantHolds == Spec => []IInv
BY InitInvariant, StepKeepsInvariant, PTL DEF Spec

\* The counters, the lists and the promises keep their types, and exactly the
\* requests and items that were made are known.
THEOREM TypeCorrect == Spec => []TypeOK
BY InvariantHolds, PTL DEF IInv

\* js_repeater_next and js_repeater_push keep one list empty and the other in
\* order.
THEOREM OneListWaits == Spec => []Ahead
BY InvariantHolds, PTL DEF IInv

\* After js_repeater_stop the end is the last item or was handed out, and no
\* request stays behind.
THEOREM EndIsLast == Spec => []StopsLast
BY InvariantHolds, PTL DEF IInv

-----------------------------------------------------------------------------
\* A promise that was resolved is not resolved again to something else.
LEMMA ResolvedStays ==
  ASSUME IInv, Next
  PROVE  /\ \A k \in Requests : answer[k].st = "resolved" => answer'[k] = answer[k]
         /\ \A i \in Items : heard[i].st = "resolved" => heard'[i].st = "resolved"
<1> DEFINE Stays == /\ \A k \in Requests : answer[k].st = "resolved" => answer'[k] = answer[k]
                    /\ \A i \in Items : heard[i].st = "resolved" => heard'[i].st = "resolved"
<1>0. answer \in [Requests -> Answer] /\ heard \in [Items -> Heard]
  BY DEF IInv, TypeOK
<1>1. /\ state \in 0..3 /\ offers \in Nat /\ asked \in Nat
      /\ Len(pushes) \in Nat /\ Len(nexts) \in Nat
  BY Counters DEF IInv
<1>2. CASE next_body(asked + 1)
  <2>1. asked + 1 \in Requests /\ answer[asked + 1].st = "none"
    BY <1>1, <1>2 DEF next_body, IInv, TypeOK
  <2>2. \A k \in Requests : k # asked + 1 => answer'[k] = answer[k]
    BY <1>2, <1>0 DEF next_body, TakePush, Consume, Enqueue, create_iteration
  <2>3. \A i \in Items : heard[i].st = "resolved" => heard'[i].st = "resolved"
    BY <1>2, <1>0 DEF next_body, TakePush, Consume, Enqueue, Heard
  <2> QED BY <2>1, <2>2, <2>3
<1>3. ASSUME NEW kind \in Kinds, Push(kind) \/ Stop(kind), state < STOPPED
      PROVE  Stays
  <2>1. ASSUME NEW j \in 1..Len(nexts)
        PROVE  nexts[j] \in Requests /\ answer[nexts[j]].st # "resolved"
    <3>1. nexts[j] \in Requests /\ nexts[j] = offers + j
      BY DEF IInv, TypeOK, Ahead
    <3>2. ~Decided(nexts[j])
      BY <3>1, <1>1, <1>3 DEF Decided, STOPPED
    <3> QED BY <3>1, <3>2 DEF IInv, Correspond
  <2>2. offers + 1 \in Items /\ heard[offers + 1].st # "resolved"
    <3>1. offers + 1 \in Items
      BY Counters DEF IInv, StopItem
    <3>2. value[offers + 1] = "none"
      BY <3>1, <1>1, <1>3 DEF IInv, TypeOK, STOPPED
    <3> QED BY <3>1, <3>2 DEF IInv, Correspond
  <2>3. \A i \in Items : i # offers + 1 => heard'[i] = heard[i]
    BY <1>3, <1>0 DEF Push, PushMeets, PushWaits, Stop, StopWaits, StopMeets, StopItem
  <2>4. ASSUME NEW k \in Requests, answer[k].st = "resolved" PROVE answer'[k] = answer[k]
    <3>1. \A j \in 1..Len(nexts) : k # nexts[j]
      BY <2>1, <2>4
    <3>2. k \notin Waiting
      BY <3>1 DEF Waiting
    <3>3. nexts # <<>> => k # Head(nexts)
      <4>1. ASSUME nexts # <<>> PROVE Head(nexts) = nexts[1] /\ 1 \in 1..Len(nexts)
        BY <4>1, Shifted DEF IInv, TypeOK
      <4> QED BY <4>1, <3>1
    <3>4. CASE Push(kind)
      BY <3>4, <3>3, <1>0 DEF Push, PushMeets, PushWaits
    <3>5. CASE Stop(kind)
      BY <3>5, <3>2, <1>0 DEF Stop, StopMeets, StopWaits
    <3> QED BY <1>3, <3>4, <3>5
  <2> QED BY <2>2, <2>3, <2>4
<1>4. ASSUME NEW kind \in Kinds, Push(kind) PROVE state < STOPPED
  <2>1. CASE nexts # <<>>
    BY <2>1, <1>1 DEF IInv, StopsLast, STOPPED, DONE
  <2> QED BY <1>4, <2>1 DEF Push
<1>5. ASSUME NEW kind \in Kinds, Push(kind) \/ Stop(kind) PROVE Stays
  BY <1>3, <1>4, <1>5 DEF Stop
<1>6. ASSUME NEW k \in Requests, Job(k) PROVE Stays
  <2>1. answer[k].st # "resolved" /\ \A j \in Requests : j # k => answer'[j] = answer[j]
    BY <1>6, <1>0 DEF Job, Iterate, Deferred
  <2>2. ASSUME NEW i \in Items, heard[i].st = "resolved" PROVE heard'[i].st = "resolved"
    BY <1>6, <2>2, <1>0 DEF Job, Iterate, Deferred, Heard
  <2> QED BY <2>1, <2>2
<1>7. CASE UNCHANGED <<answer, heard>>
  BY <1>7
<1> HIDE DEF Stays
<1>8. Stays
  BY <1>2, <1>5, <1>6, <1>7
     DEF Next, Start, ExecutorCalled, CallNext, ExecutorReturns, PushDropped, StopIgnored,
         ValueSettles, vars, Stays
<1> QED BY <1>8 DEF Stays

\* What the lists do to the counters, next() by next() and push() by push().
LEMMA CountersStep ==
  ASSUME IInv, Next
  PROVE  R!Ask \/ R!Offer \/ R!Close \/ UNCHANGED <<asked, offers, (state >= STOPPED), waited>>
<1>1. state \in 0..3
  BY Counters DEF IInv
<1>2. CASE next_body(asked + 1)
  <2>1. asked' = asked + 1 /\ UNCHANGED <<offers, waited>>
    BY <1>2 DEF next_body
  <2>2. (state' >= STOPPED) = (state >= STOPPED)
    <3>1. CASE state' = state
      BY <3>1
    <3>2. ASSUME pushes # <<>>, TakePush(asked + 1), Head(pushes).stop
          PROVE  state >= STOPPED /\ state' >= STOPPED
      <4>1. pushes[1].stop /\ Len(pushes) \in Nat /\ Len(pushes) > 0 /\ pushes[1] = Head(pushes)
        BY <3>2, Shifted DEF IInv, TypeOK
      <4>2. pushes[1].stop = (asked + 1 = StopItem)
        <5>1. 1 \in 1..Len(pushes)
          BY <4>1
        <5> DEFINE last == (asked + 1 = StopItem)
        <5>2. pushes[1] = [id |-> asked + 1, stop |-> last]
          BY <5>1, Zenon DEF IInv, Ahead
        <5> HIDE DEF last
        <5>3. pushes[1].stop = last
          BY <5>2
        <5> QED BY <5>3 DEF last
      <4>3. asked = offers
        <5>1. asked + 1 = offers + 1
          BY <4>1, <4>2 DEF StopItem
        <5>2. asked \in Nat /\ offers \in Nat
          BY Counters DEF IInv
        <5> QED BY <5>1, <5>2
      <4>4. Len(nexts) = 0
        BY <3>2, EmptyList DEF IInv, Ahead
      <4>5. ~(state < STOPPED)
        <5> SUFFICES ASSUME state < STOPPED PROVE FALSE
          OBVIOUS
        <5>1. asked + Len(pushes) = offers + 0
          BY <4>4 DEF IInv, StopsLast
        <5> QED BY <5>1, <4>1, <4>3, Counters DEF IInv
      <4> QED BY <3>2, <4>5, <1>1 DEF TakePush, STOPPED, DONE
    <3>3. CASE state >= STOPPED /\ state' >= STOPPED
      BY <3>3
    <3> QED BY <1>2, <3>1, <3>2, <3>3 DEF next_body, TakePush, Consume, Enqueue
  <2> QED BY <2>1, <2>2 DEF R!Ask
<1>3. ASSUME NEW kind \in Kinds, Push(kind) PROVE R!Offer
  <2>1. state < STOPPED
    <3>1. CASE nexts # <<>>
      BY <3>1, <1>1 DEF IInv, StopsLast, STOPPED, DONE
    <3> QED BY <1>3, <3>1 DEF Push
  <2>2. ~(state >= STOPPED) /\ state' = state
    BY <1>1, <1>3, <2>1 DEF STOPPED, Push
  <2> QED BY <1>3, <2>2 DEF R!Offer, Push
<1>4. ASSUME NEW kind \in Kinds, Stop(kind) PROVE R!Close
  <2>3. state < STOPPED /\ state' \in {STOPPED, DONE}
    BY <1>4 DEF Stop, StopWaits, StopMeets
  <2>1. ~(state >= STOPPED) /\ state' >= STOPPED
    BY <1>1, <2>3 DEF STOPPED, DONE
  <2>2. (state' >= STOPPED) = TRUE
    BY <2>1
  <2> QED BY <1>4, <2>1, <2>2 DEF R!Close, Stop
<1>5. CASE Start
  <2>1. ~(state >= STOPPED) /\ ~(state' >= STOPPED)
    BY <1>5 DEF Start, INITIAL, STARTED, STOPPED
  <2>2. (state' >= STOPPED) = (state >= STOPPED)
    BY <2>1
  <2> QED BY <1>5, <2>2 DEF Start
<1>6. CASE UNCHANGED <<state, asked, offers, waited>>
  BY <1>6
<1> QED BY <1>2, <1>3, <1>4, <1>5, <1>6
     DEF Next, ExecutorCalled, CallNext, ExecutorReturns, PushDropped, StopIgnored,
         ValueSettles, Job, Iterate, Deferred, Unmoved, vars

\* Every step of the repeater is a step of the rendezvous.
LEMMA StepRefines ==
  ASSUME IInv, IInv', Next
  PROVE  R!Next
<1>1. ASSUME NEW k \in Requests
      PROVE  \/ Seen(k)' = Seen(k)
             \/ Seen(k) = R!Nothing /\ Decided(k)' /\ Seen(k)' = R!Due(k)'
  <2>1. CASE answer[k].st = "resolved"
    BY <2>1, ResolvedStays DEF Seen
  <2>2. CASE answer[k].st # "resolved" /\ answer'[k].st # "resolved"
    BY <2>2 DEF Seen
  <2>3. CASE answer[k].st # "resolved" /\ answer'[k].st = "resolved"
    <3>1. Decided(k)' /\ answer'[k].from = R!Due(k)'.from /\ answer'[k].done = R!Due(k)'.done
      BY <2>3 DEF IInv, Correspond
    <3>2. Seen(k)' = [from |-> answer'[k].from, done |-> answer'[k].done]
      BY <2>3 DEF Seen
    <3>3. R!Due(k)' = [from |-> R!Due(k)'.from, done |-> R!Due(k)'.done]
      BY DEF R!Due
    <3>4. Seen(k) = R!Nothing
      BY <2>3 DEF Seen, R!Nothing
    <3> QED BY <3>1, <3>2, <3>3, <3>4, Zenon
  <2> QED BY <2>1, <2>2, <2>3
<1>2. ASSUME NEW i \in Items
      PROVE  Told(i)' = Told(i) \/ (Told(i) = 0 /\ i <= asked' /\ Told(i)' = i)
  BY ResolvedStays DEF IInv, Correspond, Told
<1>3. R!Tell
  BY <1>1, <1>2 DEF R!Tell, R!Decided, Decided, Requests, Items
<1>4. R!Ask \/ R!Offer \/ R!Close \/ UNCHANGED <<asked, offers, (state >= STOPPED), waited>>
  BY CountersStep
<1> QED BY <1>3, <1>4 DEF R!Next

\* The two lists, the promises and the jobs of quickjs-repeater.c implement the
\* rendezvous: the k-th next() meets the k-th accepted push().
THEOREM RepeaterImplementsRendezvous == Spec => ImplementsRendezvous
<1>1. Init => R!Init
  <2> SUFFICES ASSUME Init PROVE R!Init
    OBVIOUS
  <2>1. (state >= STOPPED) = FALSE
    BY DEF Init, INITIAL, STOPPED
  <2>2. \A k \in Requests : Seen(k) = [from |-> 0, done |-> FALSE]
    BY DEF Init, Seen
  <2>3. \A i \in Items : Told(i) = 0
    BY DEF Init, Told
  <2> QED BY <2>1, <2>2, <2>3 DEF Init, R!Init, R!Nothing, Requests, Items
<1>2. IInv /\ IInv' /\ [Next]_vars => [R!Next]_(R!vars)
  <2>1. UNCHANGED vars => UNCHANGED R!vars
    BY DEF vars, R!vars, Seen, Told
  <2> QED BY <2>1, StepRefines
<1> QED BY <1>1, <1>2, InvariantHolds, PTL DEF Spec, R!Spec, ImplementsRendezvous

-----------------------------------------------------------------------------
(***************************************************************************)
(* The combinators.  What they do to their Repeater are its operations, so *)
(* the theorems above hold of it.                                          *)
(***************************************************************************)
\* stop(), which may come too late, is a step of the Repeater.
LEMMA StopsIsStep == ASSUME NEW w, Stops(w) PROVE Next
<1>1. "plain" \in Kinds BY DEF Kinds
<1>2. QED BY <1>1 DEF Stops, Next

\* push(), which may be dropped, is a step of the Repeater.
LEMMA GivesIsStep == ASSUME NEW v, Gives(v) PROVE Next
<1>1. "plain" \in Kinds BY DEF Kinds
<1>2. QED BY <1>1 DEF Gives, Next

\* What race does.
LEMMA RaceIsStep ==
  ASSUME RaceDecided \/ RaceAgain \/ \E c \in Iters : RaceHears(c)
  PROVE  [Next]_vars
<1>1. CASE RaceDecided
  BY <1>1, StopsIsStep, GivesIsStep DEF RaceDecided, Return
<1>2. CASE RaceAgain
  BY <1>2, StopsIsStep DEF RaceAgain, Return
<1>3. ASSUME NEW c \in Iters, RaceHears(c) PROVE [Next]_vars
  BY <1>3, StopsIsStep DEF RaceHears
<1> QED BY <1>1, <1>2, <1>3

\* What zip does, and latest in its first round.
LEMMA RoundIsStep ==
  ASSUME GatherFails \/ Gathered \/ ZipAgain \/ LatestBegins
  PROVE  [Next]_vars
<1>1. CASE GatherFails
  BY <1>1, StopsIsStep DEF GatherFails
<1>2. CASE Gathered
  BY <1>2, StopsIsStep, GivesIsStep DEF Gathered, Return
<1>3. CASE ZipAgain
  BY <1>3 DEF ZipAgain
<1>4. CASE LatestBegins
  BY <1>4 DEF LatestBegins
<1> QED BY <1>1, <1>2, <1>3, <1>4

\* What the loops of merge and latest do.
LEMMA LoopIsStep ==
  ASSUME LoopsEnded \/ \E c \in Iters : LoopHears(c) \/ LoopAgain(c)
  PROVE  [Next]_vars
<1>1. CASE LoopsEnded
  BY <1>1, StopsIsStep DEF LoopsEnded, Return
<1>2. ASSUME NEW c \in Iters, LoopHears(c) PROVE [Next]_vars
  BY <1>2, StopsIsStep, GivesIsStep DEF LoopHears
<1>3. ASSUME NEW c \in Iters, LoopAgain(c) PROVE [Next]_vars
  BY <1>3 DEF LoopAgain
<1> QED BY <1>1, <1>2, <1>3

\* Every step of a program with a combinator is a step of its Repeater, or none.
LEMMA CombinatorIsStep == [CombNext]_allVars => [Next]_vars
<1> SUFFICES ASSUME [CombNext]_allVars PROVE [Next]_vars
  OBVIOUS
<1>1. CASE UNCHANGED allVars
  BY <1>1 DEF allVars
<1>2. CASE CombNext
  <2>1. CASE program = "user" /\ Next /\ UNCHANGED combVars
    BY <2>1
  <2>2. CASE program # "user" /\ (Start \/ Consumer) /\ UNCHANGED combVars
    BY <2>2 DEF Consumer, Next
  <2>3. CASE program # "user" /\ main.at # "idle" /\ ExecutorCalled /\ UNCHANGED combVars
    BY <2>3 DEF Next
  <2>4. CASE main.at = "returned" /\ ExecutorReturns /\ UNCHANGED combVars
    BY <2>4 DEF Next
  <2>5. CASE program # "user" /\ Begin
    BY <2>5, StopsIsStep DEF Begin, Return
  <2>6. CASE \E c \in Iters, a \in {"value", "done", "error"} : ~starting /\ ContenderAnswers(c, a)
    BY <2>6 DEF ContenderAnswers
  <2>7. CASE CombJob
    BY <2>7, RaceIsStep, RoundIsStep, LoopIsStep DEF CombJob
  <2> QED BY <1>2, <2>1, <2>2, <2>3, <2>4, <2>5, <2>6, <2>7 DEF CombNext
<1> QED BY <1>1, <1>2

\* The combinators are executors like any other: whatever is proved of every
\* Repeater holds of theirs.
THEOREM CombinatorsUseRepeater == CombSpec => Spec
<1>1. CombInit => Init
  BY DEF CombInit
<1> QED BY <1>1, CombinatorIsStep, PTL DEF CombSpec, Spec

\* The Repeater of a combinator gives its consumer the items in order, each to
\* the request of its number, and nothing after the end.
THEOREM CombinatorsKeepRendezvous == CombSpec => ImplementsRendezvous
<1> QED BY CombinatorsUseRepeater, RepeaterImplementsRendezvous, PTL

-----------------------------------------------------------------------------
(***************************************************************************)
(* What the combinators carry.  The invariant relates where the functions  *)
(* of a program stand to the calls they made, to the items in the list of  *)
(* the Repeater and to what was carried and ended; it has a part for each  *)
(* program.                                                                *)
(***************************************************************************)
Results == {"value", "done", "error"}
Payloads == IF program \in {"race", "merge"} THEN [c : Contenders, n : Nat] ELSE [Iters -> Nat]

Calls == [asked : Nat, told : Seq(Results)]
Executor == [at : {"idle", "race", "gather", "pushing", "loops", "returned"}, item : Nat,
             winner : [c : Iters \union {"nobody"}, answer : Results \union {"none"}],
             stopped : BOOLEAN, heeded : [Iters -> Nat], values : [Iters -> Nat]]
Loop == [at : {"none", "asking", "pushing", "ended"}, item : Nat]

CombTypes ==
  /\ program \in Programs /\ Iters \subseteq Contenders
  /\ calls \in [Iters -> Calls] /\ main \in Executor /\ loops \in [Iters -> Loop]
  /\ carried \in Seq(Payloads)
  /\ ending \in {"none", "end", "error"}

\* The items of values that nobody has taken yet.
WaitingItems == (asked + 1)..offers

\* What every program has in common.
Common ==
  /\ Len(carried) = offers
  /\ ending = "none" <=> state < STOPPED
  /\ main.at = "returned" => ending # "none"
  /\ \A c \in Iters : Len(Answers(c)) <= calls[c].asked
  /\ Iters = {} => main.at \in {"idle", "returned"}
  /\ main.at = "idle" =>
       /\ offers = 0 /\ ending = "none" /\ ~main.stopped /\ main.winner = NobodyYet
       /\ \A c \in Iters : /\ calls[c].asked = 0 /\ main.values[c] = 0 /\ main.heeded[c] = 0
                           /\ loops[c].at = "none"

\* Where an answer was told.
WasTold(c, a) == \E k \in 1..Len(Answers(c)) : Answers(c)[k] = a
ToldLast(c, a) == Answered(c) /\ calls[c].asked > 0 /\ RoundOf(c) = a

\* One function pushes, and waits before it pushes again.
OneItem == \A i \in WaitingItems : main.at = "pushing" /\ main.item = i

RaceRounds ==
  \A c \in Iters :
    /\ main.at = "race" => calls[c].asked = offers + 1
    /\ main.at = "pushing" => calls[c].asked = offers
    /\ main.heeded[c] <= Len(Answers(c))
    /\ loops[c].at = "none"

\* A contender that ended or failed, and was heard, stops the race.
RaceStops ==
  /\ ending # "none" => main.stopped \/ main.at = "returned"
  /\ main.stopped => ending # "none"
  /\ main.winner # NobodyYet => main.winner.c \in Iters /\ main.winner.answer # "none"
  /\ main.winner.answer \in {"done", "error"} => main.stopped

Heeded(a) == \E c \in Iters : \E k \in 1..main.heeded[c] : Answers(c)[k] = a
RaceEnds ==
  /\ ending = "error" => Heeded("error")
  /\ ending = "end" /\ Iters # {} => Heeded("done")

RaceInv ==
  /\ main.at \in {"idle", "race", "pushing", "returned"}
  /\ RaceRounds /\ RaceStops /\ RaceEnds
  /\ \A j \in 1..offers : carried[j].n = j
  /\ OneItem

ZipRounds ==
  \A c \in Iters :
    /\ main.at = "gather" => calls[c].asked = offers + 1
    /\ main.at = "pushing" => calls[c].asked = offers
    /\ loops[c].at = "none"

\* The first round without a value of each contender is the last one.
ZipEnds ==
  /\ main.at # "returned" => ending = "none"
  /\ ending = "error" => \E c \in Iters : WasTold(c, "error")
  /\ ending = "end" /\ Iters # {} => \E c \in Iters : WasTold(c, "done")

ZipInv ==
  /\ main.at \in {"idle", "gather", "pushing", "returned"}
  /\ ZipRounds /\ ZipEnds
  /\ \A j \in 1..offers : carried[j] = [c \in Iters |-> j]
  /\ OneItem

\* The functions that merge and latest start for their contenders: where they are,
\* the answers they wait for or have heard, and the end.
LoopPlaces ==
  \A c \in Iters :
    /\ main.at \in {"idle", "gather", "pushing"} => loops[c].at = "none"
    /\ main.at = "loops" => loops[c].at # "none"
    /\ loops[c].at # "none" => calls[c].asked > 0

LoopAnswers ==
  \A c \in Iters :
    /\ calls[c].asked <= Len(Answers(c)) + 1
    /\ loops[c].at = "pushing" => ToldLast(c, "value")
    /\ loops[c].at = "ended" => ToldLast(c, "done") \/ (ToldLast(c, "error") /\ ending = "error")
    /\ \A k \in 1..Len(Answers(c)) : k < calls[c].asked => Answers(c)[k] = "value"

Out(c, a) == ToldLast(c, a) /\ loops[c].at \in {"none", "ended"}
LoopEnds ==
  /\ main.at \in {"idle", "gather", "pushing"} => ending = "none"
  /\ ending = "error" => \E c \in Iters : Out(c, "error")
  /\ ending = "end" => main.at = "returned" /\ \A c \in Iters : Out(c, "done")

\* Each of them pushes one item and waits.
OneItemEach ==
  \A i \in WaitingItems :
    \/ main.at = "pushing" /\ main.item = i
    \/ \E c \in Iters : loops[c].at = "pushing" /\ loops[c].item = i

LoopsInv == LoopPlaces /\ LoopAnswers /\ LoopEnds /\ OneItemEach

MergeOrder ==
  \A i, j \in 1..offers :
    i < j /\ carried[i].c = carried[j].c => carried[i].n < carried[j].n
MergeAll ==
  \A c \in Iters : /\ ending # "error" => Passed(c) = Seen1(c)
                  /\ \A n \in Passed(c) : 1..n \subseteq Passed(c)
MergeInv ==
  /\ main.at \in {"idle", "loops", "returned"}
  /\ \A c \in Iters : loops[c].at = "none" => main.at = "idle"
  /\ MergeOrder /\ MergeAll

Changes(j) == \E c \in Iters : carried[j] = [carried[j - 1] EXCEPT ![c] = @ + 1]
FirstOf(c) == IF Answers(c)[1] = "value" THEN 1 ELSE 0

LatestRounds ==
  \A c \in Iters :
    /\ main.at = "gather" => calls[c].asked = 1
    /\ main.at = "pushing" =>
         /\ calls[c].asked = 1 /\ Answered(c) /\ RoundOf(c) # "error"
         /\ main.values[c] = FirstOf(c)
    /\ loops[c].at = "asking" => main.values[c] = calls[c].asked - 1
    /\ loops[c].at = "pushing" => main.values[c] = calls[c].asked
LatestCarries ==
  /\ offers > 0 => \A c \in Iters : Len(Answers(c)) > 0 /\ carried[1][c] = FirstOf(c)
  /\ \A j \in 2..offers : Changes(j)
  /\ offers > 0 /\ ending = "none" => carried[offers] = main.values
LatestInv ==
  /\ main.at # "race"
  /\ main.at = "gather" => offers = 0
  /\ main.at = "pushing" => offers = 1
  /\ main.at = "loops" => offers > 0
  /\ LatestRounds /\ LatestCarries

CombInv ==
  /\ CombTypes
  /\ program = "user" => Iters = {} /\ main.at = "idle"
  /\ program # "user" => Common
  /\ program = "race" => RaceInv
  /\ program = "zip" => ZipInv
  /\ program \in {"merge", "latest"} => LoopsInv
  /\ program = "merge" => MergeInv
  /\ program = "latest" => LatestInv

-----------------------------------------------------------------------------
(***************************************************************************)
(* What the steps of the Repeater are to its executor: how many values it  *)
(* took, whether it is closed, and which items wait.                       *)
(***************************************************************************)
LEMMA Numbers ==
  ASSUME IInv
  PROVE  /\ offers \in Nat /\ asked \in Nat /\ state \in 0..3
         /\ \A i \in WaitingItems : i \in Nat /\ i > 0 /\ i > asked /\ i <= offers
<1>1. offers \in Nat /\ asked \in Nat /\ state \in 0..3
  BY Counters DEF IInv
<1> QED BY <1>1 DEF WaitingItems

\* What was taken waits no more.
LEMMA TakenWaitsNoMore ==
  ASSUME IInv, NEW i \in WaitingItems
  PROVE  ~Taken(i)
<1>1. i \in Nat /\ i > asked /\ i <= offers /\ i > 0 /\ asked \in Nat /\ offers \in Nat /\ offers <= MaxOffers
  BY Numbers, Counters DEF IInv
<1>2. i \in Items
  BY <1>1, ConstantsAssumption DEF Items
<1>3. heard[i].st # "resolved"
  BY <1>1, <1>2 DEF IInv, Correspond
<1> QED BY <1>1, <1>3 DEF Taken

\* No more values wait in the list than the counters say.
LEMMA ItemsWait ==
  ASSUME IInv, NEW j \in 1..Len(pushes), ~pushes[j].stop
  PROVE  asked + j \in WaitingItems
<1>1. offers \in Nat /\ asked \in Nat /\ Len(pushes) \in Nat /\ state \in 0..3 /\ j \in Nat
  BY Counters DEF IInv
<1> DEFINE last == (asked + j = StopItem)
<1>2. pushes[j] = [id |-> asked + j, stop |-> last]
  BY Zenon DEF IInv, Ahead
<1> HIDE DEF last
<1>3. pushes[j].stop = last
  BY <1>2
<1>4. asked + j # offers + 1
  BY <1>3 DEF last, StopItem
<1>5. pushes # <<>> /\ nexts = <<>> /\ Len(nexts) = 0
  BY EmptyList DEF IInv, Ahead, TypeOK
<1>6. state < STOPPED => asked + Len(pushes) = offers + 0
  BY <1>5 DEF IInv, StopsLast
<1>7. state = STOPPED => Len(pushes) = offers + 1 - asked
  BY <1>1 DEF IInv, StopsLast, StopItem
<1>8. state # DONE
  BY <1>5 DEF IInv, StopsLast
<1>9. asked + j <= offers
  BY <1>1, <1>4, <1>6, <1>7, <1>8 DEF STOPPED, DONE
<1> QED BY <1>1, <1>9 DEF WaitingItems

\* What the Repeater does without its executor.
LEMMA RepeaterAlone ==
  ASSUME IInv, IInv', Start \/ Consumer \/ ExecutorCalled \/ ExecutorReturns
  PROVE  /\ offers' = offers /\ (state' < STOPPED <=> state < STOPPED)
         /\ WaitingItems' \subseteq WaitingItems
<1>1. offers \in Nat /\ asked \in Nat /\ state \in 0..3
  BY Numbers
<1>2. offers' = offers /\ ((asked' = asked /\ (state' = state \/ Start)) \/ next_body(asked + 1))
  BY DEF Start, Consumer, ExecutorCalled, ExecutorReturns, CallNext, next_body, Job, Iterate,
         Deferred, Unmoved
<1>3. CASE offers' = offers /\ asked' = asked /\ (state' = state \/ Start)
  BY <1>1, <1>3 DEF WaitingItems, Start, INITIAL, STARTED, STOPPED
<1>4. CASE next_body(asked + 1)
  <2>1. asked' = asked + 1
    BY <1>4 DEF next_body
  <2>2. Next
    BY DEF Next, Consumer
  <2>3. (state' >= STOPPED) = (state >= STOPPED)
    <3>1. asked + 1 # asked /\ offers + 1 # offers
      BY <1>1
    <3> QED BY <2>1, <2>2, <3>1, <1>2, CountersStep DEF R!Ask, R!Offer, R!Close
  <2>4. (state' < STOPPED) = (state < STOPPED)
    <3>1. state' \in 0..3
      BY DEF IInv, TypeOK, INITIAL, STARTED, STOPPED, DONE
    <3> QED BY <2>3, <3>1, <1>1 DEF STOPPED
  <2> QED BY <2>1, <2>4, <1>1, <1>2 DEF WaitingItems
<1> QED BY <1>2, <1>3, <1>4

\* push() of a program, which may come too late.
LEMMA GivesDoes ==
  ASSUME IInv, NEW v, Gives(v)
  PROVE  /\ state' = state
         /\ state < STOPPED =>
              /\ offers' = offers + 1 /\ carried' = Append(carried, v)
              /\ ItemGiven = offers + 1
              /\ WaitingItems' \subseteq WaitingItems \union {offers + 1}
         /\ ~(state < STOPPED) =>
              /\ offers' = offers /\ carried' = carried
              /\ WaitingItems' = WaitingItems
<1>1. offers \in Nat /\ asked \in Nat /\ state \in 0..3
  BY Numbers
<1>2. ~(state < STOPPED) => nexts = <<>>
  BY <1>1 DEF IInv, StopsLast, STOPPED, DONE
<1>3. CASE Push("plain") /\ carried' = Append(carried, v)
  BY <1>1, <1>2, <1>3 DEF Push, WaitingItems, ItemGiven, STOPPED
<1>4. CASE PushDropped /\ UNCHANGED carried
  BY <1>1, <1>4 DEF PushDropped, vars, WaitingItems, STOPPED
<1> QED BY <1>3, <1>4 DEF Gives

\* stop() of a program, which may come too late.
LEMMA StopsDoes ==
  ASSUME IInv, NEW w, Stops(w)
  PROVE  /\ offers' = offers /\ WaitingItems' = WaitingItems /\ ~(state' < STOPPED)
         /\ state < STOPPED => ending' = w
         /\ ~(state < STOPPED) => ending' = ending
<1>1. offers \in Nat /\ asked \in Nat /\ state \in 0..3
  BY Numbers
<1>2. CASE Stop("plain") /\ ending' = w
  <2>1. offers' = offers /\ asked' = asked /\ state < STOPPED /\ state' \in {STOPPED, DONE}
    BY <1>2 DEF Stop, StopWaits, StopMeets
  <2> QED BY <2>1, <1>1, <1>2 DEF WaitingItems, STOPPED, DONE
<1>3. CASE StopIgnored /\ UNCHANGED ending
  BY <1>1, <1>3 DEF StopIgnored, vars, WaitingItems, STOPPED
<1> QED BY <1>2, <1>3 DEF Stops

-----------------------------------------------------------------------------
\* What the types say of one contender, and of the executor's variables.
LEMMA OfOne ==
  ASSUME CombTypes, NEW c \in Iters
  PROVE  /\ c \in Contenders
         /\ calls[c] \in Calls
         /\ calls[c].asked \in Nat /\ calls[c].told \in Seq(Results) /\ Len(calls[c].told) \in Nat
         /\ \A k \in 1..Len(calls[c].told) : calls[c].told[k] \in Results
         /\ main.heeded[c] \in Nat /\ main.values[c] \in Nat
         /\ loops[c] \in Loop
BY DEF CombTypes, Executor, Calls, Answers

\* Every contender is asked.
LEMMA AskAllDoes ==
  ASSUME CombTypes, AskAll
  PROVE  /\ Iters' = Iters
         /\ calls' \in [Iters -> Calls]
         /\ \A c \in Iters : calls'[c].asked = calls[c].asked + 1 /\ calls'[c].told = calls[c].told
<1>1. Iters' = Iters
  BY DEF AskAll, Iters
<1>2. \A c \in Iters : calls'[c] = [calls[c] EXCEPT !.asked = calls[c].asked + 1]
  BY DEF AskAll
<1>3. ASSUME NEW c \in Iters
      PROVE  /\ calls'[c] \in Calls
             /\ calls'[c].asked = calls[c].asked + 1 /\ calls'[c].told = calls[c].told
  <2>1. calls'[c] = [calls[c] EXCEPT !.asked = calls[c].asked + 1]
    BY <1>2
  <2>2. calls[c] \in Calls
    BY OfOne
  <2> QED BY <2>1, <2>2 DEF Calls
<1> DEFINE more(c) == [calls[c] EXCEPT !.asked = calls[c].asked + 1]
<1>4. \A c \in Iters : more(c) \in Calls
  BY OfOne DEF Calls
<1>6. calls' = [c \in Iters |-> more(c)]
  BY DEF AskAll
<1> HIDE DEF more
<1>5. calls' \in [Iters -> Calls]
  BY <1>4, <1>6
<1> QED BY <1>1, <1>3, <1>5 DEF Answers

\* A contender answers.
LEMMA AnswerDoes ==
  ASSUME CombTypes, NEW c \in Iters, NEW a \in Results, ContenderAnswers(c, a)
  PROVE  /\ Iters' = Iters
         /\ calls' \in [Iters -> Calls]
         /\ \A d \in Iters : calls'[d].asked = calls[d].asked
         /\ \A d \in Iters : d # c => calls'[d].told = calls[d].told
         /\ Len(calls[c].told) < calls[c].asked /\ Len(calls'[c].told) = Len(calls[c].told) + 1
         /\ \A d \in Iters, k \in Nat :
              k \in 1..Len(calls[d].told) => k \in 1..Len(calls'[d].told) /\ calls'[d].told[k] = calls[d].told[k]
<1> DEFINE longer == Append(calls[c].told, a)
<1>1. calls' = [calls EXCEPT ![c] = [calls[c] EXCEPT !.told = longer]]
  BY DEF ContenderAnswers
<1>2. longer \in Seq(Results) /\ Len(longer) = Len(calls[c].told) + 1
      /\ \A k \in 1..Len(calls[c].told) : longer[k] = calls[c].told[k]
  BY OfOne, Appended DEF Answers
<1> HIDE DEF longer
<1>3. calls[c] \in Calls
  BY OfOne
<1>4. Iters' = Iters /\ calls \in [Iters -> Calls]
  BY <1>1 DEF Iters, CombTypes, Executor
<1>5. calls'[c].asked = calls[c].asked /\ calls'[c].told = longer
      /\ calls'[c] \in Calls
  BY <1>1, <1>2, <1>3, <1>4 DEF Calls
<1>6. \A d \in Iters : d # c => calls'[d] = calls[d]
  BY <1>1, <1>4
<1>7. calls' \in [Iters -> Calls]
  BY <1>1, <1>2, <1>3, <1>4 DEF Calls
<1>8. ASSUME NEW d \in Iters, NEW k \in 1..Len(calls[d].told)
      PROVE  k \in 1..Len(calls'[d].told) /\ calls'[d].told[k] = calls[d].told[k]
  <2>1. Len(calls[d].told) \in Nat
    BY OfOne
  <2>2. CASE d = c
    BY <1>2, <1>5, <2>1, <2>2 DEF Answers
  <2>3. CASE d # c
    BY <1>6, <2>3 DEF Answers
  <2> QED BY <2>2, <2>3
<1> QED BY <1>2, <1>4, <1>5, <1>6, <1>7, <1>8 DEF Answers, ContenderAnswers

\* The common part, when the Repeater moves alone and when a contender answers.
LEMMA CommonAlone ==
  ASSUME IInv, IInv', CombTypes, Common, Start \/ Consumer \/ ExecutorCalled \/ ExecutorReturns,
         UNCHANGED <<program, combVars>>
  PROVE  /\ CombTypes' /\ Common'
         /\ UNCHANGED <<program, calls, main, loops, carried, ending>> /\ Iters' = Iters
         /\ offers' = offers /\ WaitingItems' \subseteq WaitingItems
<1>1. offers' = offers /\ (state' < STOPPED <=> state < STOPPED) /\ WaitingItems' \subseteq WaitingItems
  BY RepeaterAlone
<1>2. UNCHANGED <<program, calls, main, loops, carried, ending>> /\ Iters' = Iters
  BY DEF combVars, Iters
<1>3. CombTypes'
  BY <1>2 DEF CombTypes, Executor, Payloads
<1>4. Common'
  BY <1>1, <1>2 DEF Common, Answers, NobodyYet
<1> QED BY <1>1, <1>2, <1>3, <1>4

LEMMA CommonAnswers ==
  ASSUME IInv, CombTypes, Common, NEW c \in Iters, NEW a \in Results, ContenderAnswers(c, a),
         program' = program
  PROVE  /\ CombTypes' /\ Common'
         /\ UNCHANGED <<program, main, loops, carried, ending, state, offers>>
         /\ WaitingItems' = WaitingItems
         /\ \A d \in Iters : /\ Len(calls'[d].told) <= calls'[d].asked
                             /\ Len(calls[d].told) <= Len(calls'[d].told)
                             /\ Len(calls'[d].told) \in Nat
<1>1. UNCHANGED <<main, loops, carried, ending, state, offers, asked>>
  BY DEF ContenderAnswers, vars
<1>2. /\ Iters' = Iters /\ calls' \in [Iters -> Calls]
      /\ \A d \in Iters : calls'[d].asked = calls[d].asked
      /\ \A d \in Iters : d # c => calls'[d].told = calls[d].told
      /\ Len(calls[c].told) < calls[c].asked /\ Len(calls'[c].told) = Len(calls[c].told) + 1
  BY AnswerDoes
<1>3. CombTypes'
  BY <1>1, <1>2 DEF CombTypes, Executor, Payloads
<1>4. ASSUME NEW d \in Iters
      PROVE  Len(calls'[d].told) <= calls'[d].asked /\ Len(calls[d].told) <= Len(calls'[d].told)
             /\ Len(calls'[d].told) \in Nat
  <2>1. Len(calls[d].told) \in Nat /\ calls[d].asked \in Nat /\ Len(calls[d].told) <= calls[d].asked
    BY OfOne DEF Common, Answers
  <2>2. CASE d = c
    BY <1>2, <2>1, <2>2
  <2>3. CASE d # c
    BY <1>2, <2>1, <2>3
  <2> QED BY <2>2, <2>3
<1>5. Common'
  <2>1. \A d \in Iters' : Len(Answers(d)') <= calls'[d].asked
    BY <1>2, <1>4 DEF Answers
  <2>2. main'.at = "idle" => \A d \in Iters' :
          calls'[d].asked = 0 /\ main'.values[d] = 0 /\ main'.heeded[d] = 0 /\ loops'[d].at = "none"
    BY <1>1, <1>2 DEF Common
  <2> QED BY <1>1, <1>2, <2>1, <2>2 DEF Common, NobodyYet
<1> QED BY <1>1, <1>3, <1>4, <1>5 DEF WaitingItems

\* The executor returns and stops the Repeater, if nothing did before.
LEMMA EndsDoes ==
  ASSUME IInv, CombTypes, Common, NEW w \in {"end", "error"}, Stops(w),
         main' = [main EXCEPT !.at = "returned"], UNCHANGED <<program, calls, loops, carried>>
  PROVE  /\ CombTypes' /\ Common' /\ Iters' = Iters /\ offers' = offers
         /\ WaitingItems' = WaitingItems
         /\ ending' = IF ending = "none" THEN w ELSE ending
         /\ ending' # "none"
         /\ main'.at = "returned" /\ main'.item = main.item /\ main'.winner = main.winner
         /\ main'.stopped = main.stopped /\ main'.heeded = main.heeded /\ main'.values = main.values
<1>1. /\ offers' = offers /\ WaitingItems' = WaitingItems /\ ~(state' < STOPPED)
      /\ state < STOPPED => ending' = w
      /\ ~(state < STOPPED) => ending' = ending
  BY StopsDoes
<1>2. /\ ending' = IF ending = "none" THEN w ELSE ending
      /\ ending' # "none" /\ ending' \in {"end", "error"}
  BY <1>1 DEF Common, CombTypes, Executor
<1>3. /\ main'.at = "returned" /\ main'.item = main.item /\ main'.winner = main.winner
      /\ main'.stopped = main.stopped /\ main'.heeded = main.heeded /\ main'.values = main.values
  BY DEF CombTypes, Executor
<1>4. Iters' = Iters
  BY DEF Iters
<1>5. CombTypes'
  BY <1>2, <1>4 DEF CombTypes, Executor, Payloads
<1>6. Common'
  BY <1>1, <1>2, <1>3, <1>4 DEF Common, Answers
<1> QED BY <1>1, <1>2, <1>3, <1>4, <1>5, <1>6

\* zip and latest push the values of a round.
RoundValues == [c \in Iters |-> IF RoundOf(c) = "value" THEN calls[c].asked ELSE 0]

LEMMA RoundGiven ==
  ASSUME IInv, CombTypes, Common, program \in {"zip", "latest"}, ending = "none", main.at = "gather",
         Gives(RoundValues),
         main' = [main EXCEPT !.at = "pushing", !.item = ItemGiven, !.values = RoundValues],
         UNCHANGED <<program, calls, loops, ending>>
  PROVE  /\ CombTypes' /\ Common' /\ Iters' = Iters /\ offers' = offers + 1
         /\ WaitingItems' \subseteq WaitingItems \union {offers + 1}
         /\ main'.at = "pushing" /\ main'.item = offers + 1 /\ main'.values = RoundValues
         /\ \A j \in 1..offers : carried'[j] = carried[j]
         /\ carried'[offers + 1] = RoundValues
<1>1. state < STOPPED
  BY DEF Common
<1>2. /\ state' = state /\ offers' = offers + 1 /\ carried' = Append(carried, RoundValues)
      /\ ItemGiven = offers + 1 /\ WaitingItems' \subseteq WaitingItems \union {offers + 1}
  BY <1>1, GivesDoes
<1>3. RoundValues \in [Iters -> Nat] /\ RoundValues \in Payloads
  BY OfOne DEF RoundValues, Payloads
<1>4. /\ carried' \in Seq(Payloads) /\ Len(carried') = offers + 1
      /\ \A j \in 1..offers : carried'[j] = carried[j]
      /\ carried'[offers + 1] = RoundValues
  BY <1>2, <1>3, Appended DEF CombTypes, Common
<1>5. offers \in Nat /\ Iters' = Iters
  BY Numbers DEF Iters
<1>6. /\ main'.at = "pushing" /\ main'.item = offers + 1 /\ main'.values = RoundValues
      /\ main' \in Executor
  <2>1. main' = [main EXCEPT !.at = "pushing", !.item = offers + 1, !.values = RoundValues]
        /\ offers + 1 \in Nat
    BY <1>2, <1>5
  <2> QED BY <2>1, <1>3 DEF CombTypes, Executor
<1>7. Executor' = Executor /\ Payloads' = Payloads
  BY <1>5 DEF Executor, Payloads
<1>8. CombTypes'
  BY <1>4, <1>5, <1>6, <1>7 DEF CombTypes
<1>9. Common'
  BY <1>1, <1>2, <1>4, <1>5, <1>6 DEF Common, Answers
<1> QED BY <1>2, <1>4, <1>5, <1>6, <1>8, <1>9

-----------------------------------------------------------------------------
(***************************************************************************)
(* race.                                                                   *)
(***************************************************************************)
Races == program = "race" /\ CombTypes /\ Common /\ RaceInv

LEMMA RaceAlone ==
  ASSUME IInv, IInv', Races, Start \/ Consumer \/ ExecutorCalled \/ ExecutorReturns,
         UNCHANGED <<program, combVars>>
  PROVE  Races'
<1>1. /\ CombTypes' /\ Common'
      /\ UNCHANGED <<program, calls, main, loops, carried, ending>> /\ Iters' = Iters
      /\ offers' = offers /\ WaitingItems' \subseteq WaitingItems
  BY CommonAlone DEF Races
<1>2. RaceInv'
  BY <1>1 DEF Races, RaceInv, RaceRounds, RaceStops, RaceEnds, Heeded, OneItem, Answers, NobodyYet
<1> QED BY <1>1, <1>2 DEF Races

LEMMA RaceAnswers ==
  ASSUME IInv, Races, NEW c \in Iters, NEW a \in Results, ContenderAnswers(c, a), program' = program
  PROVE  Races'
<1>1. /\ CombTypes' /\ Common'
      /\ UNCHANGED <<program, main, loops, carried, ending, state, offers>>
      /\ WaitingItems' = WaitingItems
      /\ \A d \in Iters : Len(calls[d].told) <= Len(calls'[d].told) /\ Len(calls'[d].told) \in Nat
  BY CommonAnswers DEF Races
<1>2. /\ Iters' = Iters
      /\ \A d \in Iters : calls'[d].asked = calls[d].asked
      /\ \A d \in Iters, k \in Nat :
           k \in 1..Len(calls[d].told) => k \in 1..Len(calls'[d].told) /\ calls'[d].told[k] = calls[d].told[k]
  BY AnswerDoes DEF Races
<1>3. \A d \in Iters : main.heeded[d] <= Len(calls'[d].told)
  <2>1. \A d \in Iters : main.heeded[d] <= Len(calls[d].told) /\ main.heeded[d] \in Nat
                         /\ Len(calls[d].told) \in Nat
    BY OfOne DEF Races, RaceInv, RaceRounds, Answers
  <2> QED BY <1>1, <2>1
<1>4. RaceRounds' /\ RaceStops'
  BY <1>1, <1>2, <1>3 DEF Races, RaceInv, RaceRounds, RaceStops, Answers, NobodyYet
<1>5. ASSUME NEW b, Heeded(b) PROVE Heeded(b)'
  <2>1. PICK d \in Iters : \E k \in 1..main.heeded[d] : calls[d].told[k] = b
    BY <1>5 DEF Heeded, Answers
  <2>2. PICK k \in 1..main.heeded[d] : calls[d].told[k] = b
    BY <2>1
  <2>3. k \in 1..Len(calls[d].told) /\ k \in Nat
    BY OfOne DEF Races, RaceInv, RaceRounds, Answers
  <2> QED BY <2>2, <2>3, <1>1, <1>2 DEF Heeded, Answers
<1>6. RaceEnds'
  BY <1>1, <1>2, <1>5 DEF Races, RaceInv, RaceEnds
<1>7. RaceInv'
  BY <1>1, <1>4, <1>6 DEF Races, RaceInv, OneItem
<1> QED BY <1>1, <1>7 DEF Races

LEMMA RaceReturns ==
  ASSUME IInv, Races, Return, UNCHANGED <<program, calls, loops, carried>>,
         main.stopped \/ Iters = {}, WaitingItems = {}
  PROVE  Races'
<1>1. /\ CombTypes' /\ Common' /\ Iters' = Iters /\ offers' = offers
      /\ WaitingItems' = WaitingItems
      /\ ending' = IF ending = "none" THEN "end" ELSE ending
      /\ ending' # "none"
      /\ main'.at = "returned" /\ main'.item = main.item /\ main'.winner = main.winner
      /\ main'.stopped = main.stopped /\ main'.heeded = main.heeded
  BY EndsDoes DEF Return, Races
<1>2. RaceRounds' /\ RaceStops'
  BY <1>1 DEF Races, RaceInv, RaceRounds, RaceStops, Answers, NobodyYet
<1>3. RaceEnds'
  BY <1>1 DEF Races, RaceInv, RaceStops, RaceEnds, Heeded, Answers
<1> QED BY <1>1, <1>2, <1>3 DEF Races, RaceInv, OneItem

LEMMA RaceBegins ==
  ASSUME IInv, Races, Begin, program' = program
  PROVE  Races'
<1>1. CASE Iters = {}
  <2>1. WaitingItems = {}
    BY DEF Begin, Races, RaceInv, OneItem
  <2> QED BY <1>1, <2>1, RaceReturns DEF Begin
<1>2. CASE Iters # {}
  <2>1. /\ Iters' = Iters /\ calls' \in [Iters -> Calls]
        /\ \A c \in Iters : calls'[c].asked = calls[c].asked + 1 /\ calls'[c].told = calls[c].told
    BY <1>2, AskAllDoes DEF Begin, Races
  <2>2. /\ main.at = "idle" /\ main' = [main EXCEPT !.at = "race"]
        /\ loops' = [c \in Iters |-> [loops[c] EXCEPT !.at = loops[c].at]]
        /\ UNCHANGED <<vars, carried, ending>>
    BY <1>2 DEF Begin, Races
  <2>3. loops' = loops
    <3>1. \A c \in Iters : [loops[c] EXCEPT !.at = loops[c].at] = loops[c]
      BY OfOne DEF Races, Loop
    <3> QED BY <2>2, <3>1 DEF Races, CombTypes
  <2>4. /\ UNCHANGED <<state, offers, asked>> /\ WaitingItems' = WaitingItems
    BY <2>2 DEF vars, WaitingItems
  <2>5. /\ main'.at = "race" /\ main'.item = main.item /\ main'.winner = main.winner
        /\ main'.stopped = main.stopped /\ main'.heeded = main.heeded /\ main'.values = main.values
    BY <2>2 DEF Races, CombTypes, Executor
  <2>6. CombTypes'
    BY <2>1, <2>2, <2>3 DEF Races, CombTypes, Executor, Payloads
  <2>7. ASSUME NEW c \in Iters
        PROVE  calls'[c].asked = 1 /\ offers = 0 /\ Len(calls[c].told) = 0 /\ main.heeded[c] = 0
    BY <2>1, <2>2, OfOne DEF Races, Common, Answers
  <2>8. Common'
    BY <1>2, <2>1, <2>2, <2>3, <2>4, <2>5, <2>7 DEF Races, Common, Answers
  <2>9. RaceRounds' /\ RaceStops' /\ RaceEnds'
    <3>1. NobodyYet.answer = "none"
      BY DEF NobodyYet
    <3>2. ending' = "none" /\ ~main'.stopped /\ main'.winner = NobodyYet
      BY <2>2, <2>5 DEF Races, Common
    <3>3. RaceStops' /\ RaceEnds'
      BY <3>1, <3>2 DEF RaceStops, RaceEnds, NobodyYet
    <3>4. ASSUME NEW c \in Iters
          PROVE  /\ calls'[c].asked = offers' + 1 /\ main'.heeded[c] <= Len(calls'[c].told)
                 /\ loops'[c].at = "none"
      BY <2>1, <2>2, <2>3, <2>4, <2>5, <2>7 DEF Races, Common
    <3>5. RaceRounds'
      BY <2>1, <2>5, <3>4 DEF RaceRounds, Answers
    <3> QED BY <3>3, <3>5
  <2> QED BY <2>1, <2>2, <2>4, <2>5, <2>6, <2>8, <2>9 DEF Races, RaceInv, OneItem
<1> QED BY <1>1, <1>2

LEMMA RaceAgainKeeps ==
  ASSUME IInv, Races, RaceAgain, program' = program
  PROVE  Races'
<1>0. WaitingItems = {}
  BY TakenWaitsNoMore DEF RaceAgain, Races, RaceInv, OneItem
<1>1. CASE main.stopped
  BY <1>0, <1>1, RaceReturns DEF RaceAgain
<1>2. CASE ~main.stopped
  <2>1. /\ Iters' = Iters /\ calls' \in [Iters -> Calls]
        /\ \A c \in Iters : calls'[c].asked = calls[c].asked + 1 /\ calls'[c].told = calls[c].told
    BY <1>2, AskAllDoes DEF RaceAgain, Races
  <2>2. /\ main.at = "pushing" /\ main' = [main EXCEPT !.at = "race", !.winner = NobodyYet]
        /\ UNCHANGED <<vars, loops, carried, ending>> /\ Taken(main.item)
    BY <1>2 DEF RaceAgain
  <2>3. /\ UNCHANGED <<state, offers, asked>> /\ WaitingItems' = WaitingItems
    BY <2>2 DEF vars, WaitingItems
  <2>4. /\ main'.at = "race" /\ main'.item = main.item /\ main'.winner = NobodyYet
        /\ main'.stopped = main.stopped /\ main'.heeded = main.heeded /\ main'.values = main.values
    BY <2>2 DEF Races, CombTypes, Executor
  <2>5. NobodyYet \in [c : Iters \union {"nobody"}, answer : Results \union {"none"}]
    BY DEF NobodyYet
  <2>6. CombTypes'
    BY <2>1, <2>2, <2>5 DEF Races, CombTypes, Executor, Payloads
  <2>7. Iters # {}
    BY <2>2 DEF Races, Common
  <2>8. ASSUME NEW c \in Iters
        PROVE  /\ calls'[c].asked = offers + 1 /\ Len(calls'[c].told) <= calls'[c].asked
               /\ main.heeded[c] <= Len(calls'[c].told)
    BY <2>1, <2>2, OfOne DEF Races, Common, RaceInv, RaceRounds, Answers
  <2>9. Common'
    BY <2>1, <2>2, <2>3, <2>4, <2>7, <2>8 DEF Races, Common, Answers
  <2>10. RaceRounds' /\ RaceStops'
    <3>1. NobodyYet.answer = "none"
      BY DEF NobodyYet
    <3> QED BY <2>1, <2>2, <2>3, <2>4, <2>8, <3>1
         DEF Races, RaceInv, RaceRounds, RaceStops, Answers
  <2>11. RaceEnds'
    BY <2>1, <2>2, <2>4 DEF Races, RaceInv, RaceEnds, Heeded, Answers
  <2> QED BY <1>0, <2>2, <2>3, <2>4, <2>6, <2>9, <2>10, <2>11 DEF Races, RaceInv, OneItem
<1> QED BY <1>1, <1>2

LEMMA RaceDecidedKeeps ==
  ASSUME IInv, Races, RaceDecided, program' = program
  PROVE  Races'
<1>0. main.at = "race" /\ main.winner.c \in Iters /\ main.winner.answer # "none"
  BY DEF RaceDecided, Races, RaceInv, RaceStops
<1>1. CASE main.stopped \/ main.winner.answer # "value"
  <2>1. main.winner.answer \in Results \union {"none"}
    BY DEF Races, CombTypes, Executor
  <2>2. main.stopped
    BY <1>0, <1>1, <2>1 DEF Races, RaceInv, RaceStops, Results
  <2>3. WaitingItems = {}
    BY <1>0 DEF Races, RaceInv, OneItem
  <2> QED BY <1>1, <2>2, <2>3, RaceReturns DEF RaceDecided
<1>2. CASE ~(main.stopped \/ main.winner.answer # "value")
  <2> DEFINE payload == [c |-> main.winner.c, n |-> calls[main.winner.c].asked]
  <2>1. /\ Gives(payload) /\ main' = [main EXCEPT !.at = "pushing", !.item = ItemGiven]
        /\ UNCHANGED <<calls, loops, ending>>
    BY <1>2 DEF RaceDecided
  <2>2. state < STOPPED /\ ending = "none"
    BY <1>0, <1>2 DEF Races, Common, RaceInv, RaceStops
  <2>3. /\ state' = state /\ offers' = offers + 1 /\ carried' = Append(carried, payload)
        /\ ItemGiven = offers + 1 /\ WaitingItems' \subseteq WaitingItems \union {offers + 1}
    BY <2>1, <2>2, GivesDoes
  <2>4. payload \in Payloads /\ payload.n = offers + 1
    BY <1>0, OfOne DEF Payloads, Races, RaceInv, RaceRounds
  <2> HIDE DEF payload
  <2>5. /\ carried' \in Seq(Payloads) /\ Len(carried') = offers + 1
        /\ \A j \in 1..offers : carried'[j] = carried[j]
        /\ carried'[offers + 1] = payload
    BY <2>3, <2>4, Appended DEF Races, CombTypes, Executor, Common
  <2>6. offers \in Nat /\ Iters' = Iters
    BY <2>1, Numbers DEF Iters
  <2>7. /\ main'.at = "pushing" /\ main'.item = offers + 1 /\ main'.winner = main.winner
        /\ main'.stopped = main.stopped /\ main'.heeded = main.heeded /\ main'.values = main.values
    BY <2>1, <2>3 DEF Races, CombTypes, Executor
  <2>8. CombTypes'
    <3>1. Payloads' = Payloads
      BY <2>6 DEF Payloads
    <3>2. main' \in Executor /\ Executor' = Executor
      <4>1. main' = [main EXCEPT !.at = "pushing", !.item = offers + 1] /\ offers + 1 \in Nat
        BY <2>1, <2>3, <2>6
      <4>2. main' \in Executor
        BY <4>1 DEF Races, CombTypes, Executor
      <4>3. Executor' = Executor
        BY <2>6 DEF Executor
      <4> QED BY <4>2, <4>3
    <3> QED BY <2>1, <2>5, <2>6, <3>1, <3>2 DEF Races, CombTypes
  <2>9. Common'
    BY <1>0, <2>1, <2>2, <2>3, <2>5, <2>6, <2>7 DEF Races, Common, Answers
  <2>10. RaceRounds' /\ RaceStops' /\ RaceEnds'
    BY <1>0, <2>1, <2>2, <2>3, <2>6, <2>7
       DEF Races, RaceInv, RaceRounds, RaceStops, RaceEnds, Heeded, Answers, NobodyYet
  <2>11. \A j \in 1..offers' : carried'[j].n = j
    BY <2>3, <2>4, <2>5, <2>6 DEF Races, RaceInv
  <2>12. OneItem'
    BY <1>0, <2>3, <2>7 DEF Races, RaceInv, OneItem
  <2> QED BY <2>7, <2>8, <2>9, <2>10, <2>11, <2>12 DEF Races, RaceInv
<1> QED BY <1>1, <1>2

LEMMA RaceHearsKeeps ==
  ASSUME IInv, Races, NEW c \in Iters, RaceHears(c), program' = program
  PROVE  Races'
<1> DEFINE k == main.heeded[c] + 1
<1> DEFINE result == calls[c].told[k]
<1> DEFINE stops == main.stopped \/ result # "value"
<1> DEFINE winner == main'.winner
<1>1. k \in Nat /\ k > 0 /\ k \in 1..Len(calls[c].told) /\ result \in Results
  BY OfOne DEF RaceHears, Races, Answers
<1>2. /\ UNCHANGED <<calls, loops, carried>>
      /\ IF result = "value" THEN UNCHANGED <<vars, ending>>
         ELSE Stops(IF result = "error" THEN "error" ELSE "end")
  BY DEF RaceHears, Answers
<1>3. /\ main'.at = main.at /\ main'.item = main.item /\ main'.stopped = stops
      /\ main'.heeded = [main.heeded EXCEPT ![c] = k] /\ main'.values = main.values
      /\ main'.winner = main.winner \/ main'.winner = [c |-> c, answer |-> result]
      /\ main' \in Executor
  BY <1>1 DEF RaceHears, Races, CombTypes, Executor, Answers
<1>4. /\ offers' = offers /\ WaitingItems' = WaitingItems
      /\ result = "value" => ending' = ending /\ state' = state
      /\ result # "value" =>
           /\ ~(state' < STOPPED)
           /\ ending' = IF ending # "none" THEN ending
                        ELSE IF result = "error" THEN "error" ELSE "end"
  <2>1. CASE result = "value"
    BY <1>2, <2>1 DEF vars, WaitingItems
  <2>2. CASE result # "value"
    BY <1>2, <2>2, StopsDoes DEF Races, Common
  <2> QED BY <2>1, <2>2
<1> HIDE DEF k, result, stops
<1>5. Iters' = Iters /\ main.at # "idle"
  <2>1. Len(calls[c].told) > 0 /\ Len(calls[c].told) \in Nat
    BY <1>1, OfOne DEF Races
  <2> QED BY <1>2, <2>1, OfOne DEF Iters, Races, Common, Answers
<1>6. ending' \in {"none", "end", "error"} /\ (ending' = "none" <=> state' < STOPPED)
      /\ (ending # "none" => ending' = ending)
  BY <1>4 DEF Races, Common, CombTypes, Executor
<1>7. CombTypes'
  BY <1>2, <1>3, <1>5, <1>6 DEF Races, CombTypes, Executor, Payloads
<1>8. Common'
  BY <1>2, <1>3, <1>4, <1>5, <1>6 DEF Races, Common, Answers
<1>9. \A d \in Iters : main'.heeded[d] <= Len(calls[d].told) /\ main.heeded[d] <= main'.heeded[d]
                       /\ main.heeded[d] \in Nat
  BY <1>1, <1>3, OfOne DEF Races, RaceInv, RaceRounds, Answers, k, CombTypes, Executor
<1>10. RaceRounds'
  BY <1>2, <1>3, <1>4, <1>5, <1>9 DEF Races, RaceInv, RaceRounds, Answers
<1>11. RaceStops'
  <2>1. /\ ending # "none" => main.stopped \/ main.at = "returned"
        /\ main.stopped => ending # "none"
        /\ main.winner # NobodyYet => main.winner.c \in Iters /\ main.winner.answer # "none"
        /\ main.winner.answer \in {"done", "error"} => main.stopped
    BY DEF Races, RaceInv, RaceStops
  <2>2. /\ ending' # "none" => stops \/ main'.at = "returned"
        /\ stops => ending' # "none"
    BY <2>1, <1>3, <1>4, <1>6 DEF stops
  <2>3. main'.winner # NobodyYet =>
          /\ main'.winner.c \in Iters /\ main'.winner.answer # "none"
          /\ main'.winner.answer \in {"done", "error"} => stops
    <3>1. CASE main'.winner = main.winner
      BY <2>1, <3>1 DEF stops
    <3>2. CASE main'.winner = [c |-> c, answer |-> result]
      BY <1>1, <3>2 DEF stops, Results
    <3> QED BY <3>1, <3>2, <1>3
  <2>4. NobodyYet.answer = "none"
    BY DEF NobodyYet
  <2> QED BY <2>2, <2>3, <2>4, <1>3, <1>5 DEF RaceStops, NobodyYet
<1>12. ASSUME NEW b, Heeded(b) PROVE Heeded(b)'
  <2>1. PICK d \in Iters : \E i \in 1..main.heeded[d] : calls[d].told[i] = b
    BY <1>12 DEF Heeded, Answers
  <2>2. PICK i \in 1..main.heeded[d] : calls[d].told[i] = b
    BY <2>1
  <2>3. main'.heeded[d] \in Nat
    BY <1>1, <1>3 DEF Races, CombTypes, Executor
  <2>4. i \in 1..main'.heeded[d]
    BY <2>2, <2>3, <1>9
  <2> QED BY <2>2, <2>4, <1>2, <1>5 DEF Heeded, Answers
<1>13. k \in 1..main'.heeded[c] /\ calls'[c].told[k] = result
  BY <1>1, <1>2, <1>3 DEF Races, CombTypes, Executor, result
<1>14. ASSUME NEW b, b = result PROVE Heeded(b)'
  <2>1. \E i \in 1..main'.heeded[c] : calls'[c].told[i] = b
    BY <1>13, <1>14
  <2> QED BY <2>1, <1>5 DEF Heeded, Answers
<1>15. RaceEnds'
  BY <1>1, <1>4, <1>5, <1>12, <1>14 DEF Races, RaceInv, RaceEnds, Results
<1> QED BY <1>2, <1>3, <1>4, <1>7, <1>8, <1>10, <1>11, <1>15 DEF Races, RaceInv, OneItem

\* The executor of race keeps its part of the invariant.
LEMMA RaceKeeps ==
  ASSUME IInv, IInv', Races, CombNext
  PROVE  Races'
<1>1. CASE (Start \/ Consumer \/ ExecutorCalled \/ ExecutorReturns) /\ UNCHANGED <<program, combVars>>
  BY <1>1, RaceAlone
<1>2. CASE Begin
  BY <1>2, RaceBegins DEF CombNext
<1>3. ASSUME NEW c \in Iters, NEW a \in {"value", "done", "error"}, ContenderAnswers(c, a)
      PROVE  Races'
  BY <1>3, RaceAnswers DEF CombNext, Results
<1>4. CASE CombJob
  <2>1. RaceDecided \/ RaceAgain \/ \E c \in Iters : RaceHears(c)
    BY <1>4 DEF CombJob, GatherFails, Gathered, ZipAgain, LatestBegins, LoopsEnded, LoopHears,
                LoopAgain, Races, RaceInv, RaceRounds
  <2> QED BY <2>1, RaceDecidedKeeps, RaceAgainKeeps, RaceHearsKeeps DEF CombNext
<1> QED BY <1>1, <1>2, <1>3, <1>4 DEF CombNext, Races

-----------------------------------------------------------------------------
(***************************************************************************)
(* zip.                                                                    *)
(***************************************************************************)
Zips == program = "zip" /\ CombTypes /\ Common /\ ZipInv

LEMMA ZipAlone ==
  ASSUME IInv, IInv', Zips, Start \/ Consumer \/ ExecutorCalled \/ ExecutorReturns,
         UNCHANGED <<program, combVars>>
  PROVE  Zips'
<1>1. /\ CombTypes' /\ Common'
      /\ UNCHANGED <<program, calls, main, loops, carried, ending>> /\ Iters' = Iters
      /\ offers' = offers /\ WaitingItems' \subseteq WaitingItems
  BY CommonAlone DEF Zips
<1>2. ZipInv'
  BY <1>1 DEF Zips, ZipInv, ZipRounds, ZipEnds, WasTold, OneItem, Answers
<1> QED BY <1>1, <1>2 DEF Zips

LEMMA ZipAnswers ==
  ASSUME IInv, Zips, NEW c \in Iters, NEW a \in Results, ContenderAnswers(c, a), program' = program
  PROVE  Zips'
<1>1. /\ CombTypes' /\ Common'
      /\ UNCHANGED <<program, main, loops, carried, ending, state, offers>>
      /\ WaitingItems' = WaitingItems
  BY CommonAnswers DEF Zips
<1>2. /\ Iters' = Iters
      /\ \A d \in Iters : calls'[d].asked = calls[d].asked
      /\ \A d \in Iters, k \in Nat :
           k \in 1..Len(calls[d].told) => k \in 1..Len(calls'[d].told) /\ calls'[d].told[k] = calls[d].told[k]
  BY AnswerDoes DEF Zips
<1>3. ZipRounds'
  BY <1>1, <1>2 DEF Zips, ZipInv, ZipRounds
<1>4. ASSUME NEW b, \E d \in Iters : WasTold(d, b) PROVE \E d \in Iters' : WasTold(d, b)'
  <2>1. PICK d \in Iters : \E k \in 1..Len(calls[d].told) : calls[d].told[k] = b
    BY <1>4 DEF WasTold, Answers
  <2>2. PICK k \in 1..Len(calls[d].told) : calls[d].told[k] = b
    BY <2>1
  <2>3. \E i \in 1..Len(calls'[d].told) : calls'[d].told[i] = b
    BY <1>2, <2>2
  <2> QED BY <1>2, <2>3 DEF WasTold, Answers
<1>5. ZipEnds'
  BY <1>1, <1>2, <1>4 DEF Zips, ZipInv, ZipEnds
<1>6. \A j \in 1..offers' : carried'[j] = [d \in Iters' |-> j]
  BY <1>1, <1>2 DEF Zips, ZipInv
<1> QED BY <1>1, <1>3, <1>5, <1>6 DEF Zips, ZipInv, OneItem

\* The executor of zip returns, after a round in which a contender failed or ended.
LEMMA ZipReturns ==
  ASSUME IInv, Zips, WaitingItems = {}, NEW w \in {"end", "error"}, Stops(w),
         main' = [main EXCEPT !.at = "returned"], UNCHANGED <<program, calls, loops, carried>>,
         main.at # "returned",
         Iters # {} => \E c \in Iters : WasTold(c, IF w = "end" THEN "done" ELSE "error"),
         w = "error" => Iters # {}
  PROVE  Zips'
<1>1. /\ CombTypes' /\ Common' /\ Iters' = Iters /\ offers' = offers
      /\ WaitingItems' = WaitingItems
      /\ ending' = IF ending = "none" THEN w ELSE ending
      /\ main'.at = "returned"
  BY EndsDoes DEF Zips
<1>2. ending' = w
  BY <1>1 DEF Zips, ZipInv, ZipEnds
<1>3. ZipRounds' /\ ZipEnds'
  BY <1>1, <1>2 DEF Zips, ZipInv, ZipRounds, ZipEnds, WasTold, Answers
<1> QED BY <1>1, <1>3 DEF Zips, ZipInv, OneItem

LEMMA ZipBegins ==
  ASSUME IInv, Zips, Begin, program' = program
  PROVE  Zips'
<1>0. WaitingItems = {} /\ main.at = "idle"
  BY DEF Begin, Zips, ZipInv, OneItem
<1>1. CASE Iters = {}
  BY <1>0, <1>1, ZipReturns DEF Begin, Return
<1>2. CASE Iters # {}
  <2>1. /\ Iters' = Iters /\ calls' \in [Iters -> Calls]
        /\ \A c \in Iters : calls'[c].asked = calls[c].asked + 1 /\ calls'[c].told = calls[c].told
    BY <1>2, AskAllDoes DEF Begin, Zips
  <2>2. /\ main' = [main EXCEPT !.at = "gather"]
        /\ loops' = [c \in Iters |-> [loops[c] EXCEPT !.at = loops[c].at]]
        /\ UNCHANGED <<vars, carried, ending>>
    BY <1>2 DEF Begin, Zips
  <2>3. loops' = loops
    <3>1. \A c \in Iters : [loops[c] EXCEPT !.at = loops[c].at] = loops[c]
      BY OfOne DEF Zips, Loop
    <3> QED BY <2>2, <3>1 DEF Zips, CombTypes
  <2>4. /\ UNCHANGED <<state, offers, asked>> /\ WaitingItems' = WaitingItems
    BY <2>2 DEF vars, WaitingItems
  <2>5. main'.at = "gather"
    BY <2>2 DEF Zips, CombTypes, Executor
  <2>6. CombTypes'
    BY <2>1, <2>2, <2>3 DEF Zips, CombTypes, Executor, Payloads
  <2>7. ASSUME NEW c \in Iters
        PROVE  calls'[c].asked = 1 /\ offers = 0 /\ Len(calls[c].told) = 0 /\ loops[c].at = "none"
    BY <1>0, <2>1, OfOne DEF Zips, Common, Answers
  <2>8. Common'
    BY <1>2, <2>1, <2>2, <2>3, <2>4, <2>5, <2>7 DEF Zips, Common, Answers
  <2>9. ending' = "none"
    BY <1>0, <2>2 DEF Zips, Common
  <2>10. ZipRounds' /\ ZipEnds'
    BY <2>1, <2>3, <2>4, <2>5, <2>7, <2>9 DEF ZipRounds, ZipEnds
  <2>11. \A j \in 1..offers' : carried'[j] = [d \in Iters' |-> j]
    BY <2>1, <2>2, <2>4 DEF Zips, ZipInv
  <2> QED BY <1>0, <2>4, <2>5, <2>6, <2>8, <2>10, <2>11 DEF Zips, ZipInv, OneItem
<1> QED BY <1>1, <1>2

\* An item is taken, so the next round is asked for.
LEMMA ZipAgainKeeps ==
  ASSUME IInv, Zips, ZipAgain, program' = program
  PROVE  Zips'
<1>1. /\ Iters' = Iters /\ calls' \in [Iters -> Calls]
      /\ \A c \in Iters : calls'[c].asked = calls[c].asked + 1 /\ calls'[c].told = calls[c].told
  BY AskAllDoes DEF ZipAgain, Zips
<1>2. /\ main.at = "pushing" /\ main' = [main EXCEPT !.at = "gather"] /\ Taken(main.item)
      /\ UNCHANGED <<state, offers, asked, loops, carried, ending>>
  BY DEF ZipAgain, vars
<1>3. WaitingItems = {} /\ WaitingItems' = {}
  BY <1>2, TakenWaitsNoMore DEF Zips, ZipInv, OneItem, WaitingItems
<1>4. main'.at = "gather"
  BY <1>2 DEF Zips, CombTypes, Executor
<1>5. CombTypes'
  BY <1>1, <1>2 DEF Zips, CombTypes, Executor, Payloads
<1>6. Iters # {}
  BY <1>2 DEF Zips, Common
<1>7. ASSUME NEW c \in Iters
      PROVE  calls'[c].asked = offers + 1 /\ Len(calls'[c].told) <= calls'[c].asked
  BY <1>1, <1>2, OfOne DEF Zips, Common, ZipInv, ZipRounds, Answers
<1>8. Common'
  BY <1>1, <1>2, <1>4, <1>6, <1>7 DEF Zips, Common, Answers
<1>9. ending' = "none"
  BY <1>2 DEF Zips, ZipInv, ZipEnds
<1>10. ZipRounds' /\ ZipEnds'
  BY <1>1, <1>2, <1>4, <1>7, <1>9 DEF Zips, ZipInv, ZipRounds, ZipEnds
<1>11. \A j \in 1..offers' : carried'[j] = [d \in Iters' |-> j]
  BY <1>1, <1>2 DEF Zips, ZipInv
<1> QED BY <1>2, <1>3, <1>4, <1>5, <1>8, <1>10, <1>11 DEF Zips, ZipInv, OneItem

\* A contender failed.
LEMMA ZipGatherFails ==
  ASSUME IInv, Zips, GatherFails, program' = program
  PROVE  Zips'
<1>1. PICK c \in Iters : Len(calls[c].told) = calls[c].asked /\ calls[c].told[calls[c].asked] = "error"
  BY DEF GatherFails, Answered, RoundOf, Answers
<1>2. main.at = "gather" /\ calls[c].asked = offers + 1 /\ offers \in Nat
  BY Numbers DEF GatherFails, Zips, ZipInv, ZipRounds
<1>3. WasTold(c, "error")
  BY <1>1, <1>2 DEF WasTold, Answers
<1>4. WaitingItems = {}
  BY <1>2 DEF Zips, ZipInv, OneItem
<1> QED BY <1>2, <1>3, <1>4, ZipReturns DEF GatherFails

\* The round is complete.
LEMMA ZipGathered ==
  ASSUME IInv, Zips, Gathered, program' = program
  PROVE  Zips'
<1>1. main.at = "gather" /\ offers \in Nat /\ WaitingItems = {} /\ ending = "none"
  BY Numbers DEF Gathered, Zips, ZipInv, OneItem, ZipEnds
<1>2. ASSUME NEW c \in Iters
      PROVE  /\ calls[c].asked = offers + 1 /\ RoundOf(c) \in {"value", "done"}
             /\ RoundOf(c) = "done" => WasTold(c, "done")
  <2>1. Len(calls[c].told) = calls[c].asked /\ calls[c].told[calls[c].asked] # "error"
        /\ calls[c].asked = offers + 1
    BY <1>1 DEF Gathered, Answered, RoundOf, Answers, Zips, ZipInv, ZipRounds
  <2>2. offers + 1 \in 1..Len(calls[c].told)
    BY <1>1, <2>1
  <2>3. calls[c].told[offers + 1] \in Results
    BY <2>2, OfOne DEF Zips
  <2> QED BY <2>1, <2>2, <2>3 DEF WasTold, Answers, RoundOf, Results
<1>3. CASE Last
  <2>1. \E c \in Iters : WasTold(c, "done")
    BY <1>2, <1>3 DEF Last, Zips
  <2> QED BY <1>1, <1>3, <2>1, ZipReturns DEF Gathered, Return
<1>4. CASE ~Last
  <2>1. /\ Gives(RoundValues) /\ UNCHANGED <<calls, loops, ending>>
        /\ main' = [main EXCEPT !.at = "pushing", !.item = ItemGiven, !.values = RoundValues]
    BY <1>4 DEF Gathered, RoundValues
  <2>2. /\ CombTypes' /\ Common' /\ Iters' = Iters /\ offers' = offers + 1
        /\ WaitingItems' \subseteq WaitingItems \union {offers + 1}
        /\ main'.at = "pushing" /\ main'.item = offers + 1
        /\ \A j \in 1..offers : carried'[j] = carried[j]
        /\ carried'[offers + 1] = RoundValues
    BY <1>1, <2>1, RoundGiven DEF Zips
  <2>3. RoundValues = [c \in Iters |-> offers + 1]
    BY <1>2, <1>4 DEF RoundValues, Last, Zips
  <2>4. \A j \in 1..offers' : carried'[j] = [d \in Iters' |-> j]
    <3>1. \A j \in 1..offers : carried[j] = [d \in Iters |-> j]
      BY DEF Zips, ZipInv
    <3>2. \A j \in 1..(offers + 1) : j \in 1..offers \/ j = offers + 1
      BY <1>1
    <3> QED BY <2>2, <2>3, <3>1, <3>2
  <2>5. ZipRounds' /\ ZipEnds'
    BY <1>1, <1>2, <2>1, <2>2 DEF Zips, ZipInv, ZipRounds, ZipEnds
  <2>6. OneItem'
    BY <1>1, <2>2 DEF OneItem
  <2> QED BY <2>2, <2>4, <2>5, <2>6 DEF Zips, ZipInv
<1> QED BY <1>3, <1>4

\* The executor of zip keeps its part of the invariant.
LEMMA ZipKeeps ==
  ASSUME IInv, IInv', Zips, CombNext
  PROVE  Zips'
<1>1. CASE (Start \/ Consumer \/ ExecutorCalled \/ ExecutorReturns) /\ UNCHANGED <<program, combVars>>
  BY <1>1, ZipAlone
<1>2. CASE Begin
  BY <1>2, ZipBegins DEF CombNext
<1>3. ASSUME NEW c \in Iters, NEW a \in {"value", "done", "error"}, ContenderAnswers(c, a)
      PROVE  Zips'
  BY <1>3, ZipAnswers DEF CombNext, Results
<1>4. CASE CombJob
  <2>1. GatherFails \/ Gathered \/ ZipAgain
    BY <1>4 DEF CombJob, RaceDecided, RaceAgain, RaceHears, LatestBegins, LoopsEnded, LoopHears,
                LoopAgain, Zips, ZipInv, ZipRounds
  <2> QED BY <2>1, ZipGatherFails, ZipGathered, ZipAgainKeeps DEF CombNext
<1> QED BY <1>1, <1>2, <1>3, <1>4 DEF CombNext, Zips

-----------------------------------------------------------------------------
(***************************************************************************)
(* merge and latest.                                                       *)
(***************************************************************************)
Loopers ==
  /\ program \in {"merge", "latest"} /\ CombTypes /\ Common /\ LoopsInv
  /\ program = "merge" => MergeInv
  /\ program = "latest" => LatestInv

LEMMA LoopersAlone ==
  ASSUME IInv, IInv', Loopers, Start \/ Consumer \/ ExecutorCalled \/ ExecutorReturns,
         UNCHANGED <<program, combVars>>
  PROVE  Loopers'
<1>1. /\ CombTypes' /\ Common'
      /\ UNCHANGED <<program, calls, main, loops, carried, ending>> /\ Iters' = Iters
      /\ offers' = offers /\ WaitingItems' \subseteq WaitingItems
  BY CommonAlone DEF Loopers
<1>2. LoopPlaces' /\ LoopAnswers' /\ LoopEnds'
  BY <1>1 DEF Loopers, LoopsInv, LoopPlaces, LoopAnswers, LoopEnds, Out, ToldLast, Answered,
              RoundOf, Answers
<1>3. OneItemEach'
  BY <1>1 DEF Loopers, LoopsInv, OneItemEach
<1>4. MergeInv' = MergeInv
  BY <1>1 DEF MergeInv, MergeOrder, MergeAll, Passed, Seen1, Answers
<1>5. LatestInv' = LatestInv
  BY <1>1 DEF LatestInv, LatestRounds, LatestCarries, Changes, FirstOf, Answered, RoundOf, Answers
<1> QED BY <1>1, <1>2, <1>3, <1>4, <1>5 DEF Loopers, LoopsInv

\* Whoever told its last answer tells nothing more until it is asked.
LEMMA LoopersAnswer ==
  ASSUME IInv, Loopers, NEW c \in Iters, NEW a \in Results, ContenderAnswers(c, a), program' = program
  PROVE  Loopers'
<1>1. /\ CombTypes' /\ Common'
      /\ UNCHANGED <<program, main, loops, carried, ending, state, offers>>
      /\ WaitingItems' = WaitingItems
  BY CommonAnswers DEF Loopers
<1>2. /\ Iters' = Iters
      /\ \A d \in Iters : calls'[d].asked = calls[d].asked
      /\ \A d \in Iters : d # c => calls'[d].told = calls[d].told
      /\ Len(calls[c].told) < calls[c].asked /\ Len(calls'[c].told) = Len(calls[c].told) + 1
      /\ \A d \in Iters, k \in Nat :
           k \in 1..Len(calls[d].told) => k \in 1..Len(calls'[d].told) /\ calls'[d].told[k] = calls[d].told[k]
  BY AnswerDoes DEF Loopers
<1>3. calls[c].asked \in Nat /\ Len(calls[c].told) \in Nat /\ calls[c].asked = Len(calls[c].told) + 1
  BY <1>2, OfOne DEF Loopers, LoopsInv, LoopAnswers, Answers
<1>4. \A d \in Iters, b \in Results : ToldLast(d, b) => d # c
  BY <1>3 DEF ToldLast, Answered, Answers
<1>5. ASSUME NEW d \in Iters, d # c
      PROVE  /\ Answers(d)' = Answers(d) /\ Answered(d)' = Answered(d) /\ RoundOf(d)' = RoundOf(d)
             /\ \A b : ToldLast(d, b)' = ToldLast(d, b)
  BY <1>2, <1>5 DEF ToldLast, Answered, RoundOf, Answers
<1>6. LoopPlaces'
  BY <1>1, <1>2 DEF Loopers, LoopsInv, LoopPlaces
<1>7. LoopAnswers'
  <2>1. ASSUME NEW d \in Iters, d # c
        PROVE  /\ calls'[d].asked <= Len(calls'[d].told) + 1
               /\ loops'[d].at = "pushing" => ToldLast(d, "value")'
               /\ loops'[d].at = "ended" => ToldLast(d, "done")' \/ (ToldLast(d, "error")' /\ ending' = "error")
               /\ \A k \in 1..Len(calls'[d].told) : k < calls'[d].asked => calls'[d].told[k] = "value"
    BY <1>1, <1>2, <1>5, <2>1 DEF Loopers, LoopsInv, LoopAnswers, Answers
  <2>2. /\ calls'[c].asked <= Len(calls'[c].told) + 1
        /\ loops'[c].at \notin {"pushing", "ended"}
    BY <1>1, <1>2, <1>3, <1>4 DEF Loopers, LoopsInv, LoopAnswers, Results
  <2>3. ASSUME NEW k \in 1..Len(calls'[c].told), k < calls'[c].asked PROVE calls'[c].told[k] = "value"
    <3>1. k \in 1..Len(calls[c].told) /\ k \in Nat /\ k < calls[c].asked
      BY <1>2, <1>3, <2>3
    <3>2. calls[c].told[k] = "value"
      BY <3>1 DEF Loopers, LoopsInv, LoopAnswers, Answers
    <3> QED BY <3>1, <3>2, <1>2
  <2> QED BY <1>2, <2>1, <2>2, <2>3 DEF LoopAnswers, Answers
<1>8. \A d \in Iters, b \in Results : Out(d, b) => Out(d, b)'
  BY <1>1, <1>4, <1>5 DEF Out
<1>9. LoopEnds'
  BY <1>1, <1>2, <1>8 DEF Loopers, LoopsInv, LoopEnds, Results
<1>10. OneItemEach'
  BY <1>1, <1>2 DEF Loopers, LoopsInv, OneItemEach
<1>11. ASSUME program = "merge" PROVE MergeInv'
  <2>1. main.at # "idle" /\ loops[c].at = "asking"
    <3>1. calls[c].asked # 0
      BY <1>3
    <3>2. main.at # "idle"
      BY <3>1 DEF Loopers, Common
    <3> QED BY <3>2, <1>4, <1>11, OfOne DEF Loopers, MergeInv, LoopsInv, LoopAnswers, Loop, Results
  <2>2. \A d \in Iters : Seen1(d)' = Seen1(d)
    <3>1. ASSUME NEW d \in Iters, d # c PROVE Seen1(d)' = Seen1(d)
      BY <1>1, <1>2, <1>5, <3>1 DEF Seen1
    <3>2. Seen1(c) = {k \in 1..Len(calls[c].told) : calls[c].told[k] = "value"}
      BY <1>3, <2>1 DEF Seen1, Answers
    <3>3. Seen1(c)' = {k \in 1..Len(calls'[c].told) : calls'[c].told[k] = "value" /\ k < calls[c].asked}
      BY <1>1, <1>2, <2>1 DEF Seen1, Answers
    <3>4. \A k \in 1..Len(calls'[c].told) : k < calls[c].asked <=> k \in 1..Len(calls[c].told)
      BY <1>2, <1>3
    <3>5. \A k \in 1..Len(calls[c].told) : k \in 1..Len(calls'[c].told) /\ calls'[c].told[k] = calls[c].told[k]
      BY <1>2
    <3>6. Seen1(c)' = Seen1(c)
      BY <3>2, <3>3, <3>4, <3>5
    <3> QED BY <3>1, <3>6
  <2>3. \A d \in Iters : Passed(d)' = Passed(d)
    BY <1>1 DEF Passed
  <2> QED BY <1>1, <1>2, <1>11, <2>2, <2>3 DEF Loopers, MergeInv, MergeOrder, MergeAll
<1>12. ASSUME program = "latest" PROVE LatestInv'
  <2>1. main.at # "pushing"
    BY <1>3, <1>12 DEF Loopers, LatestInv, LatestRounds, Answered, Answers
  <2>2. LatestRounds'
    BY <1>1, <1>2, <1>12, <2>1 DEF Loopers, LatestInv, LatestRounds
  <2>3. ASSUME NEW d \in Iters, Len(calls[d].told) > 0
        PROVE  Len(calls'[d].told) > 0 /\ FirstOf(d)' = FirstOf(d)
    <3>1. Len(calls[d].told) \in Nat
      BY OfOne DEF Loopers
    <3>2. 1 \in 1..Len(calls[d].told)
      BY <2>3, <3>1
    <3>3. 1 \in 1..Len(calls'[d].told) /\ calls'[d].told[1] = calls[d].told[1]
      BY <1>2, <3>2
    <3>4. Len(calls'[d].told) \in Nat
      BY <1>1, CommonAnswers DEF Loopers
    <3> QED BY <3>3, <3>4 DEF FirstOf, Answers
  <2>4. LatestCarries'
    BY <1>1, <1>2, <1>12, <2>3 DEF Loopers, LatestInv, LatestCarries, Changes, Answers
  <2> QED BY <1>1, <1>12, <2>2, <2>4 DEF Loopers, LatestInv
<1> QED BY <1>1, <1>6, <1>7, <1>9, <1>10, <1>11, <1>12 DEF Loopers, LoopsInv

\* The executor returns: all contenders ended, or one failed before there were loops.
LEMMA LoopersReturn ==
  ASSUME IInv, Loopers, NEW w \in {"end", "error"}, Stops(w),
         main' = [main EXCEPT !.at = "returned"], UNCHANGED <<program, calls, loops, carried>>,
         main.at # "returned", WaitingItems = {},
         w = "error" => \E c \in Iters : Out(c, "error"),
         w = "end" /\ ending = "none" => \A c \in Iters : Out(c, "done"),
         program = "merge" => \A c \in Iters : loops[c].at # "none"
  PROVE  Loopers'
<1>1. /\ CombTypes' /\ Common' /\ Iters' = Iters /\ offers' = offers
      /\ WaitingItems' = WaitingItems
      /\ ending' = IF ending = "none" THEN w ELSE ending
      /\ ending' # "none"
      /\ main'.at = "returned" /\ main'.values = main.values
  BY EndsDoes DEF Loopers
<1>2. ending \in {"none", "error"}
  BY DEF Loopers, CombTypes, LoopsInv, LoopEnds
<1>3. \A c \in Iters : /\ Answers(c)' = Answers(c) /\ Answered(c)' = Answered(c)
                       /\ RoundOf(c)' = RoundOf(c) /\ Seen1(c)' = Seen1(c) /\ Passed(c)' = Passed(c)
                       /\ \A b : ToldLast(c, b)' = ToldLast(c, b) /\ Out(c, b)' = Out(c, b)
  BY <1>1 DEF Answers, Answered, RoundOf, ToldLast, Out, Seen1, Passed
<1>4. LoopPlaces' /\ LoopAnswers' /\ LoopEnds'
  BY <1>1, <1>2, <1>3 DEF Loopers, LoopsInv, LoopPlaces, LoopAnswers, LoopEnds
<1>5. OneItemEach'
  BY <1>1 DEF OneItemEach
<1>6. program = "merge" => MergeInv'
  BY <1>1, <1>2, <1>3 DEF Loopers, MergeInv, MergeOrder, MergeAll
<1>7. ASSUME program = "latest" PROVE LatestInv'
  <2>1. LatestRounds'
    BY <1>1, <1>7 DEF Loopers, LatestInv, LatestRounds
  <2>2. LatestCarries'
    BY <1>1, <1>3, <1>7 DEF Loopers, LatestInv, LatestCarries, Changes, FirstOf
  <2> QED BY <1>1, <2>1, <2>2 DEF LatestInv
<1> QED BY <1>1, <1>4, <1>5, <1>6, <1>7 DEF Loopers, LoopsInv

LEMMA LoopersEnd ==
  ASSUME IInv, Loopers, LoopsEnded, program' = program
  PROVE  Loopers'
<1>1. main.at = "loops" /\ \A c \in Iters : loops[c].at = "ended"
  BY DEF LoopsEnded
<1>2. WaitingItems = {}
  BY <1>1 DEF Loopers, LoopsInv, OneItemEach
<1>3. ending = "none" => \A c \in Iters : Out(c, "done")
  BY <1>1 DEF Loopers, LoopsInv, LoopAnswers, Out
<1> QED BY <1>1, <1>2, <1>3, LoopersReturn DEF LoopsEnded, Return

LEMMA LoopersBegin ==
  ASSUME IInv, Loopers, Begin, program' = program
  PROVE  Loopers'
<1>0. /\ main.at = "idle" /\ offers = 0 /\ ending = "none"
      /\ \A c \in Iters : calls[c].asked = 0 /\ main.values[c] = 0 /\ loops[c].at = "none"
  BY DEF Begin, Loopers, Common
<1>1. WaitingItems = {}
  BY <1>0 DEF Loopers, LoopsInv, OneItemEach
<1>2. CASE Iters = {}
  BY <1>0, <1>1, <1>2, LoopersReturn DEF Begin, Return
<1>3. CASE Iters # {}
  <2>1. /\ Iters' = Iters /\ calls' \in [Iters -> Calls]
        /\ \A c \in Iters : calls'[c].asked = calls[c].asked + 1 /\ calls'[c].told = calls[c].told
    BY <1>3, AskAllDoes DEF Begin, Loopers
  <2> DEFINE place(c) == IF program = "merge" THEN "asking" ELSE loops[c].at
  <2>2. /\ main' = [main EXCEPT !.at = IF program = "merge" THEN "loops" ELSE "gather"]
        /\ loops' = [c \in Iters |-> [loops[c] EXCEPT !.at = place(c)]]
        /\ UNCHANGED <<state, offers, asked, carried, ending>>
    BY <1>3 DEF Begin, Loopers, vars
  <2>3. /\ loops' \in [Iters -> Loop]
        /\ \A c \in Iters : loops'[c].at = IF program = "merge" THEN "asking" ELSE "none"
    <3> DEFINE moved(c) == [loops[c] EXCEPT !.at = place(c)]
    <3>1. \A c \in Iters : moved(c) \in Loop /\ moved(c).at = place(c)
      BY OfOne DEF Loopers, Loop
    <3>2. loops' = [c \in Iters |-> moved(c)]
      BY <2>2
    <3> HIDE DEF moved
    <3>3. loops' \in [Iters -> Loop] /\ \A c \in Iters : loops'[c].at = place(c)
      BY <3>1, <3>2
    <3> QED BY <3>3, <1>0
  <2> HIDE DEF place
  <2>4. /\ main'.at = IF program = "merge" THEN "loops" ELSE "gather"
        /\ main'.values = main.values /\ main' \in Executor
    BY <2>2 DEF Loopers, CombTypes, Executor
  <2>5. CombTypes'
    <3>1. Executor' = Executor /\ Payloads' = Payloads
      BY <2>1 DEF Executor, Payloads
    <3> QED BY <2>1, <2>2, <2>3, <2>4, <3>1 DEF Loopers, CombTypes
  <2>6. \A c \in Iters : calls'[c].asked = 1 /\ calls'[c].told = calls[c].told /\ Len(calls[c].told) = 0
    BY <1>0, <2>1, OfOne DEF Loopers, Common, Answers
  <2>7. Common'
    <3>1. main'.at \notin {"idle", "returned"}
      BY <2>4
    <3>2. \A c \in Iters : Len(calls'[c].told) <= calls'[c].asked
      BY <2>6
    <3> QED BY <1>3, <2>1, <2>2, <3>1, <3>2 DEF Loopers, Common, Answers
  <2>8. LoopPlaces' /\ LoopEnds'
    <3>1. ending' = "none"
      BY <1>0, <2>2
    <3>2. \A c \in Iters : /\ main'.at = "gather" => loops'[c].at = "none"
                           /\ main'.at = "loops" => loops'[c].at # "none"
                           /\ calls'[c].asked > 0
      BY <2>3, <2>4, <2>6
    <3>3. main'.at \in {"gather", "loops"}
      BY <2>4
    <3> QED BY <2>1, <3>1, <3>2, <3>3 DEF LoopPlaces, LoopEnds
  <2>9. LoopAnswers'
    BY <2>1, <2>3, <2>6 DEF LoopAnswers, Answers
  <2>10. OneItemEach'
    BY <1>1, <2>2 DEF OneItemEach, WaitingItems
  <2>11. ASSUME program = "merge" PROVE MergeInv'
    <3>1. MergeOrder'
      BY <1>0, <2>2 DEF MergeOrder
    <3>2. ASSUME NEW c \in Iters PROVE Passed(c)' = {} /\ Seen1(c)' = {}
      BY <1>0, <2>2, <2>6 DEF Passed, Seen1, Answers
    <3> QED BY <2>1, <2>3, <2>4, <2>11, <3>1, <3>2 DEF MergeInv, MergeAll
  <2>12. ASSUME program = "latest" PROVE LatestInv'
    <3>1. LatestRounds'
      BY <2>1, <2>3, <2>4, <2>6, <2>12 DEF LatestRounds
    <3>2. LatestCarries'
      BY <1>0, <2>2 DEF LatestCarries
    <3> QED BY <1>0, <2>2, <2>4, <2>12, <3>1, <3>2 DEF LatestInv
  <2> QED BY <2>5, <2>7, <2>8, <2>9, <2>10, <2>11, <2>12 DEF Loopers, LoopsInv
<1> QED BY <1>2, <1>3

\* A contender of latest fails in the first round.
LEMMA LoopersGatherFails ==
  ASSUME IInv, Loopers, GatherFails, program' = program
  PROVE  Loopers'
<1>1. PICK c \in Iters : Answered(c) /\ RoundOf(c) = "error"
  BY DEF GatherFails
<1>2. /\ main.at = "gather" /\ program = "latest" /\ calls[c].asked = 1
      /\ \A d \in Iters : loops[d].at = "none"
  BY DEF GatherFails, Loopers, MergeInv, LatestInv, LatestRounds, LoopsInv, LoopPlaces
<1>3. Out(c, "error")
  BY <1>1, <1>2 DEF Out, ToldLast
<1>4. WaitingItems = {}
  BY <1>2 DEF Loopers, LoopsInv, OneItemEach
<1> QED BY <1>2, <1>3, <1>4, LoopersReturn DEF GatherFails

\* The first round of latest is complete.
LEMMA LoopersGathered ==
  ASSUME IInv, Loopers, Gathered, program' = program
  PROVE  Loopers'
<1>1. /\ main.at = "gather" /\ program = "latest" /\ offers = 0 /\ ending = "none"
      /\ \A c \in Iters : /\ loops[c].at = "none" /\ calls[c].asked = 1 /\ Answered(c)
                          /\ RoundOf(c) # "error" /\ Len(calls[c].told) = 1 /\ RoundOf(c) = calls[c].told[1]
  BY DEF Gathered, Loopers, MergeInv, LatestInv, LatestRounds, LoopsInv, LoopPlaces, LoopEnds,
         Answered, RoundOf, Answers
<1>2. WaitingItems = {}
  BY <1>1 DEF Loopers, LoopsInv, OneItemEach
<1>3. CASE Last
  <2>1. \A c \in Iters : Out(c, "done")
    BY <1>1, <1>3 DEF Last, Out, ToldLast
  <2> QED BY <1>1, <1>2, <1>3, <2>1, LoopersReturn DEF Gathered, Return
<1>4. CASE ~Last
  <2>1. /\ Gives(RoundValues) /\ UNCHANGED <<calls, loops, ending>>
        /\ main' = [main EXCEPT !.at = "pushing", !.item = ItemGiven, !.values = RoundValues]
    BY <1>4 DEF Gathered, RoundValues
  <2>2. /\ CombTypes' /\ Common' /\ Iters' = Iters /\ offers' = 1
        /\ WaitingItems' \subseteq {1}
        /\ main'.at = "pushing" /\ main'.item = 1 /\ main'.values = RoundValues
        /\ carried'[1] = RoundValues
    BY <1>1, <1>2, <2>1, RoundGiven DEF Loopers
  <2>3. \A c \in Iters : RoundValues[c] = IF calls[c].told[1] = "value" THEN 1 ELSE 0
    BY <1>1 DEF RoundValues
  <2>4. LoopPlaces' /\ LoopEnds'
    BY <1>1, <2>1, <2>2 DEF LoopPlaces, LoopEnds
  <2>5. LoopAnswers'
    BY <1>1, <2>1, <2>2 DEF LoopAnswers, Answers, Loopers, LoopsInv
  <2>6. OneItemEach'
    BY <2>2 DEF OneItemEach
  <2>7. LatestRounds'
    BY <1>1, <2>1, <2>2, <2>3 DEF LatestRounds, Answered, RoundOf, FirstOf, Answers
  <2>8. LatestCarries'
    BY <1>1, <2>1, <2>2, <2>3 DEF LatestCarries, FirstOf, Answers
  <2> QED BY <1>1, <2>2, <2>4, <2>5, <2>6, <2>7, <2>8 DEF Loopers, LoopsInv, LatestInv
<1> QED BY <1>3, <1>4

\* latest starts a function for each contender that has not ended.
LEMMA LoopersLatestBegins ==
  ASSUME IInv, Loopers, LatestBegins, program' = program
  PROVE  Loopers'
<1>1. /\ main.at = "pushing" /\ program = "latest" /\ offers = 1 /\ ending = "none"
      /\ \A c \in Iters : /\ loops[c].at = "none" /\ calls[c].asked = 1 /\ Answered(c)
                          /\ RoundOf(c) # "error" /\ Len(calls[c].told) = 1 /\ RoundOf(c) = calls[c].told[1]
                          /\ main.values[c] = FirstOf(c)
  BY DEF LatestBegins, Loopers, LatestInv, LatestRounds, LoopsInv, LoopPlaces, LoopEnds,
         Answered, RoundOf, Answers
<1>2. WaitingItems = {}
  BY <1>1, TakenWaitsNoMore DEF Loopers, LoopsInv, OneItemEach, LatestBegins
<1> DEFINE ended(c) == RoundOf(c) = "done"
<1> DEFINE call(c) == [calls[c] EXCEPT !.asked = IF ended(c) THEN calls[c].asked ELSE calls[c].asked + 1]
<1> DEFINE loop(c) == [loops[c] EXCEPT !.at = IF ended(c) THEN "ended" ELSE "asking"]
<1>3. /\ main' = [main EXCEPT !.at = "loops"] /\ calls' = [c \in Iters |-> call(c)]
      /\ loops' = [c \in Iters |-> loop(c)] /\ UNCHANGED <<state, offers, asked, carried, ending>>
  BY DEF LatestBegins, vars
<1>4. \A c \in Iters :
        /\ call(c) \in Calls /\ call(c).told = calls[c].told
        /\ call(c).asked = IF ended(c) THEN 1 ELSE 2
        /\ loop(c) \in Loop /\ loop(c).at = IF ended(c) THEN "ended" ELSE "asking"
  BY <1>1, OfOne DEF Loopers, Loop, Calls
<1> HIDE DEF call, loop
<1>5. /\ Iters' = Iters /\ calls' \in [Iters -> Calls] /\ loops' \in [Iters -> Loop]
      /\ \A c \in Iters : /\ calls'[c].told = calls[c].told
                          /\ calls'[c].asked = IF ended(c) THEN 1 ELSE 2
                          /\ loops'[c].at = IF ended(c) THEN "ended" ELSE "asking"
  BY <1>3, <1>4 DEF Iters
<1>6. /\ main'.at = "loops" /\ main'.values = main.values /\ main' \in Executor
  BY <1>3 DEF Loopers, CombTypes, Executor
<1>7. CombTypes'
  <2>1. Executor' = Executor /\ Payloads' = Payloads
    BY <1>5 DEF Executor, Payloads
  <2> QED BY <1>3, <1>5, <1>6, <2>1 DEF Loopers, CombTypes
<1>8. Iters # {}
  BY <1>1 DEF Loopers, Common
<1>9. \A c \in Iters : Len(calls'[c].told) = 1 /\ Len(calls'[c].told) <= calls'[c].asked
  <2> SUFFICES ASSUME NEW c \in Iters
               PROVE  Len(calls'[c].told) = 1 /\ Len(calls'[c].told) <= calls'[c].asked
    OBVIOUS
  <2>1. Len(calls'[c].told) = 1
    BY <1>1, <1>5
  <2>2. calls'[c].asked \in {1, 2}
    BY <1>5
  <2> QED BY <2>1, <2>2
<1>10. Common'
  BY <1>3, <1>5, <1>6, <1>8, <1>9 DEF Loopers, Common, Answers
<1>11. \A c \in Iters : calls[c].told[1] \in {"value", "done"}
  <2>1. \A c \in Iters : calls[c].told[1] \in Results /\ calls[c].told[1] # "error"
    BY <1>1, OfOne DEF Loopers
  <2> QED BY <2>1 DEF Results
<1>12. LoopPlaces'
  BY <1>5, <1>6 DEF LoopPlaces
<1>13. LoopEnds'
  BY <1>1, <1>3 DEF LoopEnds
<1>14. LoopAnswers'
  BY <1>1, <1>5, <1>9, <1>11 DEF LoopAnswers, ToldLast, Answered, RoundOf, Answers
<1>15. OneItemEach'
  BY <1>2, <1>3 DEF OneItemEach, WaitingItems
<1>16. LatestRounds'
  BY <1>1, <1>5, <1>6, <1>11 DEF LatestRounds, FirstOf, Answers
<1>17. LatestCarries'
  BY <1>1, <1>3, <1>5, <1>6, <1>9 DEF Loopers, LatestInv, LatestCarries, Changes, FirstOf, Answers
<1> QED BY <1>1, <1>3, <1>6, <1>7, <1>10, <1>12, <1>13, <1>14, <1>15, <1>16, <1>17
        DEF Loopers, LoopsInv, LatestInv

\* An item is taken, so its contender is asked again.
LEMMA LoopersAgain ==
  ASSUME IInv, Loopers, NEW c \in Iters, LoopAgain(c), program' = program
  PROVE  Loopers'
<1>1. /\ loops[c].at = "pushing" /\ Taken(loops[c].item) /\ ToldLast(c, "value")
      /\ calls[c].asked > 0 /\ calls[c].asked \in Nat /\ Len(calls[c].told) = calls[c].asked
      /\ calls[c].told[calls[c].asked] = "value"
  BY OfOne DEF LoopAgain, Loopers, LoopsInv, LoopAnswers, ToldLast, Answered, RoundOf, Answers
<1>2. main.at \in {"loops", "returned"}
  BY <1>1 DEF Loopers, LoopsInv, LoopPlaces, CombTypes, Executor, MergeInv, LatestInv
<1> DEFINE call == [calls[c] EXCEPT !.asked = calls[c].asked + 1]
<1> DEFINE loop == [loops[c] EXCEPT !.at = "asking"]
<1>3. /\ calls' = [calls EXCEPT ![c] = call] /\ loops' = [loops EXCEPT ![c] = loop]
      /\ UNCHANGED <<state, offers, asked, main, carried, ending>>
  BY DEF LoopAgain, Ask, vars
<1>4. /\ call \in Calls /\ call.told = calls[c].told /\ call.asked = calls[c].asked + 1
      /\ loop \in Loop /\ loop.at = "asking"
  BY <1>1, OfOne DEF Loopers, Loop, Calls
<1> HIDE DEF call, loop
<1>5. /\ Iters' = Iters /\ calls' \in [Iters -> Calls] /\ loops' \in [Iters -> Loop]
      /\ calls'[c] = call /\ loops'[c] = loop
      /\ \A d \in Iters : d # c => calls'[d] = calls[d] /\ loops'[d] = loops[d]
      /\ \A d \in Iters : calls'[d].told = calls[d].told
  BY <1>3, <1>4 DEF Loopers, CombTypes, Iters
<1>6. CombTypes'
  <2>1. Executor' = Executor /\ Payloads' = Payloads
    BY <1>5 DEF Executor, Payloads
  <2> QED BY <1>3, <1>5, <2>1 DEF Loopers, CombTypes
<1>7. Common'
  <2>1. ASSUME NEW d \in Iters PROVE Len(calls'[d].told) <= calls'[d].asked
    <3>1. CASE d = c
      BY <1>1, <1>4, <1>5, <3>1
    <3>2. CASE d # c
      BY <1>5, <3>2 DEF Loopers, Common, Answers
    <3> QED BY <3>1, <3>2
  <2> QED BY <1>2, <1>3, <1>5, <2>1 DEF Loopers, Common, Answers
<1>8. ASSUME NEW d \in Iters, d # c
      PROVE  /\ Answered(d)' = Answered(d) /\ RoundOf(d)' = RoundOf(d)
             /\ \A b : ToldLast(d, b)' = ToldLast(d, b) /\ Out(d, b)' = Out(d, b)
  BY <1>5, <1>8 DEF ToldLast, Out, Answered, RoundOf, Answers
<1>9. LoopPlaces'
  BY <1>1, <1>2, <1>3, <1>4, <1>5 DEF Loopers, LoopsInv, LoopPlaces
<1>10. LoopAnswers'
  <2>1. ASSUME NEW d \in Iters, d # c
        PROVE  /\ calls'[d].asked <= Len(calls'[d].told) + 1
               /\ loops'[d].at = "pushing" => ToldLast(d, "value")'
               /\ loops'[d].at = "ended" => ToldLast(d, "done")' \/ (ToldLast(d, "error")' /\ ending' = "error")
               /\ \A k \in 1..Len(calls'[d].told) : k < calls'[d].asked => calls'[d].told[k] = "value"
    BY <1>3, <1>5, <1>8, <2>1 DEF Loopers, LoopsInv, LoopAnswers, Answers
  <2>2. calls'[c].asked <= Len(calls'[c].told) + 1 /\ loops'[c].at = "asking"
    BY <1>1, <1>4, <1>5
  <2>3. ASSUME NEW k \in 1..Len(calls[c].told) PROVE calls[c].told[k] = "value"
    <3>1. CASE k = calls[c].asked
      BY <1>1, <3>1
    <3>2. CASE k # calls[c].asked
      <4>1. k < calls[c].asked
        BY <1>1, <3>2
      <4> QED BY <4>1 DEF Loopers, LoopsInv, LoopAnswers, Answers
    <3> QED BY <3>1, <3>2
  <2> QED BY <1>5, <2>1, <2>2, <2>3 DEF LoopAnswers, Answers
<1>11. LoopEnds'
  <2>1. ending # "end"
    BY <1>1 DEF Loopers, LoopsInv, LoopEnds, Out
  <2>2. \A d \in Iters : Out(d, "error") => d # c
    BY <1>1 DEF Out
  <2> QED BY <1>2, <1>3, <1>5, <1>8, <2>1, <2>2 DEF Loopers, LoopsInv, LoopEnds
<1>12. OneItemEach'
  <2>1. ASSUME NEW i \in WaitingItems PROVE \E d \in Iters : d # c /\ loops[d].at = "pushing" /\ loops[d].item = i
    BY <1>1, <1>2, TakenWaitsNoMore DEF Loopers, LoopsInv, OneItemEach
  <2> QED BY <1>3, <1>5, <2>1 DEF OneItemEach, WaitingItems
<1>13. ASSUME program = "merge" PROVE MergeInv'
  <2>1. \A d \in Iters : Passed(d)' = Passed(d)
    BY <1>3 DEF Passed
  <2>2. ASSUME NEW d \in Iters PROVE Seen1(d)' = Seen1(d)
    <3>1. CASE d = c
      <4>1. Seen1(c) = {k \in 1..Len(calls[c].told) : calls[c].told[k] = "value"}
        BY <1>1 DEF Seen1, Answers
      <4>2. \A k \in 1..Len(calls[c].told) : k < calls[c].asked + 1
        BY <1>1
      <4>3. Seen1(c)' = {k \in 1..Len(calls[c].told) : calls[c].told[k] = "value"}
        BY <1>4, <1>5, <4>2 DEF Seen1, Answers
      <4> QED BY <3>1, <4>1, <4>3
    <3>2. CASE d # c
      BY <1>5, <3>2 DEF Seen1, Answers
    <3> QED BY <3>1, <3>2
  <2>3. \A d \in Iters : loops'[d].at = "none" => main'.at = "idle"
    BY <1>3, <1>4, <1>5, <1>13 DEF Loopers, MergeInv
  <2> QED BY <1>3, <1>5, <1>13, <2>1, <2>2, <2>3 DEF Loopers, MergeInv, MergeOrder, MergeAll
<1>14. ASSUME program = "latest" PROVE LatestInv'
  <2>1. LatestRounds'
    <3>1. main.values[c] = calls'[c].asked - 1
      BY <1>1, <1>4, <1>5, <1>14, OfOne DEF Loopers, LatestInv, LatestRounds
    <3> QED BY <1>2, <1>3, <1>4, <1>5, <1>14, <3>1 DEF Loopers, LatestInv, LatestRounds
  <2>2. LatestCarries'
    <3>1. \A d \in Iters : Answers(d)' = Answers(d) /\ FirstOf(d)' = FirstOf(d)
      BY <1>5 DEF FirstOf, Answers
    <3>2. LatestCarries
      BY <1>14 DEF Loopers, LatestInv
    <3>3. offers' > 0 => \A d \in Iters' : Len(Answers(d)') > 0 /\ carried'[1][d] = FirstOf(d)'
      BY <1>3, <1>5, <3>1, <3>2 DEF LatestCarries
    <3>4. \A j \in 2..offers' : Changes(j)'
      BY <1>3, <1>5, <3>2 DEF LatestCarries, Changes
    <3> QED BY <1>3, <3>2, <3>3, <3>4 DEF LatestCarries
  <2> QED BY <1>2, <1>3, <1>14, <2>1, <2>2 DEF Loopers, LatestInv
<1> QED BY <1>6, <1>7, <1>9, <1>10, <1>11, <1>12, <1>13, <1>14 DEF Loopers, LoopsInv

\* What holds when the function of a contender hears an answer, whichever it is.
LEMMA Hears ==
  ASSUME IInv, Loopers, NEW c \in Iters, LoopHears(c)
  PROVE  /\ loops[c].at = "asking" /\ main.at \in {"loops", "returned"}
         /\ calls[c].asked > 0 /\ calls[c].asked \in Nat /\ Len(calls[c].told) = calls[c].asked
         /\ RoundOf(c) = calls[c].told[calls[c].asked] /\ RoundOf(c) \in Results
         /\ ToldLast(c, RoundOf(c)) /\ ending \in {"none", "error"}
         /\ \A d \in Iters : \A b : Out(d, b) => d # c
<1>1. loops[c].at = "asking" /\ Len(calls[c].told) = calls[c].asked
  BY DEF LoopHears, Answered, Answers
<1>2. calls[c].asked > 0 /\ calls[c].asked \in Nat
  BY <1>1, OfOne DEF Loopers, LoopsInv, LoopPlaces
<1>3. main.at \in {"loops", "returned"}
  BY <1>1 DEF Loopers, LoopsInv, LoopPlaces, CombTypes, Executor, MergeInv, LatestInv
<1>4. RoundOf(c) = calls[c].told[calls[c].asked] /\ RoundOf(c) \in Results
  <2>1. calls[c].asked \in 1..Len(calls[c].told)
    BY <1>1, <1>2
  <2> QED BY <2>1, OfOne DEF Loopers, RoundOf, Answers
<1>5. \A d \in Iters : \A b : Out(d, b) => d # c
  BY <1>1 DEF Out
<1>6. ending \in {"none", "error"}
  BY <1>5 DEF Loopers, CombTypes, LoopsInv, LoopEnds
<1> QED BY <1>1, <1>2, <1>3, <1>4, <1>5, <1>6 DEF ToldLast, Answered, Answers

\* A contender ended or failed, so its function returns.
LEMMA HearsEnd ==
  ASSUME IInv, Loopers, NEW c \in Iters, LoopHears(c), program' = program, RoundOf(c) # "value"
  PROVE  Loopers'
<1>1. /\ loops[c].at = "asking" /\ main.at \in {"loops", "returned"}
      /\ calls[c].asked > 0 /\ calls[c].asked \in Nat /\ Len(calls[c].told) = calls[c].asked
      /\ RoundOf(c) = calls[c].told[calls[c].asked] /\ RoundOf(c) \in {"done", "error"}
      /\ ToldLast(c, RoundOf(c)) /\ ending \in {"none", "error"}
      /\ \A d \in Iters : \A b : Out(d, b) => d # c
  BY Hears DEF Results
<1> DEFINE loop == [loops[c] EXCEPT !.at = "ended"]
<1>2. /\ UNCHANGED <<calls, main, carried>> /\ loops' = [loops EXCEPT ![c] = loop]
      /\ RoundOf(c) = "error" => Stops("error")
      /\ RoundOf(c) = "done" => UNCHANGED <<vars, ending>>
  BY <1>1 DEF LoopHears
<1>3. /\ offers' = offers /\ WaitingItems' = WaitingItems
      /\ ending' \in {"none", "error"} /\ (ending' = "none" <=> state' < STOPPED)
      /\ RoundOf(c) = "error" => ending' = "error"
      /\ RoundOf(c) = "done" => ending' = ending
      /\ ending = "error" => ending' = "error"
  <2>1. CASE RoundOf(c) = "error"
    BY <1>1, <1>2, <2>1, StopsDoes DEF Loopers, Common
  <2>2. CASE RoundOf(c) = "done"
    BY <1>1, <1>2, <2>2 DEF vars, WaitingItems, Loopers, Common
  <2> QED BY <1>1, <2>1, <2>2
<1>4. loop \in Loop /\ loop.at = "ended"
  BY OfOne DEF Loopers, Loop
<1> HIDE DEF loop
<1>5. /\ Iters' = Iters /\ loops' \in [Iters -> Loop] /\ loops'[c].at = "ended"
      /\ \A d \in Iters : d # c => loops'[d] = loops[d]
  BY <1>2, <1>4 DEF Loopers, CombTypes, Iters
<1>6. CombTypes'
  <2>1. Executor' = Executor /\ Payloads' = Payloads
    BY <1>5 DEF Executor, Payloads
  <2> QED BY <1>2, <1>3, <1>5, <2>1 DEF Loopers, CombTypes
<1>7. Common'
  BY <1>1, <1>2, <1>3, <1>5 DEF Loopers, Common, Answers
<1>8. \A d \in Iters : \A b : ToldLast(d, b)' = ToldLast(d, b)
  BY <1>2 DEF ToldLast, Answered, RoundOf, Answers
<1>9. LoopPlaces'
  BY <1>1, <1>2, <1>5 DEF Loopers, LoopsInv, LoopPlaces
<1>10. LoopAnswers'
  <2>1. ASSUME NEW d \in Iters, d # c
        PROVE  /\ loops'[d].at = "pushing" => ToldLast(d, "value")'
               /\ loops'[d].at = "ended" => ToldLast(d, "done")' \/ (ToldLast(d, "error")' /\ ending' = "error")
    BY <1>3, <1>5, <1>8, <2>1 DEF Loopers, LoopsInv, LoopAnswers
  <2>2. ToldLast(c, "done")' \/ (ToldLast(c, "error")' /\ ending' = "error")
    BY <1>1, <1>3, <1>8
  <2> QED BY <1>2, <1>5, <2>1, <2>2 DEF Loopers, LoopsInv, LoopAnswers, Answers
<1>11. \A d \in Iters : \A b : Out(d, b) => Out(d, b)'
  BY <1>1, <1>5, <1>8 DEF Out
<1>12. RoundOf(c) = "error" => Out(c, "error")'
  BY <1>1, <1>5, <1>8 DEF Out
<1>13. LoopEnds'
  BY <1>1, <1>2, <1>3, <1>5, <1>11, <1>12 DEF Loopers, LoopsInv, LoopEnds
<1>14. OneItemEach'
  BY <1>1, <1>2, <1>3, <1>5 DEF Loopers, LoopsInv, OneItemEach
<1>15. ASSUME program = "merge" PROVE MergeInv'
  <2>1. \A d \in Iters : Passed(d)' = Passed(d)
    BY <1>2, <1>3 DEF Passed
  <2>2. ASSUME NEW d \in Iters PROVE Seen1(d)' = Seen1(d)
    <3>1. CASE d = c
      <4>1. \A k \in 1..Len(calls[c].told) : k < calls[c].asked \/ calls[c].told[k] # "value"
        BY <1>1
      <4>2. Seen1(c) = {k \in 1..Len(calls[c].told) : calls[c].told[k] = "value"}
        BY <1>1, <4>1 DEF Seen1, Answers
      <4>3. Seen1(c)' = {k \in 1..Len(calls[c].told) : calls[c].told[k] = "value"}
        BY <1>2, <1>5 DEF Seen1, Answers
      <4> QED BY <3>1, <4>2, <4>3
    <3>2. CASE d # c
      BY <1>2, <1>5, <3>2 DEF Seen1, Answers
    <3> QED BY <3>1, <3>2
  <2>3. \A d \in Iters : loops'[d].at = "none" => main'.at = "idle"
    BY <1>2, <1>5, <1>15 DEF Loopers, MergeInv
  <2> QED BY <1>2, <1>3, <1>5, <1>15, <2>1, <2>2, <2>3 DEF Loopers, MergeInv, MergeOrder, MergeAll
<1>16. ASSUME program = "latest" PROVE LatestInv'
  <2>1. LatestRounds'
    BY <1>1, <1>2, <1>5, <1>16 DEF Loopers, LatestInv, LatestRounds
  <2>2. LatestCarries
    BY <1>16 DEF Loopers, LatestInv
  <2>3. \A j \in 2..offers' : Changes(j)'
    BY <1>2, <1>3, <1>5, <2>2 DEF LatestCarries, Changes
  <2>4. \A d \in Iters : Answers(d)' = Answers(d) /\ FirstOf(d)' = FirstOf(d)
    BY <1>2 DEF FirstOf, Answers
  <2>5. offers' > 0 => \A d \in Iters' : Len(Answers(d)') > 0 /\ carried'[1][d] = FirstOf(d)'
    BY <1>2, <1>3, <1>5, <2>2, <2>4 DEF LatestCarries
  <2>6. offers' > 0 /\ ending' = "none" => carried'[offers'] = main'.values
    BY <1>1, <1>2, <1>3, <2>2 DEF LatestCarries
  <2>7. LatestCarries'
    BY <2>3, <2>5, <2>6 DEF LatestCarries
  <2> QED BY <1>2, <1>3, <1>16, <2>1, <2>7 DEF Loopers, LatestInv
<1> QED BY <1>6, <1>7, <1>9, <1>10, <1>13, <1>14, <1>15, <1>16 DEF Loopers, LoopsInv

\* A contender gave a value, so its function pushes it and waits.
LEMMA HearsValue ==
  ASSUME IInv, Loopers, NEW c \in Iters, LoopHears(c), program' = program, RoundOf(c) = "value"
  PROVE  Loopers'
<1>1. /\ loops[c].at = "asking" /\ main.at \in {"loops", "returned"}
      /\ calls[c].asked > 0 /\ calls[c].asked \in Nat /\ Len(calls[c].told) = calls[c].asked
      /\ RoundOf(c) = calls[c].told[calls[c].asked]
      /\ ToldLast(c, "value") /\ ending \in {"none", "error"}
      /\ \A d \in Iters : \A b : Out(d, b) => d # c
  BY Hears
<1> DEFINE values == [main.values EXCEPT ![c] = calls[c].asked]
<1> DEFINE payload == IF program = "merge" THEN [c |-> c, n |-> calls[c].asked] ELSE values
<1> DEFINE loop == [at |-> "pushing", item |-> ItemGiven]
<1>2. /\ Gives(payload) /\ main' = [main EXCEPT !.values = values]
      /\ loops' = [loops EXCEPT ![c] = loop] /\ UNCHANGED <<calls, ending>>
  BY DEF LoopHears
<1>3. values \in [Iters -> Nat] /\ values[c] = calls[c].asked
      /\ \A d \in Iters : d # c => values[d] = main.values[d]
  BY <1>1 DEF Loopers, CombTypes, Executor
<1>4. payload \in Payloads
  <2>1. c \in Contenders
    BY OfOne DEF Loopers
  <2> QED BY <1>1, <1>3, <2>1 DEF Payloads, Loopers
<1>5. program = "merge" => payload = [c |-> c, n |-> calls[c].asked]
  OBVIOUS
<1>6. program = "latest" => payload = values
  OBVIOUS
<1>7. ItemGiven \in Nat
  BY Numbers DEF ItemGiven
<1>8. loop \in Loop /\ loop.at = "pushing" /\ loop.item = ItemGiven
  BY <1>7 DEF Loop
<1> HIDE DEF payload, loop
<1>9. main' \in Executor /\ main'.at = main.at /\ main'.values = values
  BY <1>2, <1>3 DEF Loopers, CombTypes, Executor
<1> HIDE DEF values
<1>10. /\ Iters' = Iters /\ loops' \in [Iters -> Loop]
       /\ loops'[c].at = "pushing" /\ loops'[c].item = ItemGiven
       /\ \A d \in Iters : d # c => loops'[d] = loops[d]
  BY <1>2, <1>8 DEF Loopers, CombTypes, Iters
<1>11. offers \in Nat /\ Len(carried) = offers /\ carried \in Seq(Payloads)
       /\ (ending = "none" <=> state < STOPPED)
  BY Numbers DEF Loopers, Common, CombTypes
<1>12. /\ state' = state /\ carried' \in Seq(Payloads) /\ Len(carried') = offers'
       /\ ending = "none" =>
            /\ offers' = offers + 1 /\ ItemGiven = offers + 1
            /\ WaitingItems' \subseteq WaitingItems \union {offers + 1}
            /\ carried'[offers + 1] = payload
            /\ \A j \in 1..offers : carried'[j] = carried[j]
       /\ ending # "none" => UNCHANGED <<offers, carried>> /\ WaitingItems' = WaitingItems
  <2>1. CASE state < STOPPED
    <3>1. /\ state' = state /\ offers' = offers + 1 /\ carried' = Append(carried, payload)
          /\ ItemGiven = offers + 1 /\ WaitingItems' \subseteq WaitingItems \union {offers + 1}
      BY <1>2, <2>1, GivesDoes
    <3>2. /\ carried' \in Seq(Payloads) /\ Len(carried') = offers + 1
          /\ \A j \in 1..offers : carried'[j] = carried[j]
          /\ carried'[offers + 1] = payload
      BY <1>4, <1>11, <3>1, Appended
    <3> QED BY <1>11, <2>1, <3>1, <3>2
  <2>2. CASE ~(state < STOPPED)
    BY <1>2, <1>11, <2>2, GivesDoes
  <2> QED BY <2>1, <2>2
<1>13. CombTypes'
  <2>1. Executor' = Executor /\ Payloads' = Payloads
    BY <1>10 DEF Executor, Payloads
  <2> QED BY <1>2, <1>9, <1>10, <1>12, <2>1 DEF Loopers, CombTypes
<1>14. Common'
  BY <1>1, <1>2, <1>9, <1>10, <1>11, <1>12 DEF Loopers, Common, Answers
<1>15. \A d \in Iters : \A b : ToldLast(d, b)' = ToldLast(d, b)
  BY <1>2 DEF ToldLast, Answered, RoundOf, Answers
<1>16. LoopPlaces'
  BY <1>1, <1>2, <1>9, <1>10 DEF Loopers, LoopsInv, LoopPlaces
<1>17. LoopAnswers'
  <2>1. ASSUME NEW d \in Iters
        PROVE  /\ loops'[d].at = "pushing" => ToldLast(d, "value")'
               /\ loops'[d].at = "ended" => ToldLast(d, "done")' \/ (ToldLast(d, "error")' /\ ending' = "error")
    <3>1. CASE d = c
      BY <1>1, <1>10, <1>15, <3>1
    <3>2. CASE d # c
      BY <1>2, <1>10, <1>15, <3>2 DEF Loopers, LoopsInv, LoopAnswers
    <3> QED BY <3>1, <3>2
  <2> QED BY <1>2, <1>10, <2>1 DEF Loopers, LoopsInv, LoopAnswers, Answers
<1>18. LoopEnds'
  <2>1. \A d \in Iters : \A b : Out(d, b) => Out(d, b)'
    BY <1>1, <1>10, <1>15 DEF Out
  <2> QED BY <1>1, <1>2, <1>9, <1>10, <2>1 DEF Loopers, LoopsInv, LoopEnds
<1>19. OneItemEach'
  <2>1. ASSUME NEW i \in WaitingItems
        PROVE  \E d \in Iters : loops'[d].at = "pushing" /\ loops'[d].item = i
    BY <1>1, <1>10 DEF Loopers, LoopsInv, OneItemEach
  <2>2. \A i \in WaitingItems' : i \in WaitingItems \/ i = loops'[c].item
    BY <1>10, <1>12
  <2> QED BY <1>10, <2>1, <2>2 DEF OneItemEach
<1>20. ASSUME program = "merge" PROVE MergeInv'
  <2>0. MergeInv
    BY <1>20 DEF Loopers
  <2>1. \A d \in Iters : loops'[d].at = "none" => main'.at = "idle"
    BY <1>9, <1>10, <2>0 DEF MergeInv
  <2>2. CASE ending # "none"
    <3>1. \A d \in Iters : Passed(d)' = Passed(d)
      BY <1>12, <2>2 DEF Passed
    <3> QED BY <1>1, <1>2, <1>9, <1>10, <1>12, <2>0, <2>1, <2>2, <3>1
         DEF MergeInv, MergeOrder, MergeAll
  <2>3. CASE ending = "none"
    <3> DEFINE m == calls[c].asked
    <3>1. /\ offers' = offers + 1 /\ carried'[offers + 1].c = c /\ carried'[offers + 1].n = m
          /\ \A j \in 1..offers : carried'[j] = carried[j]
      BY <1>5, <1>12, <1>20, <2>3
    <3>2. \A j \in 1..(offers + 1) : j \in 1..offers \/ j = offers + 1
      BY <1>11
    <3>3. Seen1(c) = {k \in 1..m : k < m}
      <4>1. \A k \in 1..m : k < m => calls[c].told[k] = "value"
        BY <1>1 DEF Loopers, LoopsInv, LoopAnswers, Answers
      <4> QED BY <1>1, <4>1 DEF Seen1, Answers
    <3>4. Seen1(c)' = 1..m
      <4>1. ASSUME NEW k \in 1..m PROVE calls[c].told[k] = "value"
        <5>1. CASE k = m
          BY <1>1, <5>1
        <5>2. CASE k # m
          <6>1. k < m
            BY <1>1, <5>2
          <6> QED BY <1>1, <6>1 DEF Loopers, LoopsInv, LoopAnswers, Answers
        <5> QED BY <5>1, <5>2
      <4> QED BY <1>1, <1>2, <1>10, <4>1 DEF Seen1, Answers
    <3>5. \A d \in Iters : d # c => Seen1(d)' = Seen1(d)
      BY <1>2, <1>10 DEF Seen1, Answers
    <3>6. Passed(c) = Seen1(c) /\ \A d \in Iters : Passed(d) = Seen1(d)
      BY <2>0, <2>3 DEF MergeInv, MergeAll
    <3>7. \A d \in Iters : d # c => Passed(d)' = Passed(d)
      <4> SUFFICES ASSUME NEW d \in Iters, d # c PROVE Passed(d)' = Passed(d)
        OBVIOUS
      <4>1. \A j \in 1..(offers + 1) : carried'[j].c = d <=> j \in 1..offers /\ carried[j].c = d
        BY <3>1, <3>2, <1>11
      <4>2. \A j \in 1..offers : j \in 1..(offers + 1)
        BY <1>11
      <4> QED BY <3>1, <4>1, <4>2 DEF Passed
    <3>8. Passed(c)' = Passed(c) \union {m}
      <4>1. \A j \in 1..offers : j \in 1..(offers + 1)
        BY <1>11
      <4>2. offers + 1 \in 1..(offers + 1)
        BY <1>11
      <4>3. ASSUME NEW n \in Passed(c)' PROVE n \in Passed(c) \union {m}
        <5>1. PICK j \in 1..(offers + 1) : carried'[j].c = c /\ carried'[j].n = n
          BY <3>1, <4>3 DEF Passed
        <5> QED BY <3>1, <3>2, <5>1 DEF Passed
      <4>4. ASSUME NEW n \in Passed(c) PROVE n \in Passed(c)'
        <5>1. PICK j \in 1..offers : carried[j].c = c /\ carried[j].n = n
          BY <4>4 DEF Passed
        <5> QED BY <3>1, <4>1, <5>1 DEF Passed
      <4>5. m \in Passed(c)'
        BY <3>1, <4>2 DEF Passed
      <4> QED BY <4>3, <4>4, <4>5
    <3>9. MergeOrder'
      <4>1. ASSUME NEW i \in 1..offers, carried[i].c = c PROVE carried[i].n < m
        <5>1. carried[i].n \in Passed(c)
          BY <4>1 DEF Passed
        <5> QED BY <5>1, <3>3, <3>6
      <4>2. ASSUME NEW i \in 1..(offers + 1), NEW j \in 1..(offers + 1), i < j,
                   carried'[i].c = carried'[j].c
            PROVE  carried'[i].n < carried'[j].n
        <5>1. i \in 1..offers
          BY <1>11, <4>2
        <5>2. CASE j \in 1..offers
          BY <2>0, <3>1, <4>2, <5>1, <5>2 DEF MergeInv, MergeOrder
        <5>3. CASE j = offers + 1
          BY <3>1, <4>1, <4>2, <5>1, <5>3
        <5> QED BY <3>2, <5>2, <5>3
      <4> QED BY <3>1, <4>2 DEF MergeOrder
    <3>10. \A d \in Iters : Passed(d)' = Seen1(d)'
      <4>1. Passed(c)' = Seen1(c)'
        BY <1>1, <3>3, <3>4, <3>6, <3>8
      <4> QED BY <3>5, <3>6, <3>7, <4>1
    <3>11. ASSUME NEW d \in Iters, NEW n \in Passed(d)' PROVE 1..n \subseteq Passed(d)'
      <4>1. CASE d = c
        BY <1>1, <3>4, <3>10, <3>11, <4>1
      <4>2. CASE d # c
        BY <2>0, <3>7, <3>11, <4>2 DEF MergeInv, MergeAll
      <4> QED BY <4>1, <4>2
    <3>12. MergeAll'
      BY <1>10, <3>10, <3>11 DEF MergeAll
    <3> QED BY <1>9, <1>10, <2>0, <2>1, <3>9, <3>12 DEF MergeInv
  <2> QED BY <2>2, <2>3
<1>21. ASSUME program = "latest" PROVE LatestInv'
  <2>0. LatestInv /\ LatestCarries /\ LatestRounds
    BY <1>21 DEF Loopers, LatestInv
  <2>1. main.values[c] = calls[c].asked - 1
    BY <1>1, <2>0 DEF LatestRounds
  <2>2. LatestRounds'
    BY <1>1, <1>2, <1>3, <1>9, <1>10, <2>0 DEF LatestRounds
  <2>3. \A d \in Iters : Answers(d)' = Answers(d) /\ FirstOf(d)' = FirstOf(d)
    BY <1>2 DEF FirstOf, Answers
  <2>4. CASE ending # "none"
    <3>1. ASSUME NEW j \in 2..offers' PROVE Changes(j)'
      <4>1. PICK d \in Iters : carried[j] = [carried[j - 1] EXCEPT ![d] = carried[j - 1][d] + 1]
        BY <1>12, <2>0, <2>4, <3>1 DEF LatestCarries, Changes
      <4> QED BY <1>10, <1>12, <2>4, <4>1 DEF Changes
    <3>2. offers' > 0 => \A d \in Iters' : Len(Answers(d)') > 0 /\ carried'[1][d] = FirstOf(d)'
      BY <1>10, <1>12, <2>0, <2>3, <2>4 DEF LatestCarries
    <3>3. LatestCarries'
      BY <1>2, <2>4, <3>1, <3>2 DEF LatestCarries
    <3> QED BY <1>1, <1>9, <1>12, <2>0, <2>2, <2>4, <3>3 DEF LatestInv
  <2>5. CASE ending = "none"
    <3>1. /\ offers' = offers + 1 /\ carried'[offers + 1] = values
          /\ \A j \in 1..offers : carried'[j] = carried[j]
      BY <1>6, <1>12, <1>21, <2>5
    <3>2. offers > 0 /\ carried[offers] = main.values
      <4>1. main.at = "loops"
        BY <1>1, <2>5 DEF Loopers, Common
      <4> QED BY <2>0, <2>5, <4>1 DEF LatestInv, LatestCarries
    <3>3. values = [main.values EXCEPT ![c] = main.values[c] + 1]
      <4>1. calls[c].asked = main.values[c] + 1
        BY <1>1, <2>1
      <4> QED BY <4>1 DEF values
    <3>4. ASSUME NEW j \in 2..(offers + 1) PROVE Changes(j)'
      <4>1. j - 1 \in 1..offers /\ (j \in 2..offers \/ j = offers + 1)
        BY <1>11
      <4>2. CASE j \in 2..offers
        <5>1. PICK d \in Iters : carried[j] = [carried[j - 1] EXCEPT ![d] = carried[j - 1][d] + 1]
          BY <2>0, <4>2 DEF LatestCarries, Changes
        <5>2. j \in 1..offers
          BY <4>2, <1>11
        <5> QED BY <1>10, <3>1, <4>1, <5>1, <5>2 DEF Changes
      <4>3. CASE j = offers + 1
        <5>1. carried'[j - 1] = main.values /\ carried'[j] = [main.values EXCEPT ![c] = main.values[c] + 1]
          <6>1. j - 1 = offers
            BY <4>3, <1>11
          <6> QED BY <3>1, <3>2, <3>3, <4>1, <4>3, <6>1
        <5> QED BY <1>10, <5>1 DEF Changes
      <4> QED BY <4>1, <4>2, <4>3
    <3>5. \A d \in Iters' : Len(Answers(d)') > 0 /\ carried'[1][d] = FirstOf(d)'
      <4>1. 1 \in 1..offers
        BY <1>11, <3>2
      <4> QED BY <1>10, <2>0, <2>3, <3>1, <3>2, <4>1 DEF LatestCarries
    <3>6. LatestCarries'
      BY <1>9, <3>1, <3>4, <3>5 DEF LatestCarries
    <3> QED BY <1>1, <1>9, <1>11, <2>2, <3>1, <3>2, <3>6 DEF LatestInv
  <2> QED BY <2>4, <2>5
<1> QED BY <1>13, <1>14, <1>16, <1>17, <1>18, <1>19, <1>20, <1>21 DEF Loopers, LoopsInv

\* The executors of merge and latest keep their part of the invariant.
LEMMA LoopersKeep ==
  ASSUME IInv, IInv', Loopers, CombNext
  PROVE  Loopers'
<1>1. CASE (Start \/ Consumer \/ ExecutorCalled \/ ExecutorReturns) /\ UNCHANGED <<program, combVars>>
  BY <1>1, LoopersAlone
<1>2. CASE Begin
  BY <1>2, LoopersBegin DEF CombNext
<1>3. ASSUME NEW c \in Iters, NEW a \in {"value", "done", "error"}, ContenderAnswers(c, a)
      PROVE  Loopers'
  BY <1>3, LoopersAnswer DEF CombNext, Results
<1>4. CASE CombJob
  <2>1. \/ GatherFails \/ Gathered \/ LatestBegins \/ LoopsEnded
        \/ \E c \in Iters : LoopHears(c) \/ LoopAgain(c)
    BY <1>4 DEF CombJob, RaceDecided, RaceAgain, RaceHears, ZipAgain, Loopers, MergeInv, LatestInv
  <2>2. ASSUME NEW c \in Iters, LoopHears(c) PROVE Loopers'
    BY <2>2, HearsValue, HearsEnd DEF CombNext
  <2> QED BY <2>1, <2>2, LoopersGatherFails, LoopersGathered, LoopersLatestBegins, LoopersEnd,
             LoopersAgain DEF CombNext
<1> QED BY <1>1, <1>2, <1>3, <1>4 DEF CombNext, Loopers

-----------------------------------------------------------------------------
(***************************************************************************)
(* Every program.                                                          *)
(***************************************************************************)
LEMMA CombInitInvariant == CombInit => CombInv
<1> SUFFICES ASSUME CombInit PROVE CombInv
  OBVIOUS
<1>1. PICK cs \in SUBSET Contenders :
        /\ program = "user" => cs = {}
        /\ calls = [c \in cs |-> [asked |-> 0, told |-> <<>>]]
        /\ main = [at |-> "idle", item |-> 0, winner |-> NobodyYet, stopped |-> FALSE,
                   heeded |-> [c \in cs |-> 0], values |-> [c \in cs |-> 0]]
        /\ loops = [c \in cs |-> [at |-> "none", item |-> 0]]
  BY DEF CombInit
<1>2. /\ Iters = cs /\ carried = <<>> /\ ending = "none" /\ program \in Programs
      /\ offers = 0 /\ asked = 0 /\ state < STOPPED
  BY <1>1 DEF CombInit, Init, Iters, INITIAL, STOPPED
<1>3. /\ Len(<<>>) = 0 /\ <<>> \in Seq(Results) /\ <<>> \in Seq(Payloads)
  BY EmptyList
<1>4. \A c \in Iters : /\ calls[c].asked = 0 /\ Len(Answers(c)) = 0 /\ loops[c].at = "none"
                       /\ main.values[c] = 0 /\ main.heeded[c] = 0
  BY <1>1, <1>2, <1>3 DEF Answers
<1>5. main.at = "idle" /\ main.winner = NobodyYet /\ main.stopped = FALSE /\ NobodyYet.answer = "none"
  BY <1>1 DEF NobodyYet
<1>6. CombTypes
  <2>1. [asked |-> 0, told |-> <<>>] \in Calls
    BY <1>3 DEF Calls
  <2>2. main \in Executor
    BY <1>1, <1>2 DEF Executor, NobodyYet
  <2>3. [at |-> "none", item |-> 0] \in Loop
    BY DEF Loop
  <2> QED BY <1>1, <1>2, <1>3, <2>1, <2>2, <2>3 DEF CombTypes
<1>7. Common
  BY <1>2, <1>3, <1>4, <1>5 DEF Common
<1>8. WaitingItems = {}
  BY <1>2 DEF WaitingItems
<1>9. RaceInv
  BY <1>2, <1>4, <1>5, <1>8 DEF RaceInv, RaceRounds, RaceStops, RaceEnds, OneItem
<1>10. ZipInv
  BY <1>2, <1>4, <1>5, <1>8 DEF ZipInv, ZipRounds, ZipEnds, OneItem
<1>11. LoopsInv
  <2>1. LoopPlaces /\ LoopEnds /\ OneItemEach
    BY <1>2, <1>4, <1>5, <1>8 DEF LoopPlaces, LoopEnds, OneItemEach
  <2>2. LoopAnswers
    BY <1>4 DEF LoopAnswers
  <2> QED BY <2>1, <2>2 DEF LoopsInv
<1>12. MergeInv
  <2>1. \A c \in Iters : Passed(c) = {} /\ Seen1(c) = {}
    BY <1>2, <1>4 DEF Passed, Seen1
  <2>2. MergeOrder
    BY <1>2 DEF MergeOrder
  <2>3. MergeAll
    BY <2>1 DEF MergeAll
  <2> QED BY <1>4, <1>5, <2>2, <2>3 DEF MergeInv
<1>13. LatestInv
  BY <1>2, <1>4, <1>5 DEF LatestInv, LatestRounds, LatestCarries
<1>14. program = "user" => Iters = {} /\ main.at = "idle"
  BY <1>1, <1>2, <1>5
<1> QED BY <1>6, <1>7, <1>9, <1>10, <1>11, <1>12, <1>13, <1>14 DEF CombInv

LEMMA CombStepInvariant == IInv /\ IInv' /\ CombInv /\ [CombNext]_allVars => CombInv'
<1> SUFFICES ASSUME IInv, IInv', CombInv, [CombNext]_allVars PROVE CombInv'
  OBVIOUS
<1>0. program \in {"user", "race", "merge", "zip", "latest"}
  BY CombinatorsAssumption DEF CombInv, CombTypes
<1>1. CASE UNCHANGED allVars
  <2>1. UNCHANGED <<state, offers, asked, program, calls, main, loops, carried, ending>>
    BY <1>1 DEF allVars, combVars, vars
  <2>2. WaitingItems' = WaitingItems /\ Iters' = Iters
    BY <2>1 DEF WaitingItems, Iters
  <2>3. CombTypes' /\ (Common' <=> Common)
    BY <2>1, <2>2 DEF CombInv, CombTypes, Executor, Payloads, Common, Answers
  <2>4. RaceInv' <=> RaceInv
    BY <2>1, <2>2 DEF RaceInv, RaceRounds, RaceStops, RaceEnds, Heeded, OneItem, Answers, NobodyYet
  <2>5. ZipInv' <=> ZipInv
    BY <2>1, <2>2 DEF ZipInv, ZipRounds, ZipEnds, WasTold, OneItem, Answers
  <2>6. LoopsInv' <=> LoopsInv
    <3>1. \A c \in Iters : \A b : Out(c, b)' = Out(c, b) /\ ToldLast(c, b)' = ToldLast(c, b)
      BY <2>1 DEF Out, ToldLast, Answered, RoundOf, Answers
    <3> QED BY <2>1, <2>2, <3>1 DEF LoopsInv, LoopPlaces, LoopAnswers, LoopEnds, OneItemEach, Answers
  <2>7. MergeInv' <=> MergeInv
    BY <2>1, <2>2 DEF MergeInv, MergeOrder, MergeAll, Passed, Seen1, Answers
  <2>8. LatestInv' <=> LatestInv
    BY <2>1, <2>2 DEF LatestInv, LatestRounds, LatestCarries, Changes, FirstOf, Answered, RoundOf, Answers
  <2> QED BY <2>1, <2>2, <2>3, <2>4, <2>5, <2>6, <2>7, <2>8 DEF CombInv
<1>2. CASE CombNext
  <2>0. program' = program
    BY <1>2 DEF CombNext
  <2>1. CASE program = "user"
    <3>1. Iters = {} /\ main.at = "idle"
      BY <2>1 DEF CombInv
    <3>2. UNCHANGED <<program, calls, main, loops, carried, ending>>
      BY <1>2, <2>1, <3>1
         DEF CombNext, combVars, CombJob, RaceDecided, RaceAgain, GatherFails, Gathered, ZipAgain,
             LatestBegins, LoopsEnded
    <3>3. Iters' = Iters
      BY <3>2 DEF Iters
    <3>4. CombTypes'
      BY <3>2, <3>3 DEF CombInv, CombTypes, Executor, Payloads
    <3> QED BY <2>1, <3>1, <3>2, <3>3, <3>4 DEF CombInv
  <2>2. CASE program = "race"
    <3>1. Races'
      BY <1>2, <2>2, RaceKeeps DEF CombInv, Races
    <3> QED BY <2>0, <2>2, <3>1 DEF CombInv, Races
  <2>3. CASE program = "zip"
    <3>1. Zips'
      BY <1>2, <2>3, ZipKeeps DEF CombInv, Zips
    <3> QED BY <2>0, <2>3, <3>1 DEF CombInv, Zips
  <2>4. CASE program \in {"merge", "latest"}
    <3>1. Loopers'
      BY <1>2, <2>4, LoopersKeep DEF CombInv, Loopers
    <3> QED BY <2>0, <2>4, <3>1 DEF CombInv, Loopers
  <2> QED BY <1>0, <2>1, <2>2, <2>3, <2>4
<1> QED BY <1>1, <1>2

\* The invariant of the combinators holds whatever they and their consumer do.
THEOREM CombInvariantHolds == CombSpec => []CombInv
<1>1. CombSpec => []IInv
  BY CombinatorsUseRepeater, InvariantHolds, PTL
<1> QED BY <1>1, CombInitInvariant, CombStepInvariant, PTL DEF CombSpec

-----------------------------------------------------------------------------
\* There are not more waiting items than functions that push.
LEMMA FewItemsWait ==
  ASSUME IInv, CombInv, program # "user"
  PROVE  FewWait
<1> DEFINE J == {j \in 1..Len(pushes) : ~pushes[j].stop}
<1>1. asked \in Nat /\ Len(pushes) \in Nat /\ offers \in Nat
  BY Counters DEF IInv
<1>2. \A j \in J : j \in Nat /\ asked + j \in WaitingItems
  BY <1>1, ItemsWait
<1> HIDE DEF J
<1>3. IsFiniteSet(Iters)
  BY CombinatorsAssumption, FS_Subset DEF CombInv, CombTypes
<1>4. ASSUME \A i, j \in WaitingItems : i = j
      PROVE  IsFiniteSet(J) /\ Cardinality(J) <= 1
  <2>1. CASE J = {}
    BY <2>1, FS_EmptySet
  <2>2. CASE J # {}
    <3>1. PICK j \in J : TRUE
      BY <2>2
    <3>2. \A i \in J : i = j
      <4> SUFFICES ASSUME NEW i \in J PROVE i = j
        OBVIOUS
      <4>1. asked + i = asked + j
        BY <1>2, <1>4
      <4> QED BY <1>1, <1>2, <4>1
    <3>3. J = {j}
      BY <3>1, <3>2
    <3>4. IsFiniteSet(J) /\ Cardinality(J) = 1
      BY <3>3, FS_Singleton
    <3> QED BY <3>4
  <2> QED BY <2>1, <2>2
<1>5. CASE program \in {"race", "zip"}
  <2>1. \A i, j \in WaitingItems : i = j
    BY <1>5 DEF CombInv, RaceInv, ZipInv, OneItem
  <2> QED BY <1>4, <1>5, <2>1 DEF FewWait, J
<1>6. CASE program \in {"merge", "latest"} /\ main.at = "pushing"
  <2>1. \A i, j \in WaitingItems : i = j
    BY <1>6 DEF CombInv, LoopsInv, OneItemEach, LoopPlaces
  <2>2. Iters # {} /\ Cardinality(Iters) \in Nat
    BY <1>3, <1>6, FS_CardinalityType DEF CombInv, Common
  <2>3. Cardinality(Iters) >= 1
    BY <1>3, <2>2, FS_EmptySet
  <2>4. Cardinality(J) \in Nat
    BY <1>4, <2>1, FS_CardinalityType
  <2> QED BY <1>4, <1>6, <2>1, <2>2, <2>3, <2>4 DEF FewWait, J
<1>7. CASE program \in {"merge", "latest"} /\ main.at # "pushing"
  <2>1. \A j \in J : \E c \in Iters : loops[c].at = "pushing" /\ loops[c].item = asked + j
    BY <1>2, <1>7 DEF CombInv, LoopsInv, OneItemEach
  <2> DEFINE f == [j \in J |-> CHOOSE c \in Iters : loops[c].item = asked + j]
  <2>2. \A j \in J : f[j] \in Iters /\ loops[f[j]].item = asked + j
    BY <2>1
  <2>3. f \in [J -> Iters]
    BY <2>2
  <2> HIDE DEF f
  <2>4. \A i, j \in J : f[i] = f[j] => i = j
    <3> SUFFICES ASSUME NEW i \in J, NEW j \in J, f[i] = f[j] PROVE i = j
      OBVIOUS
    <3>1. asked + i = asked + j
      BY <2>2
    <3> QED BY <1>1, <1>2, <3>1
  <2>5. f \in Injection(J, Iters)
    BY <2>3, <2>4, Fun_IsInj
  <2>6. Cardinality(J) <= Cardinality(Iters)
    BY <1>3, <2>5, FS_Injection
  <2> QED BY <1>7, <2>6 DEF FewWait, J
<1> QED BY <1>5, <1>6, <1>7, CombinatorsAssumption DEF CombInv, CombTypes

LEMMA CombTyped ==
  ASSUME CombInv, program # "user"
  PROVE  CombTypeOK
<1>1. program \in {"race", "merge", "zip", "latest"} /\ CombTypes /\ Common
  BY CombinatorsAssumption DEF CombInv, CombTypes
<1>2. ASSUME NEW c \in Iters
      PROVE  /\ Len(Answers(c)) \in 0..calls[c].asked
             /\ loops[c].at \in {"none", "asking", "pushing", "ended"}
             /\ loops[c].at # "none" => main.at \in {"loops", "returned"}
  <2>1. Len(Answers(c)) \in Nat /\ calls[c].asked \in Nat /\ loops[c] \in Loop
    BY <1>1, OfOne
  <2>2. Len(Answers(c)) <= calls[c].asked
    BY <1>1 DEF Common
  <2>3. loops[c].at # "none" => main.at \in {"loops", "returned"}
    BY <1>1 DEF CombInv, RaceInv, RaceRounds, ZipInv, ZipRounds, LoopsInv, LoopPlaces, CombTypes,
                Executor, MergeInv, LatestInv
  <2> QED BY <2>1, <2>2, <2>3 DEF Loop
<1>3. main.at \in {"idle", "race", "gather", "pushing", "loops", "returned"}
  BY <1>1 DEF CombTypes, Executor
<1> QED BY <1>1, <1>2, <1>3 DEF CombTypeOK, CombTypes, Common

LEMMA CarriedRight ==
  ASSUME CombInv, program # "user"
  PROVE  CarriesRight
<1>0. program \in {"race", "merge", "zip", "latest"}
  BY CombinatorsAssumption DEF CombInv, CombTypes
<1>1. CASE program = "race"
  BY <1>1 DEF CombInv, RaceInv, CarriesRight
<1>2. CASE program = "merge"
  BY <1>2 DEF CombInv, MergeInv, MergeOrder, MergeAll, CarriesRight
<1>3. CASE program = "zip"
  BY <1>3 DEF CombInv, ZipInv, CarriesRight
<1>4. CASE program = "latest"
  BY <1>4 DEF CombInv, LatestInv, LatestCarries, Changes, FirstOf, CarriesRight
<1> QED BY <1>0, <1>1, <1>2, <1>3, <1>4

LEMMA EndedRight ==
  ASSUME IInv, CombInv, program # "user"
  PROVE  EndsRight
<1>0. program \in {"race", "merge", "zip", "latest"} /\ CombTypes /\ Common
  BY CombinatorsAssumption DEF CombInv, CombTypes
<1>1. main.at = "returned" => state >= STOPPED
  BY <1>0, Numbers DEF Common, STOPPED
<1>2. CASE program = "race"
  <2>1. ASSUME NEW a, Heeded(a) PROVE \E c \in Iters : Heeds(c, a)
    <3>1. PICK c \in Iters : \E k \in 1..main.heeded[c] : Answers(c)[k] = a
      BY <2>1 DEF Heeded
    <3>2. PICK k \in 1..main.heeded[c] : Answers(c)[k] = a
      BY <3>1
    <3>3. k \in 1..Len(Answers(c)) /\ k <= main.heeded[c]
      <4>1. main.heeded[c] \in Nat /\ Len(Answers(c)) \in Nat
        BY <1>0, OfOne DEF Answers
      <4>2. main.heeded[c] <= Len(Answers(c))
        BY <1>2 DEF CombInv, RaceInv, RaceRounds
      <4> QED BY <4>1, <4>2
    <3>4. main.at # "gather"
      BY <1>2 DEF CombInv, RaceInv
    <3> QED BY <1>2, <3>2, <3>3, <3>4 DEF Heeds
  <2> QED BY <1>1, <1>2, <2>1 DEF CombInv, RaceInv, RaceEnds, EndsRight
<1>3. CASE program = "zip"
  <2>1. ASSUME NEW c \in Iters, NEW a, WasTold(c, a), main.at = "returned" PROVE Heeds(c, a)
    BY <1>3, <2>1 DEF CombInv, ZipInv, ZipRounds, WasTold, Heeds
  <2> QED BY <1>1, <1>3, <2>1 DEF CombInv, ZipInv, ZipEnds, EndsRight
<1>4. CASE program \in {"merge", "latest"}
  <2>1. ASSUME NEW c \in Iters, NEW a, Out(c, a), ending # "none" PROVE Heeds(c, a)
    <3>1. calls[c].asked \in 1..Len(Answers(c)) /\ Answers(c)[calls[c].asked] = a
      BY <1>0, <2>1, OfOne DEF Out, ToldLast, Answered, RoundOf
    <3>2. main.at # "gather" /\ loops[c].at # "asking"
      BY <1>4, <2>1 DEF CombInv, LoopsInv, LoopEnds, Out
    <3> QED BY <1>4, <3>1, <3>2 DEF Heeds
  <2>2. ASSUME NEW c \in Iters, Out(c, "done") PROVE ~Heeds(c, "error")
    <3>1. calls[c].asked \in Nat /\ Len(Answers(c)) = calls[c].asked /\ Answers(c)[calls[c].asked] = "done"
      BY <1>0, <2>2, OfOne DEF Out, ToldLast, Answered, RoundOf
    <3>2. ASSUME NEW k \in 1..Len(Answers(c)) PROVE Answers(c)[k] # "error"
      <4>1. CASE k = calls[c].asked
        BY <3>1, <4>1
      <4>2. CASE k # calls[c].asked
        <5>1. k < calls[c].asked
          BY <3>1, <4>2
        <5> QED BY <1>4, <5>1 DEF CombInv, LoopsInv, LoopAnswers
      <4> QED BY <4>1, <4>2
    <3> QED BY <3>2 DEF Heeds
  <2> QED BY <1>1, <1>4, <2>1, <2>2 DEF CombInv, LoopsInv, LoopEnds, EndsRight
<1> QED BY <1>0, <1>2, <1>3, <1>4

\* race, merge, zip and latest of quickjs-repeater.c hand out what they are named
\* for, end when they should and with the failure that came first, and let no more
\* items wait than they have functions that push: for any contenders.
THEOREM CombinatorsMeanWhatTheySay == CombSpec => []CombinatorsMean
<1>1. IInv /\ CombInv => CombinatorsMean
  BY CombTyped, CarriedRight, EndedRight, FewItemsWait DEF CombinatorsMean
<1>2. CombSpec => []IInv
  BY CombinatorsUseRepeater, InvariantHolds, PTL
<1> QED BY <1>1, <1>2, CombInvariantHolds, PTL

=============================================================================
