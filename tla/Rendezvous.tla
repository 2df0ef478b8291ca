----------------------------- MODULE Rendezvous -----------------------------
(***************************************************************************)
(* What a Repeater (src/quickjs-repeater.c) promises the two sides that    *)
(* use it, whatever lists it keeps: the k-th value offered meets the k-th  *)
(* request, and the producer hears of the request that took its value.     *)
(* Once the producer has closed, the requests that no value is left for    *)
(* learn the end: those already waiting then, or else the first one after  *)
(* the last value, are given the closing value, which counts as the offer  *)
(* after the last; any later one is given nothing, shown as 0.             *)
(***************************************************************************)
EXTENDS Naturals

CONSTANTS MaxOffers, MaxAsked

VARIABLES
  asked,    \* requests made
  offers,   \* values offered
  closed,   \* no value follows
  waited,   \* how many requests had been made when it closed
  got,      \* got[k]: what the k-th request was answered
  heard     \* heard[i]: the request the i-th offer was told of, or 0

vars == <<asked, offers, closed, waited, got, heard>>

Nothing == [from |-> 0, done |-> FALSE]

\* The answer the k-th request must be given, when it is given one.
Due(k) ==
  IF k <= offers THEN [from |-> k, done |-> FALSE]
  ELSE [from |-> IF k <= offers + 1 \/ k <= waited THEN offers + 1 ELSE 0,
        done |-> TRUE]

Decided(k) == k <= asked /\ (k <= offers \/ closed)

Init ==
  /\ asked = 0 /\ offers = 0 /\ closed = FALSE /\ waited = 0
  /\ got = [k \in 1..MaxAsked |-> Nothing]
  /\ heard = [i \in 1..(MaxOffers + 1) |-> 0]

Ask == asked' = asked + 1 /\ UNCHANGED <<offers, closed, waited>>

Offer == ~closed /\ offers' = offers + 1 /\ UNCHANGED <<asked, closed, waited>>

Close ==
  /\ ~closed /\ closed' = TRUE
  /\ waited' = asked
  /\ UNCHANGED <<asked, offers>>

\* Answers are right when they arrive, may arrive in any order, and stay.
Tell ==
  /\ \A k \in 1..MaxAsked :
       got'[k] = got[k] \/ (got[k] = Nothing /\ Decided(k)' /\ got'[k] = Due(k)')
  /\ \A i \in 1..(MaxOffers + 1) :
       heard'[i] = heard[i] \/ (heard[i] = 0 /\ i <= asked' /\ heard'[i] = i)

Next == (Ask \/ Offer \/ Close \/ UNCHANGED <<asked, offers, closed, waited>>) /\ Tell

Spec == Init /\ [][Next]_vars
=============================================================================
