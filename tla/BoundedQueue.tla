----------------------------- MODULE BoundedQueue -----------------------------
(***************************************************************************)
(* What the server's ingestion queue promises to those who send and to     *)
(* those who read the results, without saying how: a bounded queue that    *)
(* answers every offer at once, serves one item at a time in the order of  *)
(* the offers, and when it is closed serves what is left in one go.        *)
(* Ingestion implements it.                                                *)
(*                                                                         *)
(* An item is the number of its offer.  An offer may ask the queue to      *)
(* close: it waits like any other, is not served, and closes the queue     *)
(* when its turn comes.                                                    *)
(***************************************************************************)
EXTENDS Naturals, Sequences

CONSTANT Capacity   \* items that may wait

VARIABLES offers,   \* how many offers there were
          waiting,  \* the items that wait, oldest first
          serving,  \* the item being served, if any
          served,   \* the items served
          closers,  \* the offers that ask the queue to close
          spent,    \* those of them that were taken off
          refused,  \* the offers answered no
          displaced,\* the items dropped to make room
          closed    \* nothing is served any more

vars == <<offers, waiting, serving, served, closers, spent, refused, displaced, closed>>

Init ==
    /\ offers = 0
    /\ waiting = <<>>
    /\ serving = <<>>
    /\ served = {}
    /\ closers = {}
    /\ spent = {}
    /\ refused = {}
    /\ displaced = {}
    /\ closed = FALSE

Room == Len(waiting) < Capacity

(* An offer asks for nothing but to be served, or to close the queue.      *)
Offer ==
    /\ offers' = offers + 1
    /\ closers' = closers \/ closers' = closers \union {offers'}

(* An offer is accepted if there is room, and only then for nothing: a     *)
(* full queue says no or drops its oldest item.                            *)
Accept ==
    /\ Room
    /\ Offer
    /\ waiting' = Append(waiting, offers')
    /\ UNCHANGED <<serving, served, spent, refused, displaced, closed>>

Refuse ==
    /\ ~Room
    /\ Offer
    /\ refused' = refused \union {offers'}
    /\ UNCHANGED <<waiting, serving, served, spent, displaced, closed>>

Displace ==
    /\ ~Room
    /\ Offer
    /\ waiting' = Append(Tail(waiting), offers')
    /\ displaced' = displaced \union {Head(waiting)}
    /\ UNCHANGED <<serving, served, spent, refused, closed>>

Serve ==
    /\ ~closed
    /\ serving = <<>>
    /\ waiting # <<>>
    /\ serving' = <<Head(waiting)>>
    /\ waiting' = Tail(waiting)
    /\ UNCHANGED <<offers, served, closers, spent, refused, displaced, closed>>

Finish ==
    /\ ~closed
    /\ serving # <<>>
    /\ Head(serving) \notin closers
    /\ served' = served \union {Head(serving)}
    /\ serving' = <<>>
    /\ UNCHANGED <<offers, waiting, closers, spent, refused, displaced, closed>>

(* Closing serves what is in service and the first k that wait: all of     *)
(* them, unless serving the k-th fails.  Those that ask to close are spent.*)
Close ==
    /\ ~closed
    /\ closed' = TRUE
    /\ \E k \in 0..Len(waiting) :
          LET last == {serving[i] : i \in 1..Len(serving)} \union {waiting[i] : i \in 1..k}
          IN  /\ served' = served \union (last \ closers)
              /\ spent' = spent \union (last \intersect closers)
              /\ waiting' = SubSeq(waiting, k + 1, Len(waiting))
    /\ serving' = <<>>
    /\ UNCHANGED <<offers, closers, refused, displaced>>

Asked == serving # <<>> /\ Head(serving) \in closers

Next == Accept \/ Refuse \/ Displace \/ Serve \/ Finish \/ Close

(* The steps of the queue, and with its fairness: what waits is served, or *)
(* closing ends the service; and it closes when it is asked to.            *)
Safe == Init /\ [][Next]_vars
Spec == Safe /\ WF_vars(Serve) /\ WF_vars(Finish) /\ WF_vars(Asked /\ Close)
=============================================================================
