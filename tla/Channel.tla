------------------------------ MODULE Channel ------------------------------
(***************************************************************************)
(* What the outbox promises about a delivery, and nothing about how: it is  *)
(* sent at least once, called delivered only when a webhook has accepted    *)
(* it, given up only after MaxAttempts sends, and then left alone; once it  *)
(* is settled it is not even sent again as long as there is one sender.     *)
(* There are no ticks, locks, batches, or rows in anybody's hands.          *)
(* Outbox implements this specification (Outbox!ChannelHolds).              *)
(***************************************************************************)
EXTENDS Naturals

CONSTANTS Delivery, MaxAttempts

VARIABLES
    fate,           \* per delivery: none, pending, delivered, failed, deleted
    tries,          \* how often it was sent
    got,            \* deliveries that a webhook has accepted
    single          \* nobody has begun to send beside the sender

vars == <<fate, tries, got, single>>

Init ==
    /\ fate = [d \in Delivery |-> "none"]
    /\ tries = [d \in Delivery |-> 0]
    /\ got = {}
    /\ single = TRUE

Become(d, to) == fate' = [fate EXCEPT ![d] = to]

Offer(d) ==
    /\ fate[d] = "none"
    /\ Become(d, "pending")
    /\ UNCHANGED <<tries, got, single>>

\* A delivery may be deleted while it is sent; a second sender may repeat one
\* that the first has settled.
Try(d) ==
    /\ fate[d] \in {"pending", "deleted"} \/ (~ single /\ fate[d] # "none")
    /\ tries' = [tries EXCEPT ![d] = @ + 1]
    /\ got' \in {got, got \cup {d}}
    /\ UNCHANGED <<fate, single>>

Confirm(d) ==
    /\ fate[d] = "pending" /\ d \in got
    /\ Become(d, "delivered")
    /\ UNCHANGED <<tries, got, single>>

GiveUp(d) ==
    /\ fate[d] = "pending" /\ tries[d] >= MaxAttempts
    /\ Become(d, "failed")
    /\ UNCHANGED <<tries, got, single>>

\* The deliveries of a webhook go together.
Delete(gone) ==
    /\ \A d \in gone : fate[d] # "none"
    /\ fate' = [d \in Delivery |-> IF d \in gone THEN "deleted" ELSE fate[d]]
    /\ UNCHANGED <<tries, got, single>>

Share ==
    /\ single' = FALSE
    /\ UNCHANGED <<fate, tries, got>>

Next ==
    \/ \E d \in Delivery : Offer(d) \/ Try(d) \/ Confirm(d) \/ GiveUp(d)
    \/ \E gone \in SUBSET Delivery : Delete(gone)
    \/ Share

Spec == Init /\ [][Next]_vars
=============================================================================
