---------------------------- MODULE Notification ----------------------------
(***************************************************************************)
(* What the webhook outbox promises about its notifications, seen from     *)
(* outside: a delivery id whose content may still change until the first   *)
(* request, then reaches its receiver any number of times with that one    *)
(* content, and counts as delivered only if it did.  That is at-least-once *)
(* delivery that may be given up, or withdrawn with its subscription.      *)
(***************************************************************************)
EXTENDS Naturals

CONSTANTS
    Notes,      \* delivery ids
    Contents    \* what a notification may say

VARIABLES
    phase,     \* of each notification, see Phase
    content,   \* what the next request will say
    received   \* contents that reached the receiver under the id

vars == <<phase, content, received>>

Phase == {"unborn", "open", "delivered", "abandoned", "withdrawn"}

Init ==
    /\ phase = [n \in Notes |-> "unborn"]
    /\ content \in [Notes -> Contents]
    /\ received = [n \in Notes |-> {}]

Unborn == {n \in Notes : phase[n] = "unborn"}

\* Nobody has seen it yet.
Revisable == {n \in Notes : phase[n] = "open" /\ received[n] = {}}

\* An update is queued for several subscriptions at once: as a notification
\* of its own, or in the place of one that nobody has seen.
Publish ==
    \E fresh \in SUBSET Unborn, revised \in SUBSET Revisable :
        /\ phase' = [n \in Notes |-> IF n \in fresh THEN "open" ELSE phase[n]]
        /\ content' \in [Notes -> Contents]
        /\ \A n \in Notes \ (fresh \cup revised) : content'[n] = content[n]
        /\ UNCHANGED received

\* A request reaches the receiver; it may have been under way while its
\* notification was withdrawn.
Transmit(n) ==
    /\ phase[n] \in {"open", "withdrawn"}
    /\ received' = [received EXCEPT ![n] = @ \cup {content[n]}]
    /\ UNCHANGED <<phase, content>>

Confirm(n) ==
    /\ phase[n] = "open"
    /\ content[n] \in received[n]
    /\ phase' = [phase EXCEPT ![n] = "delivered"]
    /\ UNCHANGED <<content, received>>

Abandon(n) ==
    /\ phase[n] = "open"
    /\ phase' = [phase EXCEPT ![n] = "abandoned"]
    /\ UNCHANGED <<content, received>>

\* Their webhook or their ticket is deleted.
Withdraw ==
    \E gone \in SUBSET (Notes \ Unborn) :
        /\ phase' = [n \in Notes |-> IF n \in gone THEN "withdrawn" ELSE phase[n]]
        /\ UNCHANGED <<content, received>>

Next ==
    \/ Publish
    \/ Withdraw
    \/ \E n \in Notes : Transmit(n) \/ Confirm(n) \/ Abandon(n)

Spec == Init /\ [][Next]_vars
=============================================================================
