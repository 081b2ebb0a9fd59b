------------------------------- MODULE Outbox -------------------------------
(***************************************************************************)
(* What the service promises about one email, whoever executes it: it is   *)
(* open until a single owner takes it; the owner delivers it, gives it     *)
(* back, or abandons it (by failing it, by crashing); and once it is       *)
(* delivered or closed nobody takes it again.  EmailDelivery implements    *)
(* this with a Postgres row, a BullMQ job and processes that crash.        *)
(***************************************************************************)
EXTENDS Naturals

CONSTANT Emails

VARIABLES
    phase,       \* where the email is
    deliveries   \* how often it was delivered

Phases == {"open", "owned", "delivered", "closed"}

Init ==
    /\ phase = [e \in Emails |-> "open"]
    /\ deliveries = [e \in Emails |-> 0]

Move(e, from, to) == phase[e] = from /\ phase' = [phase EXCEPT ![e] = to]

Take(e)     == Move(e, "open", "owned") /\ UNCHANGED deliveries
GiveBack(e) == Move(e, "owned", "open") /\ UNCHANGED deliveries
Withdraw(e) == Move(e, "open", "closed") /\ UNCHANGED deliveries
Deliver(e)  ==
    /\ Move(e, "owned", "delivered")
    /\ deliveries' = [deliveries EXCEPT ![e] = @ + 1]

\* A crash abandons every email the process owned at once.
Abandon(S) ==
    /\ \A e \in S : phase[e] = "owned"
    /\ phase' = [e \in Emails |-> IF e \in S THEN "closed" ELSE phase[e]]
    /\ UNCHANGED deliveries

Next ==
    \/ \E e \in Emails : Take(e) \/ GiveBack(e) \/ Deliver(e) \/ Withdraw(e)
    \/ \E S \in SUBSET Emails : Abandon(S)

Spec == Init /\ [][Next]_<<phase, deliveries>>
=============================================================================
