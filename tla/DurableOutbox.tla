--------------------------- MODULE DurableOutbox ----------------------------
(***************************************************************************)
(* What the offline queue promises to the rest of the console, with no     *)
(* passes, claims, crashes or broker in it: an action that was submitted   *)
(* is kept until it is done or has failed MaxAttempts times, it is done    *)
(* only after its event was published, and neither outcome is revised.     *)
(*                                                                         *)
(* Publication is at least once, and may come late, even after the action  *)
(* was given up.  The receiver does not take an item again while it knows  *)
(* it, but it may forget any item at any time, and a restart between a     *)
(* publication and the end of its item has it published twice.  An outbox  *)
(* that never sends twice is NOT what this module describes.               *)
(***************************************************************************)
EXTENDS Naturals

CONSTANTS Items, MaxAttempts

VARIABLES
    state,      \* "none", "open" or "done"
    attempts,   \* failed attempts
    sent,       \* items published at least once
    again,      \* items published more than once
    known       \* items the receiver knows and does not take again

outboxVars == <<state, attempts, sent, again, known>>

OutboxInit ==
    /\ state = [i \in Items |-> "none"]
    /\ attempts = [i \in Items |-> 0]
    /\ sent = {}
    /\ again = {}
    /\ known = {}

Live(i) == state[i] = "open" /\ attempts[i] < MaxAttempts

Submit(i) ==
    /\ state[i] = "none"
    /\ state' = [state EXCEPT ![i] = "open"]
    /\ UNCHANGED <<attempts, sent, again, known>>

(* The first publication of an item, or another one of an item that was    *)
(* forgotten.                                                              *)
Publish(i) ==
    /\ state[i] # "none"
    /\ i \notin known
    /\ sent' = sent \cup {i}
    /\ again' = IF i \in sent THEN again \cup {i} ELSE again
    /\ known' = known \cup {i}
    /\ UNCHANGED <<state, attempts>>

Forget == known' \subseteq known

ForgetOnly == Forget /\ UNCHANGED <<state, attempts, sent, again>>

(* A process that dies as it settles an item takes the receiver with it.   *)
Fail(i) ==
    /\ Live(i)
    /\ attempts' = [attempts EXCEPT ![i] = @ + 1]
    /\ Forget
    /\ UNCHANGED <<state, sent, again>>

Finish(i) ==
    /\ Live(i)
    /\ i \in sent
    /\ state' = [state EXCEPT ![i] = "done"]
    /\ Forget
    /\ UNCHANGED <<attempts, sent, again>>

OutboxNext ==
    \/ \E i \in Items : Submit(i) \/ Publish(i) \/ Fail(i) \/ Finish(i)
    \/ ForgetOnly

OutboxSpec == OutboxInit /\ [][OutboxNext]_outboxVars
=============================================================================
