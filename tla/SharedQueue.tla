---------------------------- MODULE SharedQueue -----------------------------
(***************************************************************************)
(* What the offline queue promises when two consumers work it off, with no *)
(* claims, threads, breakers, crashes or broker in it.  An item keeps the  *)
(* task it was submitted with, nothing is published that was not           *)
(* submitted, an item is finished only after it was published or its task  *)
(* was put on a card, it fails at most MaxAttempts times whoever tries it, *)
(* and one step settles one item.  Cards are written without an item too.  *)
(* An item may be published and a task written more than once; when a      *)
(* publication is repeated is said by DurableOutbox.                       *)
(***************************************************************************)
EXTENDS Naturals

CONSTANTS Items, Tasks, NoTask, MaxAttempts

VARIABLES
    state,      \* "none", "open" or "done"
    task,       \* what each item asks for
    attempts,   \* failed attempts
    published,  \* items published at least once
    written     \* tasks put on a card at least once

queueVars == <<state, task, attempts, published, written>>

QueueInit ==
    /\ state = [i \in Items |-> "none"]
    /\ task = [i \in Items |-> NoTask]
    /\ attempts = [i \in Items |-> 0]
    /\ published = {}
    /\ written = {}

Live(i) == state[i] = "open" /\ attempts[i] < MaxAttempts

Submit(i, t) ==
    /\ state[i] = "none"
    /\ state' = [state EXCEPT ![i] = "open"]
    /\ task' = [task EXCEPT ![i] = t]
    /\ UNCHANGED <<attempts, published, written>>

Publish(i) ==
    /\ state[i] # "none"
    /\ published' = published \cup {i}
    /\ UNCHANGED <<state, task, attempts, written>>

Write(t) ==
    /\ written' = written \cup {t}
    /\ UNCHANGED <<state, task, attempts, published>>

Fail(i) ==
    /\ Live(i)
    /\ attempts' = [attempts EXCEPT ![i] = @ + 1]
    /\ UNCHANGED <<state, task, published, written>>

Finish(i) ==
    /\ Live(i)
    /\ i \in published \/ task[i] \in written
    /\ state' = [state EXCEPT ![i] = "done"]
    /\ UNCHANGED <<task, attempts, published, written>>

QueueNext ==
    \/ \E i \in Items, t \in Tasks : Submit(i, t)
    \/ \E i \in Items : Publish(i) \/ Fail(i) \/ Finish(i)
    \/ \E t \in Tasks : Write(t)

QueueSpec == QueueInit /\ [][QueueNext]_queueVars
=============================================================================
