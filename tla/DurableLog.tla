----------------------------- MODULE DurableLog -----------------------------
(***************************************************************************)
(* What the journaled kernel promises the code above it, with no journal,  *)
(* no checkpoint and no recovery in sight: a log of transactions that only *)
(* grows, each on top of the last, and a view of it.                       *)
(*                                                                         *)
(* A transaction is durable before it is visible, and at most one is       *)
(* durable and not yet visible: the one whose outcome its caller does not  *)
(* know.  A transaction answered as failed is never durable, then or       *)
(* later.  A stop settles the one under way, either way, and an open shows *)
(* all that is durable and nothing else.                                   *)
(***************************************************************************)
EXTENDS Naturals

VARIABLES
    up,       \* whether the kernel serves
    durable,  \* the transactions a barrier passed: records with a first and a
              \* last position
    visible,  \* those a reader loads
    failed    \* those answered as failed

vars == <<up, durable, visible, failed>>

OnTop(t, S) == \A u \in S : u.last < t.first

\* One transaction more is durable, on positions past every other's.
Grows ==
    \E t \in durable' \ durable :
        /\ durable' = durable \cup {t}
        /\ t \notin failed /\ t.first <= t.last /\ OnTop(t, durable)

Init == up = FALSE /\ durable = {} /\ visible = {} /\ failed = {}

\* A transaction passes the barrier.
Persist ==
    /\ up /\ visible = durable /\ Grows
    /\ UNCHANGED <<up, visible, failed>>

\* It is installed in the root, and its caller acknowledged.
Show ==
    /\ up /\ visible' = durable
    /\ UNCHANGED <<up, durable, failed>>

\* A transaction is answered as failed: it is not durable.
Fail ==
    /\ up /\ failed \subseteq failed' /\ failed' \cap durable = {}
    /\ UNCHANGED <<up, durable, visible>>

\* The process stops; the transaction under way may turn out durable.
Stop ==
    /\ up /\ up' = FALSE /\ visible' = {}
    /\ durable' = durable \/ (visible = durable /\ Grows)
    /\ UNCHANGED failed

Open ==
    /\ ~up /\ up' = TRUE /\ visible' = durable
    /\ UNCHANGED <<durable, failed>>

Next == Persist \/ Show \/ Fail \/ Stop \/ Open

Spec == Init /\ [][Next]_vars
=============================================================================
