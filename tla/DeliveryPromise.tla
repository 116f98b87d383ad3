-------------------------- MODULE DeliveryPromise --------------------------
(***************************************************************************)
(* What the dispatcher promises about one delivery, with no goroutines,     *)
(* queue, table or attempts: a delivery that is owed stays pending until    *)
(* the subscriber accepts it or the schedule gives up on it; one given up   *)
(* on can be accepted late or revived by hand; an accepted one is settled   *)
(* for good.  It is void only when it was taken away, or when a breakdown   *)
(* (a kill, a failing store, a drain cut short) lost it.                    *)
(***************************************************************************)
CONSTANT Deliveries

VARIABLES
    promise,    \* delivery -> "none", "pending", "dead", "accepted" or "void"
    withdrawn,  \* deliveries whose hook or account is gone, or that were purged
    broken      \* has something broken down?

vars == <<promise, withdrawn, broken>>

Init ==
    /\ promise = [d \in Deliveries |-> "none"]
    /\ withdrawn = {}
    /\ broken = FALSE

\* One step may move several deliveries: listing an event's hooks, a cascade.
Moves(d) ==
    <<promise[d], promise'[d]>> \in
        {<<"none", "pending">>, <<"pending", "accepted">>, <<"pending", "dead">>,
         <<"dead", "pending">>, <<"dead", "accepted">>}

Voids(d) ==
    /\ promise[d] \in {"pending", "dead"}
    /\ promise'[d] = "void"
    /\ d \in withdrawn' \/ broken'

Next ==
    /\ \A d \in Deliveries :
          promise'[d] = promise[d] \/ Moves(d) \/ Voids(d)
    /\ promise' \in [Deliveries -> {"none", "pending", "dead", "accepted", "void"}]
    /\ withdrawn \subseteq withdrawn'
    /\ broken => broken'

Spec == Init /\ [][Next]_vars
=============================================================================
