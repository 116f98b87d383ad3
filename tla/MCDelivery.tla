----------------------------- MODULE MCDelivery -----------------------------
(* Small instances of Delivery for TLC.                                     *)
EXTENDS Delivery, TLC

CONSTANTS e1, e2, t1, h1, h2, a1, r1, r2

\* One account; h1 is a developer-wide webhook that hears everything, h2 a
\* notifier bound to the account that hears the message event only.
MCAccountOf == [e \in Events |-> a1]
MCBoundTo   == [h \in Hooks |-> IF h = h1 THEN AnyAccount ELSE a1]
MCFilter    == [h \in Hooks |-> IF h = h1 THEN Events ELSE {e1} \cap Events]

\* Redeliver requests are interchangeable; no property names one.
RequestSymmetry == Permutations({r1, r2})
=============================================================================
