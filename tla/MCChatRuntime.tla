--------------------------- MODULE MCChatRuntime ---------------------------
(* Small instances of ChatRuntime for TLC.                                  *)
EXTENDS ChatRuntime, TLC

CONSTANTS a1, a3, d1, d3, x1, x2, r1, r2

\* a1 is linked with d1; d3 is a new device for a1's number, which becomes
\* account a3 if a1 is gone when the link looks it up.
MCLinked  == [a \in Accounts |-> IF a = a1 THEN d1 ELSE None]
MCNumber  == [d \in NewDevices |-> a1]
MCFreshId == [d \in NewDevices |-> a3]

\* Actor names and requests are interchangeable; no property names one.
ActorSymmetry == Permutations(Actors) \cup Permutations(Requests)
=============================================================================
