--------------------------- MODULE MCChatMessages ---------------------------
(* Small instances of ChatMessages for TLC.                                 *)
EXTENDS ChatMessages, TLC

CONSTANTS s1, s2, k1, o1, o2, x1, x2, m1, m2, p1

\* s2 uses the key of s1 again: a retry, or by mistake for another operation.
MCKey   == [s \in Sends |-> k1]
MCOpers == [s \in Sends |-> IF s = s1 THEN {o1} ELSE {o1, o2}]

Of(kinds, ids) == [what : kinds, id : ids]

\* Echoes and receipts of what we sent, a peer's message and its edit.
MCWire ==
    Of({"text"}, {m1, m2, p1}) \cup Of({"edit", "reaction", "revoke"}, {p1})
        \cup Of({"delivery"}, Own) \cup {[what |-> "roster", id |-> None]}

MCSymmetry == Permutations(Actors) \cup Permutations(Own)
=============================================================================
