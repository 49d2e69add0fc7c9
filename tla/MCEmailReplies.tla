--------------------------- MODULE MCEmailReplies ---------------------------
(* A ticket with two messages that reuse one Message-ID with different    *)
(* content, and a second ticket, or an automatic message, besides.         *)
EXTENDS EmailReplies, TLC

CONSTANTS t1, m1, m2, m3, k1, k2

ReusedKey == [m \in Messages |-> IF m = m3 THEN k2 ELSE k1]
Symmetry == Permutations(Workers)

OneTicket == [m \in Messages |-> t1]
=============================================================================
