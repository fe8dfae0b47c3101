------------------------------ MODULE BookFeed ------------------------------
(***************************************************************************)
(* What a local order book promises: while it is live it is the exchange's *)
(* book at some moment, and it moves from that moment to the very next one *)
(* only.  It may go blind at any time, and comes back at a moment that is  *)
(* not earlier than the one it knew.                                       *)
(***************************************************************************)
EXTENDS Naturals, Sequences

CONSTANT Levels       \* price levels, of both sides

VARIABLES books,      \* the exchange's book after each of its changes
          live,       \* whether the local book may be used
          pos,        \* the last change the local side has seen, 0 if none
          copy        \* the local book, empty while blind

vars == <<books, live, pos, copy>>

Init == /\ books \in {<<b>> : b \in SUBSET Levels}
        /\ live = FALSE
        /\ pos = 0
        /\ copy = {}

Blinded == /\ live' = FALSE
           /\ copy' = {}
           /\ pos' \in {pos, 0}

Publish == /\ \E b \in SUBSET Levels : books' = Append(books, b)
           /\ Blinded \/ UNCHANGED <<live, pos, copy>>

Follow == /\ live
          /\ pos + 1 \in DOMAIN books
          /\ pos' = pos + 1
          /\ copy' = books[pos + 1]
          /\ UNCHANGED <<books, live>>

GoBlind == Blinded /\ UNCHANGED books

Resync == /\ ~live
          /\ live' = TRUE
          /\ \E i \in DOMAIN books : /\ i >= pos
                                     /\ pos' = i
                                     /\ copy' = books[i]
          /\ UNCHANGED books

Next == Publish \/ Follow \/ GoBlind \/ Resync

Spec == Init /\ [][Next]_vars
=============================================================================
