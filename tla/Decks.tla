-------------------------------- MODULE Decks --------------------------------
(***************************************************************************)
(* What a client that polls its deck may rely on, whether a search fills   *)
(* it or a prepared inventory: a deck opens once and shows cards only      *)
(* while it is open; it never mixes the cards of an inventory with those   *)
(* of a search, and those of an inventory only grow; it has one end, which *)
(* leaves it its cards; withdrawn, it loses them and gets no others; and   *)
(* it is dropped for good.                                                 *)
(***************************************************************************)
CONSTANTS
    Jobs,      \* one for each deck
    Cards,
    Prepared   \* those that come from an inventory

VARIABLE deck

Empty(state) == [state |-> state, cards |-> {}]

Init == deck = [j \in Jobs |-> Empty("none")]

\* Decks J lose their cards.
Emptied(J, state) == [j \in Jobs |-> IF j \in J THEN Empty(state) ELSE deck[j]]

\* Decks lose their inputs, also one that was about to open.
Withdraw(J) ==
    /\ \A j \in J : deck[j].state # "gone"
    /\ deck' = Emptied(J, "withdrawn")

\* Decks are forgotten: evicted, never needed, or lost with the process.
Drop(J) == deck' = Emptied(J, "gone")

\* A deck opens, and open ones may be withdrawn for it.
Open(j, J) ==
    /\ deck[j].state = "none"
    /\ \A k \in J : deck[k].state = "open"
    /\ deck' = [Emptied(J, "withdrawn") EXCEPT ![j] = Empty("open")]

\* A search replaces its list, an inventory adds to it.
Continues(old, new) ==
    \/ old \cup new \subseteq Cards \ Prepared
    \/ old \subseteq new /\ new \subseteq Prepared

\* Cards are shown; they may be the last ones.
Show(j) ==
    /\ deck[j].state = "open"
    /\ \E C \in SUBSET Cards, next \in {"open", "complete"} :
          /\ Continues(deck[j].cards, C)
          /\ deck' = [deck EXCEPT ![j] = [state |-> next, cards |-> C]]

Close(j, end) ==
    /\ deck[j].state = "open"
    /\ deck' = [deck EXCEPT ![j].state = end]

Next ==
    \/ \E J \in SUBSET Jobs : Withdraw(J) \/ Drop(J)
    \/ \E j \in Jobs :
          \/ \E end \in {"complete", "error"} : Close(j, end)
          \/ \E J \in SUBSET (Jobs \ {j}) : Open(j, J)
          \/ Show(j)

Spec == Init /\ [][Next]_deck
===============================================================================
