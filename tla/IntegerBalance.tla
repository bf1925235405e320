--------------------------- MODULE IntegerBalance ---------------------------
(***************************************************************************)
(* What a stored balance promises: a margin and a position that are        *)
(* integers, moved by amounts and by the funding since an index.           *)
(***************************************************************************)
EXTENDS P1Math

CONSTANTS
    Amount,      \* amounts by which a margin or a position is moved
    IndexValue   \* magnitudes of the index

VARIABLES margin, position, index

Init == margin = 0 /\ position = 0 /\ index = 0

MoveMargin(amount) ==
    /\ FitsUint120(margin + amount)
    /\ margin' = margin + amount
    /\ UNCHANGED <<position, index>>

MovePosition(amount) ==
    /\ FitsUint120(position + amount)
    /\ position' = position + amount
    /\ UNCHANGED <<margin, index>>

Settle(newIndex) ==
    /\ FitsUint120(margin + Settlement(newIndex - index, position))
    /\ margin' = margin + Settlement(newIndex - index, position)
    /\ index' = newIndex
    /\ UNCHANGED position

Next ==
    \/ \E amount \in Amount :
          \/ MoveMargin(amount) \/ MoveMargin(-amount)
          \/ MovePosition(amount) \/ MovePosition(-amount)
    \/ \E newIndex \in IndexValue : Settle(newIndex) \/ Settle(-newIndex)

Spec == Init /\ [][Next]_<<margin, position, index>>
=============================================================================
