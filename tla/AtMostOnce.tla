----------------------------- MODULE AtMostOnce -----------------------------
(***************************************************************************)
(* What a buffered writer promises: every item it is given is stored once, *)
(* and stays, or is lost as if it had never been given; items that are     *)
(* written together are stored together or lost together.                  *)
(***************************************************************************)
CONSTANT Items

VARIABLE place      \* place[i]: where the item is

Init == place = [i \in Items |-> "outside"]

\* The items of S, of those in one of the places of From, go to another place.
Move(S, From, to) ==
    place' = [i \in Items |-> IF i \in S /\ place[i] \in From THEN to ELSE place[i]]

Give(S) == Move(S, {"outside"}, "pending")
Store(S) == Move(S, {"pending"}, "stored")
Lose(S) == Move(S, {"pending"}, "outside")

Next == \E S \in SUBSET Items : Give(S) \/ Store(S) \/ Lose(S)

Spec == Init /\ [][Next]_place

\* No item stays pending for ever.
Settles == \A i \in Items : place[i] = "pending" ~> place[i] # "pending"
=============================================================================
