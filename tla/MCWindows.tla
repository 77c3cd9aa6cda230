------------------------------ MODULE MCWindows ------------------------------
(* Instances of AESWindows for TLC. *)
EXTENDS AESWindows
KindsNS == [w \in Apps |-> IF w = 1 THEN {"NAME", "VSLIDE"} ELSE {}]
\* on the screen, overlapping, inside another, off it at the right and the
\* bottom, by one at the left
PlacesHere ==
  <<{Rect(2, 3, 4, 4), Rect(2, 3, 5, 5), Rect(-1, 2, 4, 4)},
    {Rect(0, 4, 4, 4), Rect(0, 3, 4, 5), Rect(4, 5, 4, 4)}>>
DialogsHere == {Rect(1, 3, 4, 3)}
=============================================================================
