------------------------- MODULE MCGrabberDispatcher -------------------------
(***************************************************************************)
(* Two devices, two keys and two profiles behind the dispatcher queue:    *)
(* profile A remaps k1 on d1 only onto k2 and sends k2 (on either device)   *)
(* to the to-list k1 k2; profile B forwards k1 and disables k2.  A reload  *)
(* between the events of a press changes what the release finds, and both  *)
(* devices can hold key-downs of the same output key.                      *)
(***************************************************************************)
EXTENDS GrabberDispatcher

CONSTANTS d1, d2, k1, k2   \* model values

NoMouse == [f \in DOMAIN (CHOOSE ms \in MouseSettings : TRUE) |-> FALSE]
Arr(s) == [shape |-> "array", keys |-> s]

MCProfileA ==
  [devices |-> << [id |-> d1, pairs |-> << [from |-> k1, to |-> Arr(<<k2>>)] >>,
                   mouse |-> NoMouse] >>,
   pairs |-> << [from |-> k2, to |-> Arr(<<k1, k2>>)] >>]

MCProfileB ==
  [devices |-> <<>>,
   pairs |-> << [from |-> Malformed, to |-> Arr(<<k1>>)],
                [from |-> k2, to |-> Arr(<<>>)] >>]

MCProfiles == {MCProfileA, MCProfileB}
=============================================================================
