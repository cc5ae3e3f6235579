----------------------- MODULE MCSimpleModifications -----------------------
(***************************************************************************)
(* Model for SimpleModificationsManipulatorManager: two devices, three     *)
(* keys, and profiles that exercise device-scoped and profile-level pairs  *)
(* for the same key, pairs that fail to build, a key disabled by an empty  *)
(* to-list, a to-list of two keys, a mouse_basic entry, and a key remapped *)
(* onto a key that is also pressed physically.                             *)
(***************************************************************************)
EXTENDS SimpleModificationsManipulatorManager

CONSTANTS d1, d2, k1, k2, k3   \* model values

NoMouse == [f \in DOMAIN (CHOOSE ms \in MouseSettings : TRUE) |-> FALSE]
Arr(s) == [shape |-> "array", keys |-> s]
Obj(k) == [shape |-> "object", key |-> k]

\* caps_lock -> escape on d1, caps_lock -> left_control for the profile;
\* d1 flips x and y, d2 discards x and y
MCProfileA ==
  [devices |-> << [id |-> d1, pairs |-> << [from |-> k1, to |-> Arr(<<k2>>)] >>,
                   mouse |-> [NoMouse EXCEPT !.mouse_flip_x = TRUE,
                                             !.mouse_flip_y = TRUE]],
                  [id |-> d2, pairs |-> <<>>,
                   mouse |-> [NoMouse EXCEPT !.mouse_discard_x = TRUE,
                                             !.mouse_discard_y = TRUE]] >>,
   pairs |-> << [from |-> k1, to |-> Arr(<<k3>>)],
                [from |-> k2, to |-> Arr(<<>>)] >>]

\* d2 has a broken pair ahead of a good one, discards x and the vertical
\* wheel and swaps x and y; d1 swaps the wheels and flips x and the
\* vertical wheel; the profile has an object-shaped pair ahead of an
\* array-shaped one
MCProfileB ==
  [devices |-> << [id |-> d2, pairs |-> << [from |-> k1, to |-> Malformed],
                                          [from |-> k1, to |-> Arr(<<k2, k3>>)] >>,
                   mouse |-> [NoMouse EXCEPT !.mouse_discard_x = TRUE,
                                             !.mouse_discard_vertical_wheel = TRUE,
                                             !.mouse_swap_xy = TRUE]],
                  [id |-> d1, pairs |-> <<>>,
                   mouse |-> [NoMouse EXCEPT !.mouse_swap_wheels = TRUE,
                                             !.mouse_flip_x = TRUE,
                                             !.mouse_flip_vertical_wheel = TRUE]] >>,
   pairs |-> << [from |-> k3, to |-> Obj(k1)],
                [from |-> k3, to |-> Arr(<<k1>>)],
                [from |-> Malformed, to |-> Arr(<<k2>>)] >>]

MCProfiles == {MCProfileA, MCProfileB}

\* One motion with a distinct non-zero value on every axis.  Under profile
\* A, d1 emits (-1, -2, 3, 4) and d2 (0, 0, 3, 4); under profile B, d1
\* emits (-1, 2, -4, 3) and d2 (2, 0, 0, 4).  Within each group of
\* getters (flip, swap, discard) no two flags are set on the same devices,
\* so a block that reads another block's getter changes an output, and so
\* does any other order of discard, swap and flip.
MCMotions == { [x |-> 1, y |-> 2, vertical_wheel |-> 3, horizontal_wheel |-> 4],
               [x |-> 1, y |-> 2, vertical_wheel |-> 0, horizontal_wheel |-> 0] }

\* Scenario S1: caps_lock -> {"key_code": "left_control"}
MCProfileS1 ==
  [devices |-> <<>>, pairs |-> << [from |-> k1, to |-> Obj(k3)] >>]
MCProfilesS1 == {MCProfileS1}
=============================================================================
