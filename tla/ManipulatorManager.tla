------------------------ MODULE ManipulatorManager ------------------------
(***************************************************************************)
(* The manipulator manager, the basic manipulator on momentary-switch     *)
(* (key) events and the mouse_basic manipulator on pointing motions.       *)
(* Their code is not part of src/; the definitions follow spec sections    *)
(* 4.3 (basic), 4.4 (mouse_basic), 4.5 (manager) and 5 (single-threaded    *)
(* dispatcher).                                                            *)
(*                                                                         *)
(*  - manipulators: the ordered list the manager owns;                     *)
(*  - activations: one record per physical key that is down, holding the   *)
(*    key-downs emitted for it (owner "manipulator"), or the key itself    *)
(*    when no manipulator matched and the event was forwarded unchanged    *)
(*    (owner "forwarded");                                                 *)
(*  - pressed: the physical keys held on each device;                      *)
(*  - sink: per key, key-downs minus key-ups emitted to the output sink;   *)
(*  - out: the key events the last key or reload step emitted, in order;  *)
(*  - pointer: the pointing_motion the last step routed, if any: its       *)
(*    device, its input and the motion events emitted (none, or one).      *)
(*                                                                         *)
(* Modifier flags, conditions other than device_if, and timers are left    *)
(* out: simple modifications carry optional = {any} and no timers.         *)
(***************************************************************************)
EXTENDS Integers, Sequences, SequencesExt, FiniteSets

CONSTANTS
  Devices,      \* physical devices (model values)
  Keys,         \* key codes (model values)
  NoDevice,     \* device field of a manipulator without a device_if condition
  Motions       \* the pointing motions a device may report

VARIABLES manipulators, activations, pressed, sink, out, pointer

mgrVars == <<manipulators, activations, pressed, sink, out, pointer>>

Axes == {"x", "y", "vertical_wheel", "horizontal_wheel"}
Motion == [Axes -> Int]

BasicManipulator ==
  [kind: {"basic"}, from: Keys, to: Seq(Keys), device: Devices \cup {NoDevice}]
MouseBasicManipulator ==
  [kind: {"mouse_basic"}, device: Devices,
   flip: SUBSET Axes, swap: SUBSET {"xy", "wheels"}, discard: SUBSET Axes]
Manipulator == BasicManipulator \cup MouseBasicManipulator

Activation ==
  [device: Devices, key: Keys, to: Seq(Keys), owner: {"manipulator", "forwarded"}]

OutEvent == [dir: {"down", "up"}, key: Keys]

(* The value of pointer after a step that routed no pointing motion.       *)
NoMotionRouted == [device |-> NoDevice, input |-> <<>>, output |-> <<>>]

(* Number of times key k occurs in the to-list s.                          *)
Occurrences(s, k) == Cardinality({i \in 1..Len(s) : s[i] = k})

(* The sink after emitting every key of s once in direction delta.         *)
Emit(snk, s, delta) == [k \in Keys |-> snk[k] + delta * Occurrences(s, k)]

(* Mutant: key-ups emitted in to-list order instead of reverse.            *)
KeyUpsOfInOrder(acts) ==
  LET s == SetToSeq(acts)
  IN FlattenSeq([i \in 1..Len(s) |-> s[i].to])

(* The key-ups that wind down the activations acts: each one's to-list in *)
(* reverse; activations are distinct records, so none is lost.            *)
KeyUpsOf(acts) ==
  LET s == SetToSeq(acts)
  IN FlattenSeq([i \in 1..Len(s) |-> Reverse(s[i].to)])

Downs(s) == [i \in 1..Len(s) |-> [dir |-> "down", key |-> s[i]]]
Ups(s) == [i \in 1..Len(s) |-> [dir |-> "up", key |-> s[i]]]

(* Spec 4.3 matching: the from key is equal and every condition holds; the *)
(* only condition of a simple modification is device_if.                   *)
Matches(m, d, k) ==
  /\ m.kind = "basic"
  /\ m.from = k
  /\ m.device \in {NoDevice, d}

(* The index of the first manipulator that matches, 0 if none (spec 4.3    *)
(* "the first one (authoring order) that matches wins").                   *)
FirstMatch(ms, d, k) ==
  LET idx == {i \in 1..Len(ms) : Matches(ms[i], d, k)}
  IN IF idx = {} THEN 0 ELSE Min(idx)

(* manipulate() on a key-down: the first matching manipulator emits its    *)
(* to-list in authoring order and records an activation; without a match  *)
(* the event is forwarded unchanged.                                       *)
ManipulateKeyDown(d, k) ==
  /\ k \notin pressed[d]
  /\ LET i == FirstMatch(manipulators, d, k)
         a == IF i = 0
                THEN [device |-> d, key |-> k, to |-> <<k>>, owner |-> "forwarded"]
                ELSE [device |-> d, key |-> k, to |-> manipulators[i].to,
                      owner |-> "manipulator"]
     IN /\ activations' = activations \cup {a}
        /\ sink' = Emit(sink, a.to, 1)
        /\ out' = Downs(a.to)
  /\ pressed' = [pressed EXCEPT ![d] = @ \cup {k}]
  /\ pointer' = NoMotionRouted
  /\ UNCHANGED manipulators

(* manipulate() on a key-up: the activation of that physical key emits the *)
(* key-ups of its to-list in reverse order and is dropped.                 *)
ManipulateKeyUp(d, k) ==
  /\ k \in pressed[d]
  /\ LET own == {a \in activations : a.device = d /\ a.key = k}
         ups == KeyUpsOf(own)
     IN /\ activations' = activations \ own
        /\ sink' = Emit(sink, ups, -1)
        /\ out' = Ups(ups)
  /\ pressed' = [pressed EXCEPT ![d] = @ \ {k}]
  /\ pointer' = NoMotionRouted
  /\ UNCHANGED manipulators

(* Mutant: invalidation emits the key-ups but keeps the to-lists, so the   *)
(* later physical release emits them again.                                *)
WoundDownKeepsTo(acts) == acts

(* Mutant: invalidation empties forwarded activations too, so a forwarded  *)
(* key-down is never taken back.                                           *)
WoundDownAll(acts) == {[a EXCEPT !.to = <<>>] : a \in acts}

(* invalidate_manipulators(): every activation of a manipulator winds down *)
(* (its key-ups are emitted) and stays, emptied, so that the later release *)
(* of the physical key emits nothing (spec 4.5 and scenario S5).          *)
WoundDown(acts) ==
  {IF a.owner = "manipulator" THEN [a EXCEPT !.to = <<>>] ELSE a : a \in acts}

WindDownKeyUps(acts) == KeyUpsOf({a \in acts : a.owner = "manipulator"})

(* A configuration reload: invalidate_manipulators() followed by push_back *)
(* of every manipulator of the new list, with no event routed in between   *)
(* (spec 5).                                                               *)
Reconfigure(ms) ==
  /\ manipulators' = ms
  /\ activations' = WoundDown(activations)
  /\ sink' = Emit(sink, WindDownKeyUps(activations), -1)
  /\ out' = Ups(WindDownKeyUps(activations))
  /\ pointer' = NoMotionRouted
  /\ UNCHANGED pressed

(* mouse_basic on a pointing_motion (spec 4.4): the discarded axes set to  *)
(* 0, then x and y and the two wheels exchanged as swap says, then the     *)
(* flipped axes negated.                                                   *)
Discarded(m, discard) == [a \in Axes |-> IF a \in discard THEN 0 ELSE m[a]]

Swapped(m, swap) ==
  LET xy == IF "xy" \in swap THEN [m EXCEPT !["x"] = m["y"], !["y"] = m["x"]] ELSE m
  IN IF "wheels" \in swap
       THEN [xy EXCEPT !["vertical_wheel"] = xy["horizontal_wheel"],
                       !["horizontal_wheel"] = xy["vertical_wheel"]]
       ELSE xy

Flipped(m, flip) == [a \in Axes |-> IF a \in flip THEN -m[a] ELSE m[a]]

MouseBasicApply(mb, m) == Flipped(Swapped(Discarded(m, mb.discard), mb.swap), mb.flip)

(* The first manipulator that matches a pointing_motion from d: a          *)
(* mouse_basic whose device_if names d (basic manipulators match only      *)
(* their from key); 0 if none.                                             *)
FirstMotionMatch(ms, d) ==
  LET idx == {i \in 1..Len(ms) : ms[i].kind = "mouse_basic" /\ ms[i].device = d}
  IN IF idx = {} THEN 0 ELSE Min(idx)

(* manipulate() on a pointing_motion: the first matching mouse_basic emits *)
(* the transformed motion, or nothing when every axis became 0; without a  *)
(* match the event is forwarded unchanged.  Key state is not touched.      *)
ManipulatePointingMotion(d, m) ==
  /\ LET i == FirstMotionMatch(manipulators, d)
         r == IF i = 0 THEN m ELSE MouseBasicApply(manipulators[i], m)
     IN pointer' = [device |-> d, input |-> m,
                    output |-> IF \A a \in Axes : r[a] = 0 THEN <<>> ELSE <<r>>]
  /\ UNCHANGED <<manipulators, activations, pressed, sink, out>>

MgrInit ==
  /\ manipulators = <<>>
  /\ activations = {}
  /\ pressed = [d \in Devices |-> {}]
  /\ sink = [k \in Keys |-> 0]
  /\ out = <<>>
  /\ pointer = NoMotionRouted

MgrTypeOK ==
  /\ manipulators \in Seq(Manipulator)
  /\ activations \subseteq Activation
  /\ pressed \in [Devices -> SUBSET Keys]
  /\ sink \in [Keys -> Nat]   \* never more key-ups than key-downs
  /\ out \in Seq(OutEvent)
  /\ pointer.output \in Seq(Motion) /\ Len(pointer.output) <= 1
=============================================================================
