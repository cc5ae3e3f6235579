--------------------------- MODULE KeyOutputProtocol ---------------------------
(***************************************************************************)
(* What the manipulator pipeline promises the virtual HID output sink for  *)
(* momentary-switch events, whatever the configuration: a physical key-down *)
(* emits some key-downs, and those, and only those, are taken back by      *)
(* key-ups when the physical key is released or when the manipulators are  *)
(* invalidated while it is held, whichever comes first (spec 4.5, 8.5).    *)
(*                                                                         *)
(*  - held[d]: the physical keys down on device d;                         *)
(*  - owed[<<d, k>>]: the keys whose key-ups the press of k on d still     *)
(*    owes;                                                                *)
(*  - sink[k]: key-downs minus key-ups of k the output has received;        *)
(*  - out: the events the last step emitted, in order.                     *)
(***************************************************************************)
EXTENDS Integers, Sequences, SequencesExt, FiniteSets

CONSTANTS Devices, Keys, MaxTo   \* MaxTo: longest to-list a press may emit

VARIABLES held, owed, sink, out

vars == <<held, owed, sink, out>>

Occurs(s, k) == Cardinality({i \in 1..Len(s) : s[i] = k})
Down(s) == [i \in 1..Len(s) |-> [dir |-> "down", key |-> s[i]]]
Up(s) == [i \in 1..Len(s) |-> [dir |-> "up", key |-> s[i]]]

Init ==
  /\ held = [d \in Devices |-> {}]
  /\ owed = [dk \in Devices \X Keys |-> <<>>]
  /\ sink = [k \in Keys |-> 0]
  /\ out = <<>>

(* A physical key-down emits the key-downs of some to-list, in order.      *)
Press(d, k) ==
  /\ k \notin held[d]
  /\ \E s \in BoundedSeq(Keys, MaxTo) :
       /\ owed' = [owed EXCEPT ![<<d, k>>] = s]
       /\ sink' = [j \in Keys |-> sink[j] + Occurs(s, j)]
       /\ out' = Down(s)
  /\ held' = [held EXCEPT ![d] = @ \cup {k}]

(* The physical key-up emits the key-ups still owed, in reverse order.     *)
Release(d, k) ==
  /\ k \in held[d]
  /\ owed' = [owed EXCEPT ![<<d, k>>] = <<>>]
  /\ sink' = [j \in Keys |-> sink[j] - Occurs(owed[<<d, k>>], j)]
  /\ out' = Up(Reverse(owed[<<d, k>>]))
  /\ held' = [held EXCEPT ![d] = @ \ {k}]

(* Invalidation winds down the presses in S: each one's key-ups are        *)
(* emitted now, in reverse order, the presses one after another in some   *)
(* order, and nothing more when the keys are released.                     *)
WindDown(S) ==
  /\ owed' = [dk \in DOMAIN owed |-> IF dk \in S THEN <<>> ELSE owed[dk]]
  /\ sink' = [j \in Keys |-> sink[j] - MapThenSumSet(LAMBDA dk : Occurs(owed[dk], j), S)]
  /\ \E order \in SetToSeqs(S) :
       out' = FlattenSeq([i \in 1..Len(order) |-> Up(Reverse(owed[order[i]]))])
  /\ UNCHANGED held

Next ==
  \/ \E d \in Devices, k \in Keys : Press(d, k) \/ Release(d, k)
  \/ \E S \in SUBSET {dk \in Devices \X Keys : owed[dk] # <<>>} : WindDown(S)

Spec == Init /\ [][Next]_vars

(* The sink holds exactly the key-downs still owed.                        *)
Balanced == \A k \in Keys : sink[k] = MapThenSumSet(LAMBDA dk : Occurs(owed[dk], k), Devices \X Keys)
=============================================================================
