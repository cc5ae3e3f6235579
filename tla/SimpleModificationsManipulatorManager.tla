------------------ MODULE SimpleModificationsManipulatorManager ------------------
(***************************************************************************)
(* simple_modifications_manipulator_manager::update() builds the           *)
(* manipulator list of a profile and hands it to the manipulator manager.  *)
(* This module composes that builder with ManipulatorManager: keys are     *)
(* pressed and released on several devices while the configuration is     *)
(* reloaded with any of a few profiles.                                    *)
(*                                                                         *)
(* A JSON string of a simple-modification pair is abstracted to what the   *)
(* builder tells apart: Malformed (empty, or a parse or unmarshal error),  *)
(* a from key, and a to value that is either an array of to-definitions   *)
(* [shape |-> "array", keys |-> <<...>>] or the single object              *)
(* [shape |-> "object", key |-> k] standing for {"key_code": k}.           *)
(***************************************************************************)
EXTENDS ManipulatorManager

CONSTANTS
  Profiles,     \* the profiles a reload may apply
  Malformed     \* a pair side that is empty or does not parse

VARIABLE applied  \* the profile update() last built the list from

vars == <<mgrVars, applied>>

(* The device's mouse_flip_*, mouse_swap_* and mouse_discard_* getters.    *)
MouseSettings ==
  [mouse_flip_x: BOOLEAN, mouse_flip_y: BOOLEAN,
   mouse_flip_vertical_wheel: BOOLEAN, mouse_flip_horizontal_wheel: BOOLEAN,
   mouse_swap_xy: BOOLEAN, mouse_swap_wheels: BOOLEAN,
   mouse_discard_x: BOOLEAN, mouse_discard_y: BOOLEAN,
   mouse_discard_vertical_wheel: BOOLEAN, mouse_discard_horizontal_wheel: BOOLEAN]
ToJson ==
  [shape: {"array"}, keys: Seq(Keys)] \cup [shape: {"object"}, key: Keys]
Pair == [from: Keys \cup {Malformed}, to: ToJson \cup {Malformed}]
Device == [id: Devices, pairs: Seq(Pair), mouse: MouseSettings]
Profile == [devices: Seq(Device), pairs: Seq(Pair)]

ASSUME Profiles \subseteq Profile
ASSUME \A p \in Profiles : \A i, j \in DOMAIN p.devices :
         p.devices[i].id = p.devices[j].id => i = j

(* Range-for over a parsed nlohmann::json value: the elements of an array, *)
(* the member values of an object.  An element {"key_code": k} is an       *)
(* object; the member value of {"key_code": k} is the string "k".          *)
JsonElements(j) ==
  IF j.shape = "array"
    THEN [i \in 1..Len(j.keys) |-> [isObject |-> TRUE, key |-> j.keys[i]]]
    ELSE <<[isObject |-> FALSE, key |-> j.key]>>

(* to_event_definition(json) accepts only a JSON object (spec 3 and 7:     *)
(* anything else is an unmarshal_error).                                   *)
ToEventDefinitionAccepts(e) == e.isObject

(* make_manipulator(pair): null for an empty side, for a parse error and   *)
(* for an unmarshal error of any to-definition (all caught and logged);    *)
(* otherwise a basic manipulator from -> to.  Null is the empty sequence.  *)
MakeManipulator(pair) ==
  IF \/ pair.from = Malformed
     \/ pair.to = Malformed
     \/ \E i \in DOMAIN JsonElements(pair.to) :
          ~ToEventDefinitionAccepts(JsonElements(pair.to)[i])
    THEN <<>>
    ELSE <<[kind |-> "basic", from |-> pair.from,
            to |-> [i \in DOMAIN JsonElements(pair.to) |-> JsonElements(pair.to)[i].key],
            device |-> NoDevice]>>

(* make_device_if_condition(device) attached with push_back_condition.     *)
WithDeviceIf(ms, d) == [i \in DOMAIN ms |-> [ms[i] EXCEPT !.device = d]]

FlipGetter ==
  [x |-> "mouse_flip_x", y |-> "mouse_flip_y",
   vertical_wheel |-> "mouse_flip_vertical_wheel",
   horizontal_wheel |-> "mouse_flip_horizontal_wheel"]
SwapGetter == [xy |-> "mouse_swap_xy", wheels |-> "mouse_swap_wheels"]
DiscardGetter ==
  [x |-> "mouse_discard_x", y |-> "mouse_discard_y",
   vertical_wheel |-> "mouse_discard_vertical_wheel",
   horizontal_wheel |-> "mouse_discard_horizontal_wheel"]

Pushed(getter, dev) == {n \in DOMAIN getter : dev.mouse[getter[n]]}

(* The mouse_basic manipulator of a device, gated by its device_if: built  *)
(* only when one of its flip, swap or discard arrays is non-empty.         *)
MouseBasicOf(dev) ==
  LET flip == Pushed(FlipGetter, dev)
      swap == Pushed(SwapGetter, dev)
      discard == Pushed(DiscardGetter, dev)
  IN IF flip # {} \/ swap # {} \/ discard # {}
       THEN <<[kind |-> "mouse_basic", device |-> dev.id,
               flip |-> flip, swap |-> swap, discard |-> discard]>>
       ELSE <<>>

(* The manipulators one device contributes, in pair-authoring order.       *)
DeviceManipulators(dev) ==
  FlattenSeq([i \in DOMAIN dev.pairs |->
                WithDeviceIf(MakeManipulator(dev.pairs[i]), dev.id)])
  \o MouseBasicOf(dev)

(* Mutant: profile-level pairs pushed ahead of the device-scoped ones.     *)
UpdateManipulatorsProfileFirst(p) ==
  FlattenSeq([i \in DOMAIN p.pairs |-> MakeManipulator(p.pairs[i])])
  \o FlattenSeq([i \in DOMAIN p.devices |-> DeviceManipulators(p.devices[i])])

(* update(profile): all devices' manipulators in device order, then the    *)
(* profile-level pairs without a device_if condition.                      *)
UpdateManipulators(p) ==
  FlattenSeq([i \in DOMAIN p.devices |-> DeviceManipulators(p.devices[i])])
  \o FlattenSeq([i \in DOMAIN p.pairs |-> MakeManipulator(p.pairs[i])])

(* The whole of update(): invalidate_manipulators() and the push_backs.    *)
Update(p) ==
  /\ Reconfigure(UpdateManipulators(p))
  /\ applied' = p

KeyDown(d, k) == ManipulateKeyDown(d, k) /\ UNCHANGED applied
KeyUp(d, k) == ManipulateKeyUp(d, k) /\ UNCHANGED applied
PointingMotion(d, m) == ManipulatePointingMotion(d, m) /\ UNCHANGED applied

Init ==
  /\ applied \in Profiles
  /\ manipulators = UpdateManipulators(applied)
  /\ activations = {}
  /\ pressed = [d \in Devices |-> {}]
  /\ sink = [k \in Keys |-> 0]
  /\ out = <<>>
  /\ pointer = NoMotionRouted

Next ==
  \/ \E d \in Devices, k \in Keys : KeyDown(d, k)
  \/ \E d \in Devices, k \in Keys : KeyUp(d, k)
  \/ \E d \in Devices, m \in Motions : PointingMotion(d, m)
  \/ \E p \in Profiles : Update(p)

Spec == Init /\ [][Next]_vars

TypeOK == MgrTypeOK /\ applied \in Profiles

-----------------------------------------------------------------------------
(* Reference lookup, written from spec 4.7 and 8.6 and not from the list:  *)
(* on device d, key k is remapped by the first usable pair of d's own      *)
(* simple modifications, else by the first usable profile-level pair, and  *)
(* is forwarded unchanged otherwise.  Usable(pair, shapes) names the to    *)
(* shapes that count as a to-definition list.                              *)
Usable(pair, k, shapes) ==
  /\ pair.from = k
  /\ pair.to # Malformed
  /\ pair.to.shape \in shapes
SpecToKeys(to) == IF to.shape = "array" THEN to.keys ELSE <<to.key>>
FirstUsable(pairs, k, shapes) ==
  LET idx == {i \in DOMAIN pairs : Usable(pairs[i], k, shapes)}
  IN IF idx = {} THEN <<>> ELSE <<SpecToKeys(pairs[Min(idx)].to)>>
ExpectedTo(p, d, k, shapes) ==
  LET own == {i \in DOMAIN p.devices : p.devices[i].id = d}
      devHit == IF own = {} THEN <<>>
                ELSE FirstUsable(p.devices[CHOOSE i \in own : TRUE].pairs, k, shapes)
      profHit == FirstUsable(p.pairs, k, shapes)
  IN IF devHit # <<>> THEN devHit[1]
     ELSE IF profHit # <<>> THEN profHit[1]
     ELSE <<k>>

Pressing(d, k) == k \notin pressed[d] /\ k \in pressed'[d]

(* Device-scoped precedence and first match (spec 8.3, 8.6, scenario S2):  *)
(* a key pressed on a device emits exactly the to-list of the first usable *)
(* array-shaped pair of that device, else of the profile, else the key     *)
(* itself; pairs that fail to build are skipped without hiding later ones. *)
DeviceScopedPairWins ==
  [][\A d \in Devices, k \in Keys :
       Pressing(d, k) => out' = Downs(ExpectedTo(applied, d, k, {"array"}))]_vars

(* Scenario S1 and spec 4.7: a simple modification whose to string holds a *)
(* single to-definition object remaps its from key like an array does.     *)
SimpleModificationApplied ==
  [][\A d \in Devices, k \in Keys :
       Pressing(d, k) =>
         out' = Downs(ExpectedTo(applied, d, k, {"array", "object"}))]_vars

(* Reference for pointing motions, written from spec 4.4 and the device    *)
(* settings' names, not from the builder: axis a of the output is the      *)
(* input axis that swap moves onto a, 0 when that axis is discarded,       *)
(* negated when a is flipped; no event when every axis is 0.  A device     *)
(* without settings gets its motion forwarded unchanged.                   *)
SettingOn(p, d, name) ==
  \E i \in DOMAIN p.devices : p.devices[i].id = d /\ p.devices[i].mouse[name]
ExpectedMotion(p, d, m) ==
  LET on(name) == SettingOn(p, d, name)
      src == [x |-> IF on("mouse_swap_xy") THEN "y" ELSE "x",
              y |-> IF on("mouse_swap_xy") THEN "x" ELSE "y",
              vertical_wheel |->
                IF on("mouse_swap_wheels") THEN "horizontal_wheel" ELSE "vertical_wheel",
              horizontal_wheel |->
                IF on("mouse_swap_wheels") THEN "vertical_wheel" ELSE "horizontal_wheel"]
      kept(b) == IF on("mouse_discard_" \o b) THEN 0 ELSE m[b]
      sign(a) == IF on("mouse_flip_" \o a) THEN -1 ELSE 1
      r == [a \in Axes |-> sign(a) * kept(src[a])]
  IN IF \A a \in Axes : r[a] = 0 THEN <<>> ELSE <<r>>

-----------------------------------------------------------------------------
(* Refinement: the pipeline implements KeyOutputProtocol.  The keys a      *)
(* press still owes are the to-list of its activation (emptied by the      *)
(* wind-down); a forwarded key owes itself.                                *)
OwedOf(acts) ==
  [dk \in Devices \X Keys |->
     LET own == {a \in acts : <<a.device, a.key>> = dk}
     IN IF own = {} THEN <<>> ELSE (CHOOSE a \in own : TRUE).to]

(* The longest to-list a press can emit: a forwarded key or a to array.   *)
LongestTo ==
  LET arrays == {pr.to : pr \in UNION {Range(p.pairs) \cup
                   UNION {Range(dv.pairs) : dv \in Range(p.devices)} : p \in Profiles}}
  IN Max({1} \cup {Len(t.keys) : t \in {x \in arrays : x # Malformed /\ x.shape = "array"}})

KeyOutput == INSTANCE KeyOutputProtocol
               WITH held <- pressed, owed <- OwedOf(activations), MaxTo <- LongestTo

(* Spec 4.5 and 8.5 as a specification: every step of presses, releases   *)
(* and reloads on any device is a step of KeyOutputProtocol, so each key-  *)
(* down emitted for a press is taken back by exactly one key-up, in        *)
(* reverse to-list order, on its release or at the reload, whichever       *)
(* comes first, and never again afterwards.                                *)
ImplementsKeyOutputProtocol == KeyOutput!Spec
=============================================================================
