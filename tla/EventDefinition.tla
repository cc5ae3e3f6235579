--------------------------- MODULE EventDefinition ---------------------------
(***************************************************************************)
(* krbn::manipulator::event_definition (src/share/manipulator/types/       *)
(* event_definition.hpp): the owner of a from- or to-definition object     *)
(* feeds it one key/value pair at a time through handle_json(); the type   *)
(* may be set once (check_type()); to_event() turns the result into an     *)
(* event.                                                                  *)
(*                                                                         *)
(* The caller's loop over the object's keys is not in src/; its order is   *)
(* the order of the JSON object it iterates, so every order is explored.   *)
(* A JSON value is abstracted to what handle_json() tells apart:           *)
(*   - "good" / "bad" for the keys whose value is unmarshalled as a whole  *)
(*     (a momentary-switch key, set_notification_message, mouse_key,       *)
(*     software_function), "good" / NonString for shell_command;           *)
(*   - the string given to "any", or NonString;                            *)
(*   - [shape, ok] for select_input_source;                                *)
(*   - [parses, hasName, isSetType, hasValue] for set_variable;            *)
(*   - [isObject, entries] for sticky_modifier, entries being "good" or    *)
(*     "bad" modifier/sticky-type pairs in the object's order.             *)
(* An exception (unmarshal_error) ends the definition: status "error".     *)
(***************************************************************************)
EXTENDS Integers, Sequences, SequencesExt, FiniteSets, TLC

CONSTANTS
  NonString,    \* a JSON value that is not a string
  Inputs        \* the JSON objects fed to one definition

MomentarySwitchKeys ==
  {"key_code", "consumer_key_code", "apple_vendor_keyboard_key_code",
   "apple_vendor_top_case_key_code", "generic_desktop", "pointing_button"}
AnyTypes ==
  {"key_code", "consumer_key_code", "apple_vendor_keyboard_key_code",
   "apple_vendor_top_case_key_code", "pointing_button"}
(* Keys whose value is unmarshalled with get<T>() after type_ is set.      *)
WholeValueKeys == {"set_notification_message", "mouse_key", "software_function"}

TypeNames ==
  {"none", "momentary_switch_event", "any", "shell_command", "select_input_source",
   "set_variable", "set_notification_message", "mouse_key", "sticky_modifier",
   "software_function"}

Monostate == [alt |-> "monostate", v |-> "none"]

VARIABLES
  json,         \* the object being fed
  pending,      \* its keys not fed yet
  type,         \* type_
  value,        \* value_: [alt |-> variant alternative, v |-> payload]
  status,       \* "ok" or "error" (handle_json() threw)
  handled       \* what the last handle_json() returned

vars == <<json, pending, type, value, status, handled>>

(* check_type(): a second type is an unmarshal_error.                      *)
CheckType == type = "none"

(* Mutant: check_type() skipped in the sticky_modifier branch.             *)
TypeFreeForStickyMissing(k) ==
  IF k = "sticky_modifier" THEN TRUE ELSE CheckType

TypeFreeFor(k) == CheckType

Throw == [outcome |-> "throw"]
SetTo(t, val) == [outcome |-> "set", type |-> t, value |-> val, keep |-> FALSE]

(* Mutant: the "any" branch stores the string without the chain of        *)
(* comparisons that maps it to an any_type.                                *)
AnyBranchUnchecked(v) == SetTo("any", [alt |-> "any_type", v |-> v])

(* The "any" branch: one of the five any_type names, else unmarshal_error. *)
AnyBranch(v) ==
  IF v \in AnyTypes
    THEN SetTo("any", [alt |-> "any_type", v |-> v])
    ELSE Throw

(* The effect of handle_json(k, v, json) on [type, value]: Throw for an    *)
(* unmarshal_error, "ignored" for description and unrecognised keys.       *)
HandleJson(k, v) ==
  CASE k \in MomentarySwitchKeys ->
         IF v = "good"
           THEN SetTo("momentary_switch_event", [alt |-> "momentary_switch_event", v |-> k])
           ELSE Throw
    [] k = "any" -> AnyBranch(v)
    [] k = "shell_command" ->
         IF v # NonString
           THEN SetTo("shell_command", [alt |-> "string", v |-> v])
           ELSE Throw
    [] k = "select_input_source" ->
         IF v.shape \in {"object", "array"} /\ v.ok
           THEN SetTo("select_input_source", [alt |-> "specifiers", v |-> v.shape])
           ELSE Throw
    [] k = "set_variable" ->
         IF v.parses /\ v.hasName /\ (v.isSetType => v.hasValue)
           THEN SetTo("set_variable", [alt |-> "set_variable", v |-> "good"])
           ELSE Throw
    [] k \in WholeValueKeys ->
         IF v = "good"
           THEN SetTo(k, [alt |-> k, v |-> v])
           ELSE Throw
    [] k = "sticky_modifier" ->
         \* the loop assigns value_ once per entry; an empty object assigns nothing
         IF v.isObject /\ \A i \in DOMAIN v.entries : v.entries[i] = "good"
           THEN [SetTo("sticky_modifier", [alt |-> "sticky_pair", v |-> "good"])
                   EXCEPT !.keep = (v.entries = <<>>)]
           ELSE Throw
    [] OTHER -> [outcome |-> "ignored"]

TypeKeys ==
  MomentarySwitchKeys \cup WholeValueKeys
  \cup {"any", "shell_command", "select_input_source", "set_variable", "sticky_modifier"}

(* One call of handle_json() on the next key the caller's loop visits.     *)
FeedKey(k) ==
  /\ status = "ok"
  /\ k \in pending
  /\ pending' = pending \ {k}
  /\ LET r == HandleJson(k, json[k])
     IN CASE k = "description" ->
               handled' = TRUE /\ UNCHANGED <<type, value, status>>
          [] k \notin TypeKeys ->
               handled' = FALSE /\ UNCHANGED <<type, value, status>>
          [] ~TypeFreeFor(k) \/ r.outcome = "throw" ->
               status' = "error" /\ UNCHANGED <<type, value, handled>>
          [] OTHER ->
               /\ type' = r.type
               /\ value' = IF r.keep THEN value ELSE r.value
               /\ handled' = TRUE
               /\ UNCHANGED status
  /\ UNCHANGED json

Init ==
  /\ json \in Inputs
  /\ pending = DOMAIN json
  /\ type = "none"
  /\ value = Monostate
  /\ status = "ok"
  /\ handled = FALSE

Next == \E k \in TypeKeys \cup {"description", "modifiers"} : FeedKey(k)

Spec == Init /\ [][Next]_vars

(* to_event(): nullopt for none and any; otherwise the event of the type   *)
(* built from std::get<T>(value_), which throws bad_variant_access when    *)
(* value_ does not hold T.                                                 *)
EventAlt ==
  [t \in {"momentary_switch_event", "shell_command", "select_input_source",
          "set_variable", "set_notification_message", "mouse_key",
          "sticky_modifier", "software_function"} |->
     CASE t = "shell_command" -> "string"
       [] t = "select_input_source" -> "specifiers"
       [] t = "sticky_modifier" -> "sticky_pair"
       [] OTHER -> t]

ToEvent(t, val) ==
  CASE t \in {"none", "any"} -> [result |-> "nullopt"]
    [] val.alt = EventAlt[t] -> [result |-> "event", event |-> [type |-> t, value |-> val]]
    [] OTHER -> [result |-> "bad_variant_access"]

(* value_t: each alternative with the payloads it can hold.                *)
ValueT ==
  {Monostate}
  \cup [alt: {"momentary_switch_event"}, v: MomentarySwitchKeys]
  \cup [alt: {"any_type"}, v: AnyTypes]
  \cup [alt: {"string", "set_variable", "sticky_pair"}, v: {"good"}]
  \cup [alt: {"specifiers"}, v: {"object", "array"}]
  \cup {[alt |-> k, v |-> "good"] : k \in WholeValueKeys}

Fed == status = "ok" /\ pending = {}

TypeOK ==
  /\ json \in Inputs
  /\ pending \subseteq DOMAIN json
  /\ type \in TypeNames
  /\ value \in ValueT
  /\ status \in {"ok", "error"}
  /\ handled \in BOOLEAN

Finished == status = "error" \/ pending = {}

(* A definition names one type: feeding an object fails exactly when it   *)
(* holds two or more type keys or one whose value does not unmarshal, and *)
(* otherwise ends with the type of its one type key (none without one),   *)
(* whatever order the caller's loop visits the keys in and whatever        *)
(* "description" or unrecognised keys come between (spec 4.2, 8.2).        *)
OutcomeMatchesReference ==
  Finished =>
    LET tk == DOMAIN json \cap TypeKeys
        fails == Cardinality(tk) >= 2 \/ \E k \in tk : HandleJson(k, json[k]).outcome = "throw"
    IN /\ (status = "error") = fails
       /\ ~fails =>
            type = IF tk = {} THEN "none"
                   ELSE HandleJson(CHOOSE k \in tk : TRUE, json[CHOOSE k \in tk : TRUE]).type

(* Spec 4.2: to_event() is defined for every type but none and any: a     *)
(* definition that was fed without error materialises as an event.        *)
ToEventTotal ==
  Fed => ToEvent(type, value).result # "bad_variant_access"
=============================================================================
