------------------------------- MODULE Event -------------------------------
(***************************************************************************)
(* krbn::event_queue::event (src/share/event_queue/event.hpp): the tagged  *)
(* value carried through the pipeline, its constructors, to_json() and     *)
(* make_from_json().                                                       *)
(*                                                                         *)
(* An event is [type |-> t, value |-> [alt |-> a, v |-> p]]: t is the enum *)
(* type, a the std::variant alternative that holds the value and p an      *)
(* abstract payload.  A JSON object is a function from its keys to values; *)
(* a payload value is [alt |-> a, v |-> p], the JSON that get<a>() turns   *)
(* back into payload p (the payload types' own to/from JSON live outside   *)
(* src/ and are taken to round-trip), or a value of the wrong kind.        *)
(*                                                                         *)
(* make_from_json() visits the keys in the order of nlohmann::json's       *)
(* std::map, one step per key; the step that throws ends the loop and the  *)
(* partly filled result is returned (catch (...)).                         *)
(***************************************************************************)
EXTENDS Integers, Sequences, SequencesExt, FiniteSets, TLC

CONSTANTS
  Payloads,     \* abstract payload values
  NoPayload,    \* the v of std::monostate
  NotAnObject,  \* a JSON input that is not an object
  NonString,    \* a JSON value that is not a string
  NoOrigin      \* origin of an input that is not the to_json() of an event

Types == {"none", "momentary_switch_event", "pointing_motion",
          "shell_command", "select_input_source", "set_variable",
          "set_notification_message", "mouse_key", "sticky_modifier",
          "software_function", "stop_keyboard_repeat",
          "device_keys_and_pointing_buttons_are_released", "device_grabbed",
          "device_ungrabbed", "caps_lock_state_changed",
          "pointing_device_event_from_event_tap",
          "frontmost_application_changed", "input_source_changed",
          "system_preferences_properties_changed",
          "virtual_hid_devices_state_changed"}

(* The alternative each constructor stores (event(...) and make_*_event).  *)
ValueAlt ==
  [t \in Types |->
     CASE t = "caps_lock_state_changed" -> "int64_t"
       [] t = "shell_command" -> "string"
       [] t = "select_input_source" -> "specifiers"
       [] t = "set_notification_message" -> "notification_message"
       [] t = "device_grabbed" -> "device_properties"
       [] t = "frontmost_application_changed" -> "application"
       [] t = "input_source_changed" -> "input_source_properties"
       [] t = "system_preferences_properties_changed" -> "system_preferences_properties"
       [] t = "virtual_hid_devices_state_changed" -> "virtual_hid_devices_state"
       [] t \in {"none", "stop_keyboard_repeat", "device_ungrabbed",
                 "device_keys_and_pointing_buttons_are_released",
                 "pointing_device_event_from_event_tap"} -> "monostate"
       [] OTHER -> t]

Alternatives == {ValueAlt[t] : t \in Types}

(* make_from_json(): the alternative get<T>() produces for each payload key. *)
FromJsonAlt ==
  [k \in {"momentary_switch_event", "pointing_motion", "caps_lock_state_changed",
          "shell_command", "input_source_specifiers", "set_variable",
          "set_notification_message", "mouse_key", "sticky_modifier",
          "software_function", "frontmost_application", "input_source_properties",
          "system_preferences_properties", "virtual_hid_devices_state"} |->
     CASE k = "caps_lock_state_changed" -> "int64_t"
       [] k = "shell_command" -> "string"
       [] k = "input_source_specifiers" -> "specifiers"
       [] k = "set_notification_message" -> "notification_message"
       [] k = "frontmost_application" -> "application"
       [] OTHER -> k]

(* to_json(): the payload key written for each type that has one.          *)
ToJsonKey ==
  [t \in Types \ {"none", "device_grabbed", "stop_keyboard_repeat",
                  "device_keys_and_pointing_buttons_are_released",
                  "device_ungrabbed", "pointing_device_event_from_event_tap"} |->
     CASE t = "select_input_source" -> "input_source_specifiers"
       [] t = "frontmost_application_changed" -> "frontmost_application"
       [] t = "input_source_changed" -> "input_source_properties"
       [] t = "system_preferences_properties_changed" -> "system_preferences_properties"
       [] t = "virtual_hid_devices_state_changed" -> "virtual_hid_devices_state"
       [] OTHER -> t]

(* The keys of a JSON object in std::map (byte-wise) order; "description"  *)
(* stands for any key make_from_json() does not know.                      *)
JsonKeyOrder ==
  <<"caps_lock_state_changed", "description", "frontmost_application",
    "input_source_properties", "input_source_specifiers",
    "momentary_switch_event", "mouse_key", "pointing_motion",
    "set_notification_message", "set_variable", "shell_command",
    "software_function", "sticky_modifier", "system_preferences_properties",
    "type", "virtual_hid_devices_state">>

Value == [alt: Alternatives \ {"monostate"}, v: Payloads]
         \cup [alt: {"monostate"}, v: {NoPayload}]
Monostate == [alt |-> "monostate", v |-> NoPayload]
EventT == [type: Types, value: Value]

(* event(): type none, value monostate.                                    *)
DefaultEvent == [type |-> "none", value |-> Monostate]

(* The constructors: event(momentary_switch_event), event(pointing_motion) *)
(* and every make_*_event(); each pairs its type with its alternative.     *)
MakeEvent(t, p) ==
  [type |-> t,
   value |-> IF ValueAlt[t] = "monostate" THEN Monostate
             ELSE [alt |-> ValueAlt[t], v |-> p]]

(* The get_*() and get_if<T>() accessors used by to_json(): the value     *)
(* when the type is t and the variant holds the alternative of t.          *)
HasValueOf(e, t) == e.type = t /\ e.value.alt = ValueAlt[t]

(* Mutant: one TO_TYPE line missing.                                       *)
ToTypeMissing(s) == IF s \in Types \ {"mouse_key"} THEN s ELSE "none"

(* to_c_string(type) and to_type(string): every name maps to its type,     *)
(* except that to_type() has no case for "none" and maps any unknown       *)
(* string to none.                                                         *)
ToType(s) == IF s \in Types THEN s ELSE "none"

ToJson(e) ==
  IF e.type \in DOMAIN ToJsonKey /\ HasValueOf(e, e.type)
    THEN ("type" :> e.type) @@ (ToJsonKey[e.type] :> e.value)
    ELSE ("type" :> e.type)

SortedKeys(j) == SelectSeq(JsonKeyOrder, LAMBDA k : k \in DOMAIN j)

(* Mutant: a payload key assigned without the get<T>() kind check.         *)
DecodeKeyUnchecked(j, k, r) ==
  CASE k = "type" ->
         IF j[k] = NonString
           THEN [event |-> r, thrown |-> TRUE]
           ELSE [event |-> [r EXCEPT !.type = ToType(j[k])], thrown |-> FALSE]
    [] k \in DOMAIN FromJsonAlt -> [event |-> [r EXCEPT !.value = j[k]], thrown |-> FALSE]
    [] OTHER -> [event |-> r, thrown |-> FALSE]

(* One iteration of make_from_json()'s loop: the result after key k, and   *)
(* whether value.get<T>() threw.                                           *)
DecodeKey(j, k, r) ==
  CASE k = "type" ->
         IF j[k] = NonString
           THEN [event |-> r, thrown |-> TRUE]
           ELSE [event |-> [r EXCEPT !.type = ToType(j[k])], thrown |-> FALSE]
    [] k \in DOMAIN FromJsonAlt ->
         IF j[k].alt = FromJsonAlt[k]
           THEN [event |-> [r EXCEPT !.value = j[k]], thrown |-> FALSE]
           ELSE [event |-> r, thrown |-> TRUE]
    [] OTHER -> [event |-> r, thrown |-> FALSE]

(* make_from_json() as a function, for reasoning about its result.         *)
RECURSIVE DecodeFrom(_, _, _)
DecodeFrom(j, ks, r) ==
  IF ks = <<>> THEN r
  ELSE LET s == DecodeKey(j, Head(ks), r)
       IN IF s.thrown THEN s.event ELSE DecodeFrom(j, Tail(ks), s.event)

MakeFromJson(j) ==
  IF j = NotAnObject THEN DefaultEvent ELSE DecodeFrom(j, SortedKeys(j), DefaultEvent)

-----------------------------------------------------------------------------
(* The state machine of one make_from_json() call on input, where origin   *)
(* is the event whose to_json() produced the input, or NoOrigin when the   *)
(* input is arbitrary JSON.                                                *)
CONSTANT JsonInputs   \* pairs [origin |-> e, json |-> j]

VARIABLES input, origin, keys, result, decoding

vars == <<input, origin, keys, result, decoding>>

Init ==
  /\ \E x \in JsonInputs : input = x.json /\ origin = x.origin
  /\ keys = IF input = NotAnObject THEN <<>> ELSE SortedKeys(input)
  /\ result = DefaultEvent
  /\ decoding = TRUE

DecodeKeyOk ==
  /\ decoding /\ keys # <<>>
  /\ ~DecodeKey(input, Head(keys), result).thrown
  /\ result' = DecodeKey(input, Head(keys), result).event
  /\ keys' = Tail(keys)
  /\ UNCHANGED <<input, origin, decoding>>

(* get<T>() or get<std::string>() throws: catch (...) returns the result  *)
(* as filled so far.                                                       *)
DecodeKeyThrows ==
  /\ decoding /\ keys # <<>>
  /\ DecodeKey(input, Head(keys), result).thrown
  /\ decoding' = FALSE
  /\ UNCHANGED <<input, origin, keys, result>>

DecodeDone ==
  /\ decoding /\ keys = <<>>
  /\ decoding' = FALSE
  /\ UNCHANGED <<input, origin, keys, result>>

Next == DecodeKeyOk \/ DecodeKeyThrows \/ DecodeDone

Spec == Init /\ [][Next]_vars

TypeOK ==
  /\ origin \in EventT \cup {NoOrigin}
  /\ result \in EventT
  /\ keys \in Seq(STRING)
  /\ decoding \in BOOLEAN

Returned == ~decoding

(* Round trip of what to_json() writes: make_from_json(e.to_json()) = e    *)
(* for every event a constructor makes whose payload to_json() writes,     *)
(* that is every kind but device_grabbed, whose device_properties pointer  *)
(* has no JSON form.  It needs the payload key and the type name of        *)
(* to_json(), the key table and to_type() of make_from_json() and the key  *)
(* order of the loop to agree.                                             *)
RoundTripWritten ==
  (Returned /\ origin # NoOrigin /\ origin.type # "device_grabbed")
    => result = origin

(* Spec 8.1: make_from_json(e.to_json()) = e for every event whose kind is *)
(* not none.                                                               *)
RoundTrip ==
  (Returned /\ origin # NoOrigin /\ origin.type # "none") => result = origin

(* Spec 4.1 and 6: an unknown "type" becomes none and the payload is       *)
(* dropped.                                                                *)
UnknownTypeIsNone ==
  (Returned /\ input # NotAnObject /\ "type" \in DOMAIN input
            /\ input["type"] \notin Types)
    => result = DefaultEvent

=============================================================================
