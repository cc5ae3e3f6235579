-------------------------- MODULE MCEventDefinition --------------------------
(***************************************************************************)
(* Every object of at most two keys drawn from a selection of type keys,   *)
(* "description" and a key handle_json() does not know ("modifiers"),      *)
(* with values that unmarshal and values that do not.                      *)
(***************************************************************************)
EXTENDS EventDefinition

ValuesOf(k) ==
  CASE k \in {"key_code", "pointing_button", "mouse_key"} -> {"good", "bad"}
    [] k = "any" -> {"key_code", "generic_desktop", NonString}
    [] k = "shell_command" -> {"good", NonString}
    [] k = "select_input_source" -> [shape: {"object", "array", "other"}, ok: BOOLEAN]
    [] k = "set_variable" ->
         [parses: BOOLEAN, hasName: BOOLEAN, isSetType: BOOLEAN, hasValue: BOOLEAN]
    [] k = "sticky_modifier" ->
         [isObject: BOOLEAN, entries: {<<>>, <<"good">>, <<"bad">>, <<"good", "good">>}]
    [] OTHER -> {"text"}

MCKeys == {"key_code", "pointing_button", "any", "shell_command",
           "select_input_source", "set_variable", "mouse_key",
           "sticky_modifier", "description", "modifiers"}

Single(k) == {k :> v : v \in ValuesOf(k)}

MCInputs ==
  UNION {Single(k) : k \in MCKeys}
  \cup UNION {{f @@ g : f \in Single(kp[1]), g \in Single(kp[2])} :
               kp \in {kp \in MCKeys \X MCKeys : kp[1] # kp[2]}}
=============================================================================
