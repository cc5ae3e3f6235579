----------------------------- MODULE MCEventJson -----------------------------
(***************************************************************************)
(* The event JSON checks of MCEvent, together with                        *)
(* json_utility::unmarshal_string on one more input, juValue, chosen at    *)
(* the start: a string of at most two characters of {"a", newline}, a      *)
(* number, or an array of at most three elements, each "", "a", newline   *)
(* or a number.  The two calls do not interact; juValue stays fixed while  *)
(* make_from_json() runs.                                                  *)
(***************************************************************************)
EXTENDS MCEvent

VARIABLE juValue

JU == INSTANCE JsonUtility WITH Chars <- {"a", "\n"}, NL <- "\n"

UnmarshalInputs ==
  {v \in JU!JsonValues(2, 3) :
     v.kind = "array" => \A j \in DOMAIN v.elems :
                           v.elems[j].kind = "string" => Len(v.elems[j].str) <= 1}

JsonInit == Init /\ juValue \in UnmarshalInputs

(* make_from_json()'s steps, with juValue left alone.                      *)
JsonNext ==
  \/ DecodeKeyOk /\ UNCHANGED juValue
  \/ DecodeKeyThrows /\ UNCHANGED juValue
  \/ DecodeDone /\ UNCHANGED juValue

MCJsonSpec == JsonInit /\ [][JsonNext]_<<vars, juValue>>

(* unmarshal_string returns a string as it is, joins an array of strings  *)
(* one per line with no trailing newline, and throws for anything else,   *)
(* an array whose non-string follows strings already streamed included.   *)
UnmarshalStringMatchesReference ==
  JU!UnmarshalString(juValue) = JU!Expected(juValue)
=============================================================================
