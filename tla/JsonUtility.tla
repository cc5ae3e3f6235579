------------------------------ MODULE JsonUtility ------------------------------
(***************************************************************************)
(* krbn::json_utility::unmarshal_string (src/share/json_utility.hpp) as    *)
(* pure operators.  A JSON string is returned as it is; an array of        *)
(* strings is written to a stringstream, each element followed by '\n',    *)
(* and the stream's last character popped when it is not empty; any other *)
(* value, and an array holding a non-string anywhere, throws               *)
(* unmarshal_error.                                                        *)
(*                                                                         *)
(* A std::string is a sequence over Chars; a JSON value is                 *)
(* [kind |-> "string", str |-> s], [kind |-> "array", elems |-> es] or a   *)
(* record of another kind.  The result is [ok |-> TRUE, str |-> s] for a   *)
(* returned string and [ok |-> FALSE, str |-> <<>>] for the throw.         *)
(***************************************************************************)
EXTENDS Integers, Sequences

CONSTANTS
  Chars,        \* the characters strings are made of
  NL            \* '\n', a member of Chars

Returned(s) == [ok |-> TRUE, str |-> s]
Thrown == [ok |-> FALSE, str |-> <<>>]

(* The range-for over the array: ss holds what was streamed so far; the    *)
(* first non-string element jumps to error, whatever was streamed before.  *)
RECURSIVE StreamStrings(_, _)
StreamStrings(es, ss) ==
  CASE es = <<>> -> Returned(ss)
    [] Head(es).kind # "string" -> Thrown
    [] OTHER -> StreamStrings(Tail(es), ss \o Head(es).str \o <<NL>>)

(* Mutant: the last newline kept.                                          *)
PopLastNewlineMissing(s) == s

(* "Remove the last newline": pop_back() when the string is not empty.     *)
PopLastNewline(s) == IF s # <<>> THEN SubSeq(s, 1, Len(s) - 1) ELSE s

UnmarshalString(v) ==
  CASE v.kind = "string" -> Returned(v.str)
    [] v.kind = "array" ->
         LET r == StreamStrings(v.elems, <<>>)
         IN IF r.ok THEN Returned(PopLastNewline(r.str)) ELSE Thrown
    [] OTHER -> Thrown

(* Reference: the strings of a sequence joined with '\n' between them.     *)
RECURSIVE JoinLines(_)
JoinLines(ls) ==
  CASE ls = <<>> -> <<>>
    [] Len(ls) = 1 -> Head(ls)
    [] OTHER -> Head(ls) \o <<NL>> \o JoinLines(Tail(ls))

IsStringArray(v) ==
  v.kind = "array" /\ \A j \in DOMAIN v.elems : v.elems[j].kind = "string"

(* What unmarshal_string promises: the string itself, or the array's       *)
(* strings one per line with no trailing newline, and a throw for every    *)
(* other value, an array with a non-string after strings were already      *)
(* streamed included (no partial join is returned).                        *)
Expected(v) ==
  CASE v.kind = "string" -> Returned(v.str)
    [] IsStringArray(v) -> Returned(JoinLines([j \in DOMAIN v.elems |-> v.elems[j].str]))
    [] OTHER -> Thrown

(* JSON values over Chars: strings of at most n characters, arrays of at   *)
(* most m of them and of a number, and a number.                           *)
Strings(n) == UNION {[1..l -> Chars] : l \in 0..n}
Number == [kind |-> "number"]
JsonValues(n, m) ==
  LET elems == {[kind |-> "string", str |-> s] : s \in Strings(n)} \cup {Number}
  IN elems \cup {[kind |-> "array", elems |-> es] :
                   es \in UNION {[1..l -> elems] : l \in 0..m}}
=============================================================================
