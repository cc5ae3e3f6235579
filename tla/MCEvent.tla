------------------------------ MODULE MCEvent ------------------------------
(***************************************************************************)
(* Inputs of make_from_json(): the to_json() of every event a constructor  *)
(* makes, with two payload values, and every object with a "type" (a type *)
(* name, an unknown name or a non-string) and at most one other key, whose *)
(* value is of the kind that key needs or of a wrong kind.                 *)
(***************************************************************************)
EXTENDS Event

CONSTANTS p1, p2   \* model values

WrongKind == [alt |-> "null", v |-> NoPayload]

Written ==
  {[origin |-> MakeEvent(t, p), json |-> ToJson(MakeEvent(t, p))] :
     t \in Types, p \in Payloads}

Arbitrary ==
  {[origin |-> NoOrigin, json |-> ("type" :> tv)] :
     tv \in Types \cup {"unknown", NonString}}
  \cup
  UNION {{[origin |-> NoOrigin, json |-> ("type" :> tv) @@ (k :> v)] :
            tv \in Types \cup {"unknown", NonString},
            v \in {[alt |-> FromJsonAlt[k], v |-> p1], WrongKind}} :
           k \in DOMAIN FromJsonAlt}
  \cup
  {[origin |-> NoOrigin, json |-> ("type" :> "shell_command") @@ ("description" :> "x")],
   [origin |-> NoOrigin, json |-> NotAnObject]}

MCJsonInputs == Written \cup Arbitrary

=============================================================================
