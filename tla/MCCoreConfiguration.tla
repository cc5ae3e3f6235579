------------------------- MODULE MCCoreConfiguration -------------------------
(* The karabiner.json contents a load may meet: none, one owned by another *)
(* user, one that does not parse, an empty profile array, and files whose  *)
(* profiles are flagged in the ways a hand-edited file allows.             *)
EXTENDS CoreConfiguration

MCFiles ==
  { [exists |-> FALSE, owner |-> "user", parses |-> TRUE, flags |-> <<TRUE>>],
    [exists |-> TRUE, owner |-> "other", parses |-> TRUE, flags |-> <<TRUE>>],
    [exists |-> TRUE, owner |-> "user", parses |-> FALSE, flags |-> <<TRUE>>],
    [exists |-> TRUE, owner |-> "user", parses |-> TRUE, flags |-> <<>>],
    [exists |-> TRUE, owner |-> "root", parses |-> TRUE, flags |-> <<FALSE, TRUE>>],
    [exists |-> TRUE, owner |-> "user", parses |-> TRUE, flags |-> <<FALSE, FALSE>>],
    [exists |-> TRUE, owner |-> "user", parses |-> TRUE, flags |-> <<TRUE, TRUE>>] }
=============================================================================
