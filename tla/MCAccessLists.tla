--------------------------- MODULE MCAccessLists ---------------------------
(* A small instance of AccessLists for TLC. *)
EXTENDS AccessLists, TLC

CONSTANTS boot, s1, s2

(* One document under a folder that a rule names, and the tokens file. *)
MCPaths == {<<"a", "x">>, <<"system", "tokens.yaml">>}

Rec(id, secret, paths, actions) == [id |-> id, secret |-> secret, paths |-> paths, actions |-> actions]

(* A list that has two records of one id, which differ in what they allow. *)
TwoRecords ==
  << Rec("t", s1, {<<"data", "a", "**">>}, {"read"}),
     Rec("t", s2, {<<"system", "tokens.yaml">>}, {"write"}) >>

MCTokenLists == { <<>>, TwoRecords }

(* hub token create for the same id, with another secret. *)
MCCreations == { [id |-> "t", secret |-> s2, read |-> {}, write |-> {<<"a", "x">>}] }

Claim(auth, groups) == [authenticated |-> auth, groups |-> groups]
MCIssuerLists ==
  { << [name |-> "i", issuer |-> "iss",
        rules |-> { [paths |-> {<<"data", "**">>}, read |-> Claim(TRUE, {}), write |-> Claim(FALSE, {"g"})] }] >>,
    << [name |-> "j", issuer |-> "iss", rules |-> {}] >> }

MCIDTokens == { [name |-> "i", iss |-> "iss", sub |-> "u", groups |-> {"g"}, fresh |-> TRUE] }
MCSecrets  == { boot, s1, s2 }
=============================================================================
