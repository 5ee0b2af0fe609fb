----------------------------- MODULE MCServices -----------------------------
(***************************************************************************)
(* Instances of Services for TLC.                                          *)
(***************************************************************************)
EXTENDS Services, TLC

\* Two candidates for one office, one of them, who votes, for another too.
Stand == {[user |-> "ann", position |-> "president"],
          [user |-> "bob", position |-> "president"],
          [user |-> "ann", position |-> "secretary"]}

\* One user with two browsers, or two users with one each.
CONSTANTS u1, u2
OneAccount == [c \in Clients |-> "ada"]
OwnAccounts == (u1 :> "ada") @@ (u2 :> "bob")
UserApplication == [c \in Clients |-> "USER"]

\* One student and two organisations; the status of one of them changes.
LawAndArts == {<<"law", "ada">>, <<"arts", "ada">>}
LawOnly == {<<"law", "ada">>}

\* Attendees and browsers are the same two values, that are told apart nowhere.
Symmetry == Permutations(Workers) \cup Permutations({u1, u2})
=============================================================================
