------------------------------ MODULE MCLogin ------------------------------
(* A small instance of Login for TLC: two goroutines and two tenants;      *)
(* accounts of one person before and after a change of name, of another,   *)
(* and with claims of every kind of verification; bounds on what happens   *)
(* in a behaviour.                                                         *)
EXTENDS Login, TLC

\* The goroutines are interchangeable.
MCSymmetry == Permutations(Handlers)

MCStates == 1..3
MCDefaultUser == [ada |-> "idp_ada", bob |-> "idp_bob"]
MCRequests == {[tenant |-> "t", user |-> NoUser, until |-> None],
               [tenant |-> "t", user |-> "idp_ada", until |-> 1],
               [tenant |-> "u", user |-> NoUser, until |-> None]}
MCAccounts ==
    {[subject |-> "ada", token |-> [email |-> "a", verified |-> TRUE, name |-> "n"],
      info |-> [subject |-> "ada", email |-> "a", verified |-> TRUE, name |-> "n"]],
     [subject |-> "ada", token |-> [email |-> "a", verified |-> TRUE, name |-> "m"],
      info |-> [subject |-> None, email |-> "a", verified |-> FALSE, name |-> "m"]],
     [subject |-> "bob", token |-> [email |-> "a", verified |-> FALSE, name |-> None],
      info |-> [subject |-> "bob", email |-> "b", verified |-> TRUE, name |-> "b"]],
     [subject |-> "bob", token |-> [email |-> None, verified |-> FALSE, name |-> None],
      info |-> [subject |-> "bob", email |-> "b", verified |-> TRUE, name |-> "b"]]}
Scenario(config, begin, approve, receive, time, direct, host) ==
    [config |-> config,
     bounds |-> [begin |-> begin, approve |-> approve, receive |-> receive, time |-> time,
                 direct |-> direct, host |-> host]]
MCScenarios ==
    {Scenario(<<FALSE, FALSE, TRUE>>, 3, 0, 2, 2, 0, 0), Scenario(<<TRUE, FALSE, TRUE>>, 2, 0, 3, 1, 0, 0)}
      \cup {Scenario(<<isSQL, fetches, TRUE>>, 2, 1, 2, 0, 0, 0) : isSQL \in BOOLEAN, fetches \in BOOLEAN}
      \cup {Scenario(<<isSQL, FALSE, FALSE>>, 0, 0, 0, 0, 3, 1) : isSQL \in BOOLEAN}
=============================================================================
