----------------------------- MODULE MCCueLists -----------------------------
(* A small instance of CueLists for TLC. *)
EXTENDS CueLists

Scenario(names, limits) ==
    [desk |-> [i \in DOMAIN names |-> [scene |-> i, name |-> names[i]]],
     left |-> [k \in Kinds |-> IF k \in DOMAIN limits THEN limits[k] ELSE 0]]

\* The desk is edited, seen or unseen, under unique and repeated names.
MCDesk == {Scenario(<<1, 2>>, [edit |-> 2, rename |-> 1, lag |-> 1, link |-> 1]),
           Scenario(<<1>>, [edit |-> 2, lose |-> 1, lag |-> 1]),
           Scenario(<<1, 1>>, [edit |-> 1, rename |-> 1, delete |-> 1, link |-> 1])}
\* The cue lists are edited around a GO, a deleted scene and a replaced session.
MCCues == {Scenario(<<1>>, [cue |-> 3, go |-> 1]),
           Scenario(<<1, 2>>, [cue |-> 1, go |-> 2, delete |-> 1]),
           Scenario(<<1, 2>>, [cue |-> 2, go |-> 1]),
           Scenario(<<1, 2>>, [cue |-> 2, go |-> 1, replace |-> 1]),
           Scenario(<<1>>, [cue |-> 1, save |-> 1, replace |-> 1, go |-> 1, lag |-> 1, edit |-> 1])}
MCScenarios == MCDesk \cup MCCues
=============================================================================
