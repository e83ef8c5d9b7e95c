---------------------------- MODULE MCConfigStore ----------------------------
(***************************************************************************)
(* Small instances of ConfigStore: two names, two hosts, and one task of   *)
(* every kind that the two names tell apart.                               *)
(***************************************************************************)
EXTENDS ConfigStore, TLC

CONSTANTS n1, n2, h1, h2, o1, o2, i1, d1

AllTasks ==
    {[op |-> "add", name |-> n1, host |-> h2, opt |-> Unset],
     [op |-> "add", name |-> n2, host |-> h2, opt |-> o2],
     [op |-> "remove", name |-> n1],
     [op |-> "info", name |-> n1, info |-> i1],
     [op |-> "import", found |-> {n1, n2}, host |-> h2, opt |-> Unset,
      overwrite |-> FALSE, link |-> FALSE],
     [op |-> "import", found |-> {n1}, host |-> h2, opt |-> o2,
      overwrite |-> TRUE, link |-> TRUE],
     [op |-> "keys", dir |-> d1],
     [op |-> "sync"]}

OneEntry ==
    [EmptyConfig EXCEPT !.entries[n1] = [host |-> h1, opt |-> o1, info |-> i1]]

SoundFile == {Missing, OneEntry}

Symmetry == Permutations(Editors)
=============================================================================
