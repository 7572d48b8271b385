------------------------------ MODULE MCWearLog ------------------------------
(* A small instance of WearLog: two accounts that share a key value, two     *)
(* items of one and one of the other, two readings of the clock.             *)
EXTENDS WearLog, TLC

CONSTANTS r1, r2, r3, u1, u2, k1, k2, i1, i2, j1

MCOwner == [i \in {i1, i2, j1} |-> IF i = j1 THEN u2 ELSE u1]

MCInstant == {0, 2}

(* The submissions that can meet under the key: the same items with and      *)
(* without an instant, another set of items, an item of somebody else, too   *)
(* many items, and the other account under the same key value.               *)
MCInputs ==
    { [user |-> u1, key |-> k1, items |-> {i1, i2},     wornAt |-> None],
      [user |-> u1, key |-> k1, items |-> {i1, i2},     wornAt |-> 2],
      [user |-> u1, key |-> k1, items |-> {i1},         wornAt |-> None],
      [user |-> u1, key |-> k1, items |-> {i1, j1},     wornAt |-> 0],
      [user |-> u1, key |-> k1, items |-> {i1, i2, j1}, wornAt |-> 0],
      [user |-> u2, key |-> k1, items |-> {j1},         wornAt |-> 0] }

RequestSymmetry == Permutations(Request)
==============================================================================
