---------------------------- MODULE MCSavedLooks ----------------------------
(* A small instance of SavedLooks: two accounts, one key value, one item.    *)
EXTENDS SavedLooks, TLC

CONSTANTS r1, r2, r3, u1, u2, k1, k2, i1, b1, b2

MCOwner == [i \in {i1} |-> u1]

Saving(u, k, b, S)  == [op |-> "save", user |-> u, key |-> k, body |-> b, items |-> S]
Reacting(u, k, t) == [op |-> "react", user |-> u, key |-> k, body |-> b1, target |-> t]

(* Two saves and two reactions that meet under one key, a save under a       *)
(* second key (it shares only the styled day), and a stranger's reaction.    *)
MCInputs ==
    { Saving(u1, k1, b1, {i1}), Saving(u1, k1, b1, {}), Saving(u1, k2, b2, {}),
      Reacting(u1, k1, r1), Reacting(u1, k1, None), Reacting(u2, k1, r1) }

(* The shortest meetings of a save, its repetition and two reactions.        *)
MCMeeting ==
    { Saving(u1, k1, b1, {i1}), Reacting(u1, k1, r1), Reacting(u1, k1, None) }
=============================================================================
