------------------------------- MODULE MCJobs -------------------------------
(* Small instances of the jobs that fill and prune the catalogue: the       *)
(* collectors of Collection and those of MediaAttention, one family of the   *)
(* two in each behaviour.                                                    *)
EXTENDS Jobs, MCCollection

CONSTANTS c1, c2, p1, k1, w1, w2, w3

A(id, time, outlet, url, words) ==
    [id |-> id, at |-> time, outlet |-> outlet, url |-> url, words |-> words, readable |-> TRUE]

Unreadable(a) == [a EXCEPT !.readable = FALSE]

First  == A(1, 0, 1, 1, {w1, w2, w3})
Echo   == A(7, 3, 1, 1, {w2})
Again  == A(2, 1, 2, 1, {w1})
Second == A(3, 1, 1, 2, {w1, w2, w3})
Third  == A(4, 3, 2, 3, {w1, w2, w3})
Same   == A(6, 1, 2, 5, {w3})
Late   == A(5, 2, 1, 4, {w2})

OfKey(articles_) == [key |-> k1, articles |-> articles_]

(* Windows that are halved, cut, chained, empty, grown between two           *)
(* collections, and listed with a later copy before an earlier.              *)
MCWorlds ==
    { (c1 :> OfKey(<<First, Second, Third>>) @@ c2 :> OfKey(<<First, Second, Third>>)),
      (c1 :> OfKey(<<First, Again, Second, Same>>) @@ c2 :> OfKey(<<First, Late>>)),
      (c1 :> OfKey(<<Third, First>>)         @@ c2 :> OfKey(<<>>)),
      (c1 :> OfKey(<<First, Unreadable(Late)>>) @@ c2 :> OfKey(<<First, Late>>)),
      (c1 :> OfKey(<<Echo, Second, First>>)  @@ c2 :> OfKey(<<>>)) }
=============================================================================
