-------------------------- MODULE MCDiscoveryEvents --------------------------
(* A small instance of DiscoveryEvents: one account, one guest session, two  *)
(* events with two payloads.                                                 *)
EXTENDS DiscoveryEvents, TLC

CONSTANTS r1, r2, r3, u1, g1, c1, c2, h1, h2

E(c, h) == [id |-> c, hash |-> h]

Of(who, events) == [who |-> who, events |-> events]

(* Batches over two events: both; both in the other order, one of them with  *)
(* another payload; one alone; an id that contradicts itself; and a repeated *)
(* event under the other identity.                                           *)
MCInputs ==
    { Of(u1, <<E(c1, h1), E(c2, h1)>>), Of(u1, <<E(c2, h1), E(c1, h2)>>),
      Of(u1, <<E(c1, h1)>>),            Of(u1, <<E(c1, h1), E(c1, h2)>>),
      Of(g1, <<E(c1, h1), E(c1, h1)>>) }
=============================================================================
