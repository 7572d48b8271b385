---------------------------- MODULE MCCollection ----------------------------
(* A small instance of Collection: two collectors of two retailers, of a     *)
(* fixture or of the series, over one or two listings, and a retention run.  *)
EXTENDS Collection

CONSTANTS r1, r2, j1, amazon, shop, seed, i1, g1, look, none

C(from, gtin, price, stock) ==
    [from |-> from, id |-> i1, valid |-> TRUE, gtin |-> gtin, look |-> look,
     price |-> price, stock |-> stock]

Bad(c) == [c EXCEPT !.valid = FALSE]

Collects(kind, source, feed) == [kind |-> kind, source |-> source, feed |-> feed]

Refresh == Collects("product", amazon, <<C(amazon, g1, 1, TRUE), C(amazon, g1, 2, none)>>)
Unpriced == Collects("product", amazon, <<C(amazon, g1, 1, TRUE), C(amazon, none, none, FALSE)>>)
Other   == Collects("product", shop, <<C(shop, g1, 1, TRUE), C(shop, g1, 2, none)>>)
Foreign == Collects("product", seed, <<C(amazon, none, 2, FALSE), C(seed, none, 1, TRUE)>>)
Fixed   == Collects("product", seed, <<C(seed, g1, 2, FALSE), Bad(C(seed, none, 1, TRUE))>>)
Values  == Collects("interest", seed, <<C(seed, none, 1, none), C(seed, none, 2, none)>>)
Videos  == Collects("video", shop, <<C(shop, none, 1, none), C(shop, none, 2, none),
                                      C(shop, none, 1, FALSE)>>)

(* Two refreshes of one listing; two sources with a GTIN, or none, in        *)
(* common; series and videos.                                                *)
MCPlans ==
    { (r1 :> Refresh @@ r2 :> Unpriced), (r1 :> Unpriced @@ r2 :> Fixed),
      (r1 :> Refresh @@ r2 :> Other),    (r1 :> Refresh @@ r2 :> Foreign),
      (r1 :> Values @@ r2 :> Videos) }
=============================================================================
