--------------------------- MODULE MCAnalysisRuns ---------------------------
(* A small instance of AnalysisRuns: two accounts, one key, two images.      *)
EXTENDS AnalysisRuns, TLC

CONSTANTS r1, r2, r3, u1, u2, k1, i1, i2

(* The submissions that can meet: every kind under the one key, a second     *)
(* image, the other account with the same key, and a keyless submission.     *)
MCInputs ==
    { [user |-> u1, kind |-> "hairstyle_profile", key |-> k1,   image |-> None],
      [user |-> u1, kind |-> "grooming",          key |-> None, image |-> None],
      [user |-> u1, kind |-> "hairstyle_image",   key |-> k1,   image |-> i1],
      [user |-> u1, kind |-> "hairstyle_image",   key |-> None, image |-> i2],
      [user |-> u1, kind |-> "outfit",            key |-> k1,   image |-> i1],
      [user |-> u1, kind |-> "outfit",            key |-> k1,   image |-> i2],
      [user |-> u1, kind |-> "garment",           key |-> k1,   image |-> i1],
      [user |-> u2, kind |-> "hairstyle_image",   key |-> k1,   image |-> i1] }

(* Three requests over the submissions that contend hardest.                 *)
MCContended ==
    { [user |-> u1, kind |-> "hairstyle_profile", key |-> k1,   image |-> None],
      [user |-> u1, kind |-> "hairstyle_image",   key |-> k1,   image |-> i1],
      [user |-> u1, kind |-> "hairstyle_image",   key |-> k1,   image |-> i2],
      [user |-> u1, kind |-> "outfit",            key |-> None, image |-> i2] }

RequestSymmetry == Permutations(Request)
=============================================================================
