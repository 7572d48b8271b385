-------------------------------- MODULE Jobs --------------------------------
(***************************************************************************)
(* The jobs that fill and prune the catalogue, side by side: the collectors *)
(* and the retention of Collection, and those of MediaAttention.  They      *)
(* share no table, so a behaviour is one of the two families, and the other *)
(* rests.                                                                   *)
(***************************************************************************)
EXTENDS Collection

CONSTANTS  \* of MediaAttention
    Horizon, Word, Collector, Pruner, MediaKey, Worlds, Window, MaxDepth, MinSlice, SliceCap

VARIABLES family, world, at, todo, covered, got, cut, stored, linked, run,
          articles, expired, observed, links, prune

Media == INSTANCE MediaAttention WITH Key <- MediaKey, MaxRecords <- SliceCap

media == <<world, at, todo, covered, got, cut, stored, linked, run,
           articles, expired, observed, links, prune>>

(* What a provider says of an article: its time, the ranks of its outlet and *)
(* its url, and the words of its headline.                                   *)
IsArticle(a) == a.at \in Nat /\ a.outlet \in Nat /\ a.url \in Nat /\ IsFiniteSet(a.words)

(* It answers with lists of articles. *)
StoryAssumptions ==
    /\ Horizon \in Nat
    /\ \A w \in Worlds, c \in Collector :
          LET held == w[c].articles
          IN  /\ Len(held) \in Nat /\ DOMAIN held = 1 .. Len(held)
              /\ \A i \in DOMAIN held : IsArticle(held[i])

(* It answers with lists of dated articles, in whatever order. *)
MediaAssumptions ==
    /\ Window \in Nat
    /\ \A w \in Worlds, c \in Collector :
          LET held == w[c].articles
          IN  /\ Len(held) \in Nat /\ DOMAIN held = 1 .. Len(held)
              /\ \A i \in DOMAIN held : held[i].at \in Nat

ASSUME ArticlesAssumption == StoryAssumptions

ASSUME WindowAssumption == MediaAssumptions

all == <<family, vars, media>>

(* The family that is not in play begins in one of its initial states.      *)
JobsInit == /\ family \in {"catalogue", "media"}
            /\ Init /\ (family = "media" => plan = CHOOSE p \in Plans : TRUE)
            /\ Media!Init /\ (family = "catalogue" => world = CHOOSE w \in Worlds : TRUE)

JobsNext == \/ family = "catalogue" /\ Next /\ UNCHANGED <<family, media>>
            \/ family = "media" /\ Media!Next /\ UNCHANGED <<family, vars>>

JobsSpec == JobsInit /\ [][JobsNext]_all

(* An observation of media attention that is reported as present counts the *)
(* whole of its window, however the collection was cut, halved and repeated.*)
PresentIsWhole == Media!PresentIsWhole

(* Every article belongs to one story at most, with an anchor that is near  *)
(* enough to each of them.                                                  *)
StoriesAreAnchored == Media!StoriesAreAnchored
=============================================================================
