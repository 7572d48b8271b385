-------------------------------- MODULE Rules --------------------------------
(***************************************************************************)
(* The pure rules: a behaviour puts one case to one of the families of      *)
(* rules, and stays.  The cases are a parameter: those of a family are what *)
(* its rule may be asked.                                                   *)
(***************************************************************************)
EXTENDS Laws

CONSTANT Cases  \* of each family of rules

VARIABLES rule, case

RuleFamilies == {"for you", "trends", "looks", "answers", "outfits", "styling", "guests"}

ASSUME CasesAssumption ==
    /\ \A c \in Cases["for you"] : IsForYouCase(c)
    /\ \A c \in Cases["trends"]  : IsTrendsCase(c)
    /\ \A c \in Cases["looks"]   : IsLooksCase(c)
    /\ \A c \in Cases["answers"] : IsAnswerCase(c)
    /\ \A c \in Cases["outfits"] : IsOutfitCase(c)
    /\ \A c \in Cases["styling"] : IsStylingCase(c)
    /\ \A c \in Cases["guests"]  : IsGuestCase(c)

RulesInit == rule \in RuleFamilies /\ case = Unknown

Examine == /\ rule \in RuleFamilies /\ case = Unknown
           /\ case' \in Cases[rule]
           /\ UNCHANGED rule

RulesSpec == RulesInit /\ [][Examine]_<<rule, case>>

-----------------------------------------------------------------------------

(* What is observed again is no growth, no other source and no other trend,  *)
(* and what a trend is matched with is genuine (Trends).                     *)
TrendsAreCounted == [][rule = "trends" => TrendsHold(case')]_case

(* Looks are whole and affordable, the best comes first, and to own or to    *)
(* spend more never leaves less (CompleteLooks).                             *)
LooksAreComplete == [][rule = "looks" => LooksHold(case')]_case

(* An answer rests on the documents that were retrieved for its query, or it *)
(* says that it does not know (Evidence).                                    *)
AnswersAreGrounded == [][rule = "answers" => AnswersHold(case')]_case

(* What is recommended for a person is what was asked for, wanted and never  *)
(* disliked, each once and in one order (Personalization); the outfit that   *)
(* wins is one of the owner's that no other beats, reactions count for and   *)
(* never against what they are about, and the reasons that are given are     *)
(* earned (OutfitChoice); looks are ranked as they are preferred, and        *)
(* garments judged evenly (Styling); a guest is told of an image or a        *)
(* profile what a member would be told, and what a member saved counts in    *)
(* its own catalog and never against it (GuestAnalysis).                     *)
ChoicesAreSettled ==
    [][/\ rule = "for you" => ForYouHolds(case')
       /\ rule = "outfits" => OutfitsHold(case')
       /\ rule = "styling" => StylingHolds(case')
       /\ rule = "guests"  => GuestsHold(case')]_case
=============================================================================
