----------------------------- MODULE GuestAnalysis -----------------------------
(***************************************************************************)
(* What an analysis answers to a guest, at once and without a row, and what *)
(* the run of a member ends with: each pass of application/analysis.py      *)
(* exists twice.  Concurrency and storage of the runs are in AnalysisRuns.  *)
(*                                                                         *)
(* A pass over an image is [image, sight, clothes, engine].  image is       *)
(* [type, size, readable]; sight and clothes are what the two analyzers do: *)
(* they crash, refuse with a reason, or return what they saw (the shape of  *)
(* the face or None, and how many signals are known); engine is "fine" or   *)
(* the step that raises.  A grooming pass is [profile, engine], the profile *)
(* giving each of its four texts as None, Blank, Endless (more than 200     *)
(* characters) or a value; saved is the saved looks of the member, newest   *)
(* first, each as its look_id or None, or Unreadable.                       *)
(***************************************************************************)
EXTENDS Styling

CONSTANTS MaxBytes, SavedPage, Blank, Endless, Unreadable

Answered(result) == [status |-> "answered", result |-> result]        \* 200
Refused(reasons) == [status |-> "refused", reasons |-> reasons]       \* 422
Unavailable      == [status |-> "unavailable"]                          \* 503

Completed(result) == [status |-> "completed", result |-> result]
Failed(reasons)   == [status |-> "failed", reasons |-> reasons]

(* The guards on an upload, the same for guests and members. *)
ImageFaults(image) ==
    IF image.type \notin {"jpeg", "png", "webp"} THEN {"unsupported media type"}
    ELSE IF image.size # None /\ image.size > MaxBytes THEN {"image too large"}
    ELSE IF ~ image.readable THEN {"could not read image data"} ELSE {}

(* recommend_hairstyle on what was seen, without preferences. *)
Hairstyle(sight) ==
    RecommendHairstyle([face |-> sight.face, signals |-> sight.signals,
                        preferred |-> {}, excluded |-> {}, saved |-> {}])

(* Nothing is analysed when the upload is refused. *)
Guarded(pass, answer) == IF ImageFaults(pass.image) # {} THEN Refused(ImageFaults(pass.image)) ELSE answer

-----------------------------------------------------------------------------
(* Guests.                                                                   *)

GuestHairstyle(pass) ==
    LET sight == pass.sight
    IN  Guarded(pass, CASE sight.is = "refused" -> Refused({sight.reason})
                        [] sight.is = "crashed" -> Unavailable
                        [] sight.is = "seen" -> IF sight.face = None THEN Refused({"no_face_detected"})
                                                ELSE IF pass.engine # "fine" THEN Unavailable
                                                ELSE Answered(Hairstyle(sight)))

(* Why a branch of the outfit pass is empty; {} when it has a result. *)
AppearanceReason(pass) ==
    LET sight == pass.sight
    IN  CASE sight.is = "refused" -> {sight.reason}
          [] sight.is = "crashed" -> {"analysis_failed"}
          [] sight.is = "seen" -> IF sight.face = None THEN {"no_face_detected"}
                                  ELSE IF pass.engine = "knowledge" THEN {"analysis_failed"} ELSE {}

GarmentReason(pass) ==
    CASE pass.clothes.is = "refused" -> {pass.clothes.reason}
      [] pass.clothes.is = "crashed" -> {"analysis_failed"}
      [] OTHER -> {}

(* The snapshot: the parts that are there, and the reasons of the others. *)
OutfitSnapshot(pass) ==
    [hairstyle |-> IF AppearanceReason(pass) = {} THEN Hairstyle(pass.sight) ELSE None,
     garment |-> IF GarmentReason(pass) = {} THEN pass.clothes.garment ELSE None,
     appearance_error |-> AppearanceReason(pass), garment_error |-> GarmentReason(pass)]

(* For mutation: an empty branch ends the pass. *)
GuestOutfitOfBoth(pass) ==
    LET reasons == AppearanceReason(pass) \cup GarmentReason(pass)
    IN  Guarded(pass, IF reasons = {} THEN Answered(OutfitSnapshot(pass))
                      ELSE IF "analysis_failed" \in reasons THEN Unavailable ELSE Refused(reasons))

GuestOutfit(pass) ==
    LET reasons == AppearanceReason(pass) \cup GarmentReason(pass)
    IN  Guarded(pass, IF {} \in {AppearanceReason(pass), GarmentReason(pass)} THEN Answered(OutfitSnapshot(pass))
                      ELSE IF "analysis_failed" \in reasons THEN Unavailable ELSE Refused(reasons))

GuestGarment(pass) ==
    Guarded(pass, CASE pass.clothes.is = "refused" -> Refused({pass.clothes.reason})
                    [] pass.clothes.is = "crashed" -> Unavailable
                    [] pass.clothes.is = "seen" -> Answered(pass.clothes.garment))

Stripped(profile) == [f \in DOMAIN profile |-> IF profile[f] = Blank THEN None ELSE profile[f]]

Known(profile) == Cardinality({f \in DOMAIN profile : profile[f] # None})

Groomed(profile, preferred) ==
    RecommendGrooming([face |-> profile.face_shape, signals |-> Known(profile),
                       preferred |-> preferred, excluded |-> {}, saved |-> {}])

GuestGrooming(pass) ==
    LET profile == Stripped(pass.profile)
    IN  IF profile.face_shape = None THEN Refused({"no face shape"})
        ELSE IF \E f \in DOMAIN profile : profile[f] = Endless THEN Refused({"must be at most 200 characters"})
        ELSE IF pass.engine = "knowledge" THEN Unavailable
        ELSE Answered(Groomed(profile, {}))

-----------------------------------------------------------------------------
(* Members: the run, or the refusal that leaves none.                        *)

MemberHairstyle(pass) ==
    LET sight == pass.sight
    IN  Guarded(pass, CASE sight.is = "refused" -> Failed({sight.reason})
                        [] sight.is = "crashed" -> Failed({})
                        [] sight.is = "seen" -> IF sight.face = None THEN Failed({"no_face_detected"})
                                                ELSE IF pass.engine # "fine" THEN Failed({})
                                                ELSE Completed(Hairstyle(sight)))

MemberOutfit(pass) ==
    Guarded(pass, IF {} \in {AppearanceReason(pass), GarmentReason(pass)} THEN Completed(OutfitSnapshot(pass))
                  ELSE Failed(AppearanceReason(pass) \cup GarmentReason(pass)))

MemberGarment(pass) ==
    Guarded(pass, CASE pass.clothes.is = "refused" -> Failed({pass.clothes.reason})
                    [] pass.clothes.is = "crashed" -> Failed({})
                    [] pass.clothes.is = "seen" -> Completed(pass.clothes.garment))

Codes(engine) == {engine.looks[i].code : i \in DOMAIN engine.looks}

(* The saved looks of the first page that the catalog knows: outfits have no *)
(* look_id, and those of the other catalog are skipped.                      *)
SavedHairstyles(saved) ==
    IF saved = Unreadable THEN {}
    ELSE {saved[i] : i \in {j \in DOMAIN saved : j <= SavedPage}} \cap Codes(Hairstyles)

SavedGrooming(saved) ==
    IF saved = Unreadable THEN {}
    ELSE {saved[i] : i \in {j \in DOMAIN saved : j <= SavedPage}} \cap Codes(Grooming)

MemberGrooming(pass, saved) ==
    IF pass.profile.face_shape = None THEN Refused({"no face shape"})
    ELSE IF pass.engine = "knowledge" THEN Failed({})
    ELSE Completed(Groomed(pass.profile, SavedGrooming(saved)))

(* The pass over the stored profile. *)
MemberProfile(pass, saved) ==
    IF pass.profile.face_shape = None THEN Refused({"no face shape"})
    ELSE IF pass.engine # "fine" THEN Failed({})
    ELSE Completed(RecommendHairstyle([face |-> pass.profile.face_shape, signals |-> Known(pass.profile),
                                       preferred |-> SavedHairstyles(saved), excluded |-> {}, saved |-> {}]))

-----------------------------------------------------------------------------

(* The guest's answer, and the end of the run that the same pass gives a     *)
(* member: the same result, or a refusal for the reasons the run names, or   *)
(* 503 when the run names none or a crash among them.                        *)
Alike(guest, member) ==
    CASE guest.status = "answered" -> member = Completed(guest.result)
      [] guest.status = "refused" -> member \in {guest, Failed(guest.reasons)}
      [] guest.status = "unavailable" -> member.status = "failed" /\ (member.reasons = {} \/ "analysis_failed" \in member.reasons)

(* "identical snapshot shape", "same rules as the async passes": a guest is  *)
(* told of an image what a member is told.                                   *)
GuestsAreAnsweredAlike(pass) ==
    /\ Alike(GuestHairstyle(pass), MemberHairstyle(pass))
    /\ Alike(GuestOutfit(pass), MemberOutfit(pass))
    /\ Alike(GuestGarment(pass), MemberGarment(pass))

(* A member without saved looks of the catalog is told what a guest is told  *)
(* of the same profile; what is saved for one catalog never moves the        *)
(* ranking of the other, and a look that is saved gets no worse a place.     *)
SavedLooksCount(pass, saved) ==
    LET own == [pass EXCEPT !.profile = Stripped(@)]
        keepsPlaces(codes, with, without) ==
            with.status = "completed" => \A code \in codes : \A n \in DOMAIN without.result.looks :
                without.result.looks[n] = code => \E m \in 1 .. n : with.result.looks[m] = code
    IN  /\ SavedGrooming(saved) = {} =>
              /\ Alike(GuestGrooming(pass), MemberGrooming(own, saved))
              /\ MemberGrooming(own, saved) = MemberGrooming(own, <<>>)
        /\ SavedHairstyles(saved) = {} => MemberProfile(own, saved) = MemberProfile(own, <<>>)
        /\ keepsPlaces(SavedGrooming(saved), MemberGrooming(own, saved), MemberGrooming(own, <<>>))
        /\ keepsPlaces(SavedHairstyles(saved), MemberProfile(own, saved), MemberProfile(own, <<>>))
=============================================================================
