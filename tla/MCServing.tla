------------------------------ MODULE MCServing ------------------------------
(* Small instances of what serves requests and of what it rests on, one      *)
(* family in each behaviour: accounts and sessions, the gate of reasoning,   *)
(* the adapters of the providers, the reads that go page by page, the        *)
(* wardrobe, and the pure rules, each on the cases of MCRules.               *)
EXTENDS Serving, Rules, MCRules

CONSTANTS r1, r2, r3, r4, dev, mail, w1, w2, k1, k2, work, date

Register(key, word) == [kind |-> "register", email |-> mail, key |-> key, word |-> word]
Login(word)         == [kind |-> "login", email |-> mail, word |-> word]
Plain(kind)         == [kind |-> kind]
Writing(kind, type) == [kind |-> kind, type |-> type]
Patching(list)      == [kind |-> "patch", list |-> list]

Running(a, b, c, d) == (r1 :> a) @@ (r2 :> b) @@ (r3 :> c) @@ (r4 :> d)

(* Registrations that repeat, differ and log in; an account used, left and   *)
(* erased; occasions fed side by side.                                       *)
MCScripts ==
    { Running(Register(k1, w1), Register(k1, w1), Register(k1, w2), Login(w1)),
      Running(Register(k1, w1), Register(k2, w1), Plain("erase"), Login(w2)),
      Running(Register(k1, w1), Login(w1), Plain("logout"), Writing("create", work)),
      Running(Register(k1, w1), Plain("erase"), Writing("create", work), Plain("delete")),
      Running(Writing("create", work), Writing("create", date), Writing("update", date), Patching({})) }

-----------------------------------------------------------------------------

Row(category, color, material) ==
    [category |-> category, color |-> color, material |-> material, fit |-> None, favorite |-> FALSE]

MCStock == <<Row("tops", "navy", None), Row("bottoms", "black", None),
             Row("tops", "red", None), Row("bottoms", "red", "linen")>>

MCCodes == [category |-> {"tops", "bottoms"}, color |-> {"navy", "red", "black"}, material |-> {"linen"}]

Adding(row)            == [kind |-> "add", item |-> row]
Editing(id, fields)    == [kind |-> "patch", id |-> id, fields |-> fields]
Deleting(id)           == [kind |-> "delete", id |-> id]
Listing(category, nth) == [kind |-> "list", category |-> category, page |-> nth, size |-> 2]
Dressing(kind, key) ==
    [kind |-> kind, category |-> None, size |-> 2, key |-> key,
     choice |-> [saved |-> {}, events |-> {}, looks |-> <<>>, groups |-> <<>>, occasions |-> {},
                 palette |-> None, fit |-> None]]

Three(a, b, c) == (r1 :> a) @@ (r2 :> b) @@ (r3 :> c)

(* Edits that meet on a field, or not, and on a row that is deleted; outfits *)
(* derived while items come, go and change; the insight of a wardrobe in     *)
(* motion.                                                                   *)
MCWardrobe ==
    {Three(Editing(1, [color |-> "red"]), b, c) :
        b \in {Editing(1, [color |-> "black", category |-> "bottoms"]),
               Editing(1, [color |-> "navy", material |-> "linen"])},
        c \in {Editing(1, [material |-> None, color |-> "red"]), Deleting(1), Listing("tops", 1)}}
    \cup {Three(dressing, b, c) :
        dressing \in {Dressing("outfit", None), Dressing("today", 1)},
        b \in {Adding(Row("tops", "red", None)), Deleting(4), Adding(Row("tops", "mauve", None))},
        c \in {Deleting(2), Adding(Row("bottoms", "red", None)), Editing(1, [category |-> "bottoms"]),
               Editing(3, [color |-> "mauve"])}}
    \cup {Three([kind |-> "insight"], b, Editing(3, [category |-> "bottoms"])) :
        b \in {Deleting(3), Listing("tops", 2)}}

-----------------------------------------------------------------------------

Listed(id, title) == [id |-> id, title |-> title]

Usual == Listed("stated", "stated")

(* Whole pages and a part of one, items that are no records, and those the   *)
(* parsers stop at, or not.                                                  *)
MCListings == { <<>>, <<Usual, Usual, Usual, Usual>>,
                <<Usual, Listed("stated", "absent"), Listed("absent", "stated"), Usual, Usual>>,
                <<Usual, Usual, Listed("odd", "absent"), Usual, Listed("odd", "stated")>>,
                <<Usual, Listed("stated", "absent"), Listed("odd", "absent"), Listed("absent", "odd"), Usual>>,
                <<Usual, Usual, Listed("stated", "odd")>> }

(* Two looks of one score, and one that a save puts before another.          *)
MCSeed == <<94, 92, 92, 91, 90>>

(* Fewer rows than are read, as many, and more; outfits among them; a look   *)
(* saved twice, once beyond the edge.                                        *)
MCSavedRows == { <<>>, <<4>>, <<5, 3>>, <<3, None, 5>>, <<1, 3, 4>>,
                 <<5, None, 4, 3>>, <<2, 4, 5, 2>>, <<5, 1, 2, 4, 3>> }

-----------------------------------------------------------------------------

MCCases == [rules \in RuleFamilies |->
    CASE rules = "for you"  -> ForYouCases
      [] rules = "trends"   -> TrendsCases
      [] rules = "looks"    -> LooksCases
      [] rules = "answers"  -> AnswersCases
      [] rules = "outfits"  -> OutfitCases
      [] rules = "styling"  -> StylingCases
      [] rules = "guests"   -> GuestCases]

-----------------------------------------------------------------------------
(* A behaviour is one of what serves requests, or one of the rules.          *)

MCInit == \/ ServingInit /\ rule = Unknown /\ case = Unknown
          \/ family = "rules" /\ Starting /\ RulesInit

(* Bound: beyond the window requests go on only at the beginning of the time *)
(* and without the fourth.  (The semaphore reads no clock.)                  *)
IsShort ==
    \/ clock' = 0 /\ step'[r4] = "arriving"
    \/ \A c \in Caller : step'[c] \in {"arriving", "limiting", "acquiring", "done"}

MCNext == \/ ServingNext /\ IsShort /\ UNCHANGED <<rule, case>>
          \/ Examine /\ UNCHANGED all

MCSpec == MCInit /\ [][MCNext]_<<all, rule, case>>
=============================================================================
