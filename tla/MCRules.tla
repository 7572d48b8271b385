------------------------------- MODULE MCRules -------------------------------
(* The cases on which the pure rules are checked: small catalogues, small    *)
(* corpora and small wardrobes that hold each of the kinds of thing a rule   *)
(* tells apart.                                                              *)
EXTENDS Laws, TLC

-----------------------------------------------------------------------------
(* For you.                                                                  *)

Entry(key, concept) == [key |-> key, concept |-> concept]

Tables ==
    [material    |-> <<Entry({"cotton"}, "cotton"), Entry({"denim"}, "denim"), Entry({"selvedge"}, "denim")>>,
     color       |-> <<Entry({"navy"}, "navy"), Entry({"navy", "blue"}, "navy"), Entry({"wine"}, "burgundy")>>,
     fit         |-> <<Entry({"slim"}, "slim-fit")>>,
     silhouette  |-> <<Entry({"boxy"}, "oversized")>>,
     pattern     |-> <<Entry({"check"}, "plaid")>>,
     tags        |-> <<Entry({"grunge"}, "punk")>>,
     subcategory |-> <<Entry({"trench", "coat"}, "trench-coat"), Entry({"trench"}, "trench-coat")>>]

Terms == [cotton |-> "material", denim |-> "textile", navy |-> "color", burgundy |-> "color",
          plaid |-> "pattern", oversized |-> "silhouette", punk |-> "aesthetic"]
         @@ ("slim-fit" :> "fit") @@ ("trench-coat" :> "garment")

Suiting == [tops |-> {"office", "party"}, bottoms |-> {"office"}, outerwear |-> {"party"}]

ByLetter == <<"black", "navy", "red">>

Stated(fields) ==
    [f \in {"title", "category", "subcategory", "brand", "material", "color", "fit", "silhouette", "pattern"} |->
        IF f \in DOMAIN fields THEN fields[f] ELSE {}]

Product(id, created, fields, tags, price, available, made) ==
    [id |-> id, created |-> created, text |-> Stated(fields), tags |-> tags, price |-> price,
     currency |-> IF price = Unknown THEN Unknown ELSE "INR", available |-> available, pictured |-> price # Unknown,
     made |-> made]

Shirt  == Product(1, 1, [category |-> {"tops"}, brand |-> {"acme"}, color |-> {"navy", "blue"},
                         material |-> {"cotton"}], {}, 10, TRUE, FALSE)
Jeans  == Product(2, 2, [category |-> {"bottoms"}, color |-> {"deep", "navy"},
                         material |-> {"cotton", "selvedge"}], {}, Unknown, Unknown, FALSE)
Knit   == Product(3, 2, [category |-> {"tops"}, brand |-> {"bolt"}, color |-> {"black"}, fit |-> {"slim"},
                         material |-> {"felt"}], {}, 30, FALSE, FALSE)
Trench == Product(4, 3, [title |-> {"a", "trench", "coat"}, brand |-> {"acme"}, subcategory |-> {"mac"}],
                  {{"grunge"}, {"punk"}}, 20, TRUE, TRUE)
Jacket == Product(5, 1, [category |-> {"outerwear"}, brand |-> {"bolt"}, silhouette |-> {"boxy"},
                         pattern |-> {"check"}, color |-> {"red"}], {}, 20, TRUE, FALSE)

Nothing(value) ==
    [likes    |-> [k \in ForYou!Likes |-> value],
     dislikes |-> [c \in ForYou!Labels |-> value],
     max |-> Unknown, min |-> Unknown, currency |-> Unknown]

Liking(some)    == [Nothing({}) EXCEPT !.likes = some @@ @]
Avoiding(c, ws) == [Nothing({}) EXCEPT !.dislikes[c] = ws]
Paying(max)     == [Nothing({}) EXCEPT !.max = max]

Open == [include |-> [c \in ForYou!Labels |-> {}], exclude |-> [c \in ForYou!Labels |-> {}],
         traits |-> [t \in ForYou!Traits |-> {}], min |-> Unknown, max |-> Unknown, currency |-> Unknown,
         priced |-> Unknown, pictured |-> Unknown, stocked |-> Unknown, made |-> TRUE, concepts |-> {}, words |-> {}]

Criteria ==
    {Open,
     [Open EXCEPT !.include["brand"] = {"acme"}],
     [Open EXCEPT !.exclude["category"] = {"tops"}],
     [Open EXCEPT !.traits["material"] = {"cotton"}, !.currency = "INR"],
     [Open EXCEPT !.concepts = {"cotton", "punk", "oversized"}, !.made = FALSE],
     [Open EXCEPT !.max = 20, !.priced = TRUE, !.stocked = TRUE],
     [Open EXCEPT !.words = {"trench"}]}

Hanger(id, category, color, favorite) ==
    [id |-> id, category |-> category, color |-> color, material |-> Unknown, favorite |-> favorite]

Browse(guest, explicit, stored, alias, criteria, wardrobe) ==
    [guest |-> guest, explicit |-> explicit, stored |-> stored, alias |-> alias,
     criteria |-> criteria, wardrobe |-> wardrobe, style |-> IF wardrobe = {} THEN Unknown ELSE "punk"]

Requests ==
    {Browse(guest, explicit, stored, alias, criteria, wardrobe) :
        guest    \in BOOLEAN,
        explicit \in {Nothing({}), Avoiding("category", {"outerwear"}), Paying(20),
                      Liking([color |-> {"navy"}, occasion |-> {"party"}])},
        stored   \in {Nothing({}), Nothing(Unknown), Avoiding("brand", {"acme"}), Paying(10),
                      Liking([brand |-> {"bolt"}, fit |-> {"slim-fit"}, material |-> {"denim"}])},
        alias    \in {Avoiding("category", {"bottoms"})},
        criteria \in Criteria,
        wardrobe \in {{}, {Hanger(1, "tops", "navy", TRUE), Hanger(2, "tops", "red", FALSE)}}}

ForYouCases == [rule : {"foryou"}, request : Requests, catalogue : {{Shirt, Jeans, Knit, Trench, Jacket},
                                                                    {Shirt, Jeans, Trench}}, size : {1, 2}]
-----------------------------------------------------------------------------
(* Trends.                                                                   *)

MCVocabulary ==
    [linen |-> [category |-> "tops", kinds |-> {"shirt"}, traits |-> [material |-> {"linen"}],
                patterns |-> {{"linen", "shirt"}}, negatives |-> {{"table", "linen"}}],
     cargo |-> [category |-> "bottoms", kinds |-> {"trousers"}, traits |-> [style_tags |-> {"cargo", "utility"}],
                patterns |-> {{"cargos"}, {"cargo", "trousers"}}, negatives |-> {}]]

MCAlias == [jean |-> "denim"]

Week     == [start |-> 0, end |-> 168]
NextWeek == [start |-> 168, end |-> 336]

(* Seen again and again, by one or two sources, at the ends of the windows. *)
Seen(id, product, category, source, at, price, stock, made) ==
    [id |-> id, product |-> product, category |-> category, source |-> source, at |-> at,
     price |-> price, stock |-> stock, made |-> made]

Histories ==
    {{Seen(1, 1, "denim", "amazon", t[1], price, TRUE, FALSE), Seen(2, 1, "jean", "amazon", t[2], 10, Unknown, FALSE),
      Seen(3, 2, "denim", source, t[3], Unknown, FALSE, made), Seen(4, 3, category, "amazon", t[4], 0, TRUE, FALSE)} :
        t \in {<<0, 83, 84, 167>>, <<0, 168, 167, 335>>, <<84, 100, 120, 150>>, <<1, 2, 143, 168>>},
        price \in {Unknown, 0, 20}, source \in {"amazon", "ebay"}, made \in BOOLEAN,
        category \in {Unknown, "denim", "knits"}}

Video(video, channel, at, views, title, tags) ==
    [video |-> video, channel |-> channel, at |-> at, views |-> views, title |-> title, tags |-> tags,
     description |-> {}]

Records ==
    {<<Video("a", "one", t[1], v[1], {"linen", "shirt"}, {}), Video("b", who, t[2], v[2], {"cargos"}, {{"linen", "shirt"}}),
       Video("c", Unknown, t[3], v[3], title, {}), Video("a", "one", t[1], v[2], {"linen", "shirt"}, {})>> :
        t \in {<<0, 90, 160>>, <<90, 100, 167>>, <<10, 20, 100>>, <<10, Unknown, 168>>},
        v \in {<<5, 3, Unknown>>, <<Unknown, 0, 7>>, <<Unknown, Unknown, Unknown>>},
        who \in {"one", "two"}, title \in {{"linen", "shirt"}, {"table", "linen", "shirt"}}}

Good(id, category, kind, title, material, tags, currency, made) ==
    [id |-> id, category |-> category, kind |-> kind, title |-> title, currency |-> currency, made |-> made,
     traits |-> [material |-> material, style_tags |-> tags]]

Goods == {Good(1, "tops", {"shirt"}, {"linen", "shirt"}, {"linen"}, {}, "INR", FALSE),
          Good(2, "tops", {}, {"shirt"}, {"linen"}, {}, Unknown, FALSE),
          Good(3, "tops", {"shirt"}, {"shirt"}, {"cotton"}, {}, "INR", FALSE),
          Good(4, "bottoms", {"cargo"}, {"cargo", "trousers"}, {}, {"utility"}, "USD", FALSE),
          Good(5, "tops", {"shirt"}, {"linen", "shirt"}, {"linen"}, {}, "INR", TRUE),
          Good(6, "tops", {"shirt"}, {"linen", "shirt"}, {}, {}, "INR", FALSE)}

Heard(id, term, source, at, growth, volume) ==
    [id |-> id, term |-> term, source |-> source, at |-> at, growth |-> growth, volume |-> volume]

Reports == {{Heard(1, "denim", "youtube", a, g[1], Unknown), Heard(2, "jean", source, b, g[2], volume),
           Heard(3, "denim", "youtube", a, 100, 7)} :
              a \in {0, 47}, b \in {0, 24}, g \in {<<48, 52>>, <<20, 52>>, <<0 - 50, 160>>, <<Unknown, Unknown>>, <<Unknown, 10>>},
              source \in {"youtube", "google"}, volume \in {Unknown, 88}}

Payload(kind, key, display, geo, scope, end, status, value) ==
    [kind |-> kind, key |-> key, display |-> display, geo |-> geo, scope |-> scope, start |-> 0, end |-> end,
     status |-> status, value |-> value, scale |-> 20, version |-> 3]

Payloads(kinds, keys, lengths, places) ==
    {Payload(kind, key, display, place[1], place[2], end, status, value) :
        kind \in kinds, key \in keys, display \in lengths, place \in places, end \in {0, 24},
        status \in {Unknown, "present", "suppressed"}, value \in {Unknown, Malformed, 0, 50}}

Country == <<"country", "IN">>

Collected   == Payloads({"search_term", "topic"}, {Unknown, 12}, {12}, {Country, <<"worldwide", "IN">>})
Recollected == Payloads({"search_term"}, {12}, {Unknown, 250}, {Country})

TrendsCases ==
    [rule : {"history"}, history : Histories, window : {Week}, next : {NextWeek}]
    \cup [rule : {"videos"}, records : Records, concept : {"linen", "cargo"}, window : {Week}]
    \cup [rule : {"products"}, products : SUBSET Goods, concept : {"linen", "cargo"}, limit : {1, 2, 10}]
    \cup [rule : {"feed"}, signals : Reports, now : {48, 60}]
    \cup [rule : {"interest"}, first : Collected, second : Recollected, window : {Week}]
-----------------------------------------------------------------------------
(* Complete looks.                                                           *)

Samples == <<3, 2, 1>>

Piece(id, source, slot, color, material, shape, styles, price) ==
    [id |-> id, source |-> source, slot |-> slot, color |-> color, material |-> material, shape |-> shape,
     styles |-> styles, price |-> price, stocked |-> TRUE]

Own(id, slot, color, shape) == Piece(id, "wardrobe", slot, color, "linen", shape, {}, 0)
Sold(id, slot, color, price) == Piece(id, "catalog", slot, color, IF price = 30 THEN Unknown ELSE "linen", Unknown,
                                      IF price = 10 THEN {"classic"} ELSE {}, price)

Shelves ==
    {<<Sold(1, "top", "navy", 10), Sold(2, "top", "red", 30), Sold(3, "top", "black", 20),
       Sold(4, "bottom", "black", 20), Sold(5, "bottom", "navy", 30),
       Sold(6, "footwear", "white", 30), Sold(7, "footwear", Unknown, 10), Sold(8, Unknown, "red", 10)>>
       \o more :
        more \in {<<>>, <<Sold(9, "outerwear", "olive", 20), Sold(10, "accessories", "gold", 10),
                         Sold(11, "accessories", "gold", 5)>>}}
    \cup {<<Sold(1, "top", "navy", 10), Sold(6, "footwear", "white", Unknown)>>}

Closets == {<<>>, <<Own(21, "bottom", "khaki", "relaxed")>>,
            <<Own(22, "footwear", "navy", Unknown), Own(23, "top", "red", "fitted")>>,
            <<Own(22, "footwear", "navy", Unknown), Own(23, "top", "red", "fitted"), Own(24, Unknown, Unknown, Unknown),
              Own(26, "bottom", "khaki", "relaxed")>>}

Wanting(who, anchor, products, budget, limit) ==
    [user |-> who[1], anchor |-> anchor, owned |-> who[2], products |-> products, budget |-> budget,
     allowed |-> anchor # Unknown \/ limit = 3, style |-> IF limit = 3 THEN "classic" ELSE Unknown, limit |-> limit]

LooksCases ==
    [rule : {"looks"}, piece : {Own(25, "footwear", "red", Unknown)},
     request : {Wanting(who, anchor, products, budget, limit) :
        who      \in {<<"ana", closet>> : closet \in Closets} \cup {<<Unknown, closet>> : closet \in Closets \ {<<>>}},
        anchor   \in {Unknown} \cup [source : {"catalog"}, id : {6, 8, 99}]
                           \cup [source : {"wardrobe"}, id : {23}],
        products \in Shelves, budget \in {Unknown, 0, 40}, limit \in {1, 3}}]
-----------------------------------------------------------------------------
(* Reasoning answers.                                                        *)

Document(id, type, canonical, alias, kind, subject, object, effect, when) ==
    [id |-> id, type |-> type, canonical |-> canonical, alias |-> alias, kind |-> kind, subject |-> subject,
     object |-> object, effect |-> effect, when |-> when, domain |-> "fashion"]

MCCorpus == {Document("d1", "term", "navy", Unknown, "color", Unknown, Unknown, Unknown, {}),
           Document("d2", "term", "burgundy", Unknown, "color", Unknown, Unknown, Unknown, {}),
           Document("d3", "alias", "burgundy", "wine", "color", Unknown, Unknown, Unknown, {}),
           Document("d4", "relationship", Unknown, Unknown, Unknown, "navy", "burgundy", Unknown, {}),
           Document("d5", "relationship", Unknown, Unknown, Unknown, "denim", "rivets", Unknown, {}),
           Document("d6", "rule", Unknown, Unknown, Unknown, Unknown, Unknown, "casual", {"denim"})}

Conclusion(cites, refs, subject, claims, recorded, says, contested) ==
    [cites |-> cites, refs |-> refs, subject |-> subject, claims |-> claims, recorded |-> recorded,
     says |-> says, words |-> {"navy"}, contested |-> contested]

Conclusions ==
    {Conclusion(cites, refs, subject, claims, recorded, "a", FALSE) :
        cites \in {{"d1"}, {"d1", "d2"}, {"d4", "d6"}, {"d9"}}, refs \in {{"navy"}, {"color", "burgundy"}, {"velvet"}},
        subject \in {"navy", "burgundy", "wine", "denim", "casual", "velvet"},
        claims \in {<<>>, <<{"d1"}>>, <<{"d4"}, {"d6"}>>, <<{"d5"}>>, <<{"d1"}, {}>>},
        recorded \in BOOLEAN}

Few == {Conclusion({"d1"}, {"navy"}, subject, <<{"d1"}>>, recorded, says, contested) :
           subject \in {"navy", "burgundy", "wine", "velvet"}, says \in {"a", "b"},
           recorded \in BOOLEAN, contested \in {FALSE}}
       \cup {Conclusion({"d4"}, {"navy"}, "navy", <<{"d4"}>>, TRUE, "a", TRUE)}

Output(conclusions, flag) ==
    [conclusions |-> conclusions, contradictions |-> flag, missing |-> flag, unsupported |-> ~ flag /\ conclusions = <<>>,
     pinned |-> TRUE]

AnswersCases ==
    [rule : {"answers"}, max : {2}, query : {{"navy"}, {"wine", "casual"}, {"color"}, {"denim"}, {"silk"}},
     output : {Output(<<c>>, FALSE) : c \in Conclusions} \cup {Output(<<>>, flag) : flag \in BOOLEAN}
              \cup {Output(<<c, d>>, TRUE) : c, d \in Few} \cup {Output(<<c, c, d>>, TRUE) : c, d \in Few}]

-----------------------------------------------------------------------------
(* Choice of an outfit.                                                      *)

Garment(id, category, color, material, fit, favorite) ==
    [id |-> id, category |-> category, color |-> color, material |-> material, fit |-> fit, favorite |-> favorite]

Tops    == {Garment(1, "tops", "navy", "linen", "slim", FALSE), Garment(2, "tops", "red", "wool", Unknown, TRUE),
            Garment(3, "tops", "black", Unknown, "relaxed", TRUE)}
Jean    == Garment(4, "bottoms", "black", "cotton", "slim", FALSE)
Shoe    == Garment(6, "footwear", "white", "leather", Unknown, FALSE)
Bottoms == {Jean, Garment(5, "bottoms", "olive", "linen", Unknown, FALSE)}
Extras  == {Shoe, Garment(7, "outerwear", "navy", "wool", Unknown, TRUE),
            Garment(8, "accessories", "gold", Unknown, Unknown, FALSE)}

Reaction(look, rating, at) == [look |-> look, rating |-> rating, at |-> at]

Choosing(wardrobe, events, groups, known) ==
    [wardrobe |-> wardrobe, events |-> events, groups |-> groups, looks |-> <<{1, 4}, {2, 5, 6}, {2, 4}>>,
     saved |-> IF known THEN {1, 4} ELSE {}, occasions |-> IF known THEN {"party"} ELSE {},
     palette |-> IF known THEN "cool" ELSE Unknown, fit |-> IF known THEN "slim" ELSE Unknown]

OutfitCases ==
    [rule : {"outfits"}, choice : {Choosing(tops \cup bottoms \cup others, events, groups, known) :
        tops    \in {{}, Tops, {t \in Tops : t.id = 1}, {t \in Tops : t.id > 1}},
        bottoms \in {Bottoms, {Jean}}, others \in {{}, {Shoe}, Extras},
        events  \in {{}, {Reaction(1, "like", 1), Reaction(1, "dislike", 2)},
                     {Reaction(2, "dislike", 1), Reaction(3, "dislike", 1)},
                     {Reaction(2, "like", 1), Reaction(3, "like", 2)}},
        groups  \in {<<>>, <<{3, 5}, {3, 5}, {3}, {1, 4, 6}>>}, known \in BOOLEAN}]
-----------------------------------------------------------------------------
(* Rankings and garments.                                                    *)

Faces == {"oval", "round", "square", "rectangle", "heart", "diamond", "triangle", Unknown}

CodesOf(engine) == {engine.looks[i].code : i \in DOMAIN engine.looks}

Rankings ==
    {[engine |-> engine,
      asked |-> [face |-> face, signals |-> IF face = Unknown THEN 1 ELSE 3, preferred |-> preferred,
                 excluded |-> excluded, saved |-> saved]] :
        engine \in {Advice!Hairstyles}, face \in Faces, preferred \in SUBSET CodesOf(Advice!Hairstyles),
        excluded \in {{}, {"textured_quiff"}, {"classic_pompadour", "side_part"}, CodesOf(Advice!Hairstyles)},
        saved \in {{}, {"side_part", "textured_quiff"}}}
    \cup
    {[engine |-> Advice!Grooming,
      asked |-> [face |-> face, signals |-> 4, preferred |-> preferred, excluded |-> {}, saved |-> {"full_beard"}]] :
        face \in Faces, preferred \in SUBSET CodesOf(Advice!Grooming)}

Judged ==
    [category : {"tops", "outerwear", "footwear"}, color : {"black", "navy"},
     material : {Unknown, "cotton", "fleece", "silk", "polyester"}, favorite : BOOLEAN, saved : BOOLEAN]

Rooms == [categories : {{}, {"tops"}, {"tops", "bottoms", "footwear"}, {"tops", "bottoms", "outerwear", "footwear"}},
          occasions  : {{}, {"party"}, {"casual", "office", "date", "party"}}]

StylingCases == [rule : {"ranking"}, ranking : Rankings] \cup [rule : {"garment"}, garment : Judged, room : Rooms]
-----------------------------------------------------------------------------
(* Guests and members.                                                       *)

Upload(type, size, readable) == [type |-> type, size |-> size, readable |-> readable]

Uploads == {Upload("jpeg", 20, TRUE), Upload("png", 21, TRUE), Upload("gif", 21, TRUE),
            Upload("webp", Unknown, FALSE), Upload("webp", Unknown, TRUE)}

Crash           == [is |-> "crashed"]
Refusal(reason) == [is |-> "refused", reason |-> reason]

Sights == {Crash, Refusal("low_confidence"), Refusal("analyzer_timeout")}
          \cup [is : {"seen"}, face : {Unknown, "oval", "square"}, signals : {1, 4}]

Garb == {Crash, Refusal("no_garment_detected"), Refusal("analyzer_timeout"), [is |-> "seen", garment |-> "tops"]}

Passes == [image : Uploads, sight : Sights, clothes : Garb, engine : {"fine", "knowledge", "enrichment"}]

Profiles == [face_shape : {Unknown, "oval", "square"}, skin_tone : {Unknown, "warm"},
             body_type : {Unknown}, style_type : {Unknown, "classic"}]
            \cup [face_shape : {"blank", "endless", "oval"}, skin_tone : {"blank", "endless"},
                  body_type : {Unknown}, style_type : {Unknown}]

Savings == {"unreadable", <<>>, <<Unknown, "side_part">>, <<"full_beard", "side_part", "classic_stubble">>,
            <<Unknown, "classic_stubble", "full_beard">>, <<"textured_quiff", "brushed_up_undercut">>}

GuestCases == [rule : {"image"}, pass : Passes]
              \cup [rule : {"profile"}, pass : [profile : Profiles, engine : {"fine", "knowledge"}], saved : Savings]
=============================================================================
