------------------------------ MODULE Garments ------------------------------
(* What the styling rules know of garments (tables of analysis_rules.py).    *)

Natural == {"cotton", "linen", "wool", "cashmere", "silk", "leather", "suede"}

Neutral == {"black", "white", "charcoal", "grey"}

Palette(name) ==
    CASE name = "monochrome" -> Neutral
      [] name = "warm" -> {"beige", "burgundy", "olive", "khaki", "cream", "tan", "gold"}
      [] name = "cool" -> {"navy", "light_blue", "indigo", "silver"}
      [] OTHER -> {}

MaterialSeasons(material) ==
    CASE material = "cotton"  -> {"spring", "summer"}
      [] material = "linen"   -> {"spring", "summer"}
      [] material = "silk"    -> {"summer"}
      [] material \in {"wool", "cashmere"} -> {"fall"}
      [] material \in {"heavy_wool", "leather", "fleece"} -> {"winter"}
      [] OTHER -> {}

CategorySeasons(category) ==
    {"spring", "fall", "winter"} \cup IF category = "outerwear" THEN {} ELSE {"summer"}

Registers(category) ==
    {"casual"} \cup IF category \in {"footwear", "accessories"} THEN {"formal"} ELSE {}

Occasions(category) ==
    CASE category = "tops"      -> {"casual", "office", "date", "party"}
      [] category = "outerwear" -> {"casual", "party", "date"}
      [] category = "footwear"  -> {"casual", "office", "travel"}
      [] OTHER                  -> {"casual", "office", "date"}
=============================================================================
