------------------------------ MODULE Wardrobe ------------------------------
(***************************************************************************)
(* An owner's wardrobe while several requests use it: items are added,      *)
(* edited and deleted, listed and summed up, and outfits are derived from   *)
(* them (application/wardrobe.py, outfits.py and today.py over              *)
(* WardrobeItemRepositorySQL).  A step is a statement, or the statements of *)
(* one transaction that a row lock keeps together; the isolation is READ    *)
(* COMMITTED, so each statement sees what is committed when it runs.        *)
(*                                                                         *)
(* An item is the number of its creation; identifiers are taken in that     *)
(* order.  A row is [category, color, material, fit, favorite].  The inputs *)
(* of a request are, by their kind,                                         *)
(*   add     item            patch   id, fields       delete  id            *)
(*   list    category, page, size    insight                                *)
(*   outfit  category = None, size = 100 scaled down, key and choice: what  *)
(*           the outfit is chosen by, without the wardrobe                  *)
(*   today   the same, with a choice without palette, fit, picks, reactions *)
(***************************************************************************)
EXTENDS OutfitChoice, TLC

CONSTANTS
    Request,
    Scripts,      \* the inputs that are tried: functions from Request
    Stock,        \* the rows the wardrobe starts with, in order
    Codes,        \* of the vocabulary: those of each field that has one
    Worn          \* the items that saved outfits refer to

VARIABLES
    input,        \* the input of each request
    rows,         \* wardrobe_items of the owner
    made,         \* how many were created
    signalled,    \* the items with an item_added signal
    stage,
    turn,         \* the page being read
    total,        \* what its count said
    loaded,       \* what was read: a row, the categories covered, or items in order
    result,
    log,          \* history: the patches that were committed, in order
    prior,        \* history: how many there were when a patch selected its row
    kept,         \* history: what a reading selects, and has since its first statement
    moved         \* history: how many entered or left its selection since

vars == <<input, rows, made, signalled, stage, turn, total, loaded, result, log, prior, kept, moved>>

Readers == {"list", "outfit", "today"}

Init == /\ input \in Scripts
        /\ rows = Stock /\ made = Cardinality(DOMAIN Stock) /\ signalled = {}
        /\ stage = [r \in Request |-> "start"] /\ turn = [r \in Request |-> 1]
        /\ total = [r \in Request |-> 0] /\ loaded = [r \in Request |-> <<>>]
        /\ result = [r \in Request |-> None]
        /\ log = <<>> /\ prior = [r \in Request |-> 0]
        /\ kept = [r \in Request |-> {}] /\ moved = [r \in Request |-> 0]

-----------------------------------------------------------------------------

At(r, kinds, step) == input[r].kind \in kinds /\ stage[r] = step

Goto(r, step) == stage' = [stage EXCEPT ![r] = step]

Reply(r, status, what) == /\ result' = [result EXCEPT ![r] = [status |-> status, what |-> what]]
                          /\ Goto(r, "done")

(* _vocab_validation_error: the foreign keys of the codes. *)
IsKnown(fields) == \A f \in DOMAIN fields \cap DOMAIN Codes : fields[f] \in Codes[f] \cup {None}

Selected(r, items) == {i \in DOMAIN items : input[r].category \in {None, items[i].category}}

(* What the readings that are under way can notice of a change.             *)
Store(items) ==
    LET reading == {r \in Request : input[r].kind \in Readers /\ stage[r] \in {"count", "rows"}}
    IN  /\ rows' = items
        /\ kept' = [r \in Request |-> IF r \in reading THEN kept[r] \cap Selected(r, items) ELSE kept[r]]
        /\ moved' = [r \in Request |-> IF r \in reading
                        THEN moved[r] + Cardinality(SymDiff(Selected(r, rows), Selected(r, items)))
                        ELSE moved[r]]

KeepRows == UNCHANGED <<rows, kept, moved>>

-----------------------------------------------------------------------------
(* AddWardrobeItem: the item is committed, then its signal by itself.       *)

Add(r) == /\ At(r, {"add"}, "start")
          /\ IF IsKnown(input[r].item)
             THEN /\ made' = made + 1
                  /\ Store([i \in DOMAIN rows \cup {made'} |-> IF i = made' THEN input[r].item ELSE rows[i]])
                  /\ loaded' = [loaded EXCEPT ![r] = <<made'>>]
                  /\ Goto(r, "signal")
                  /\ UNCHANGED result
             ELSE /\ Reply(r, "422", {})
                  /\ KeepRows
                  /\ UNCHANGED <<made, loaded>>
          /\ UNCHANGED <<input, signalled, turn, total, log, prior>>

(* A signal that cannot be written is rolled back and forgotten. *)
Signal(r) == /\ At(r, {"add"}, "signal")
             /\ signalled' \in {signalled, signalled \cup {loaded[r][1]}}
             /\ Reply(r, "201", {loaded[r][1]})
             /\ KeepRows
             /\ UNCHANGED <<input, made, turn, total, loaded, log, prior>>

(* The owner check of UpdateWardrobeItem and DeleteWardrobeItem. *)
Load(r) == /\ At(r, {"patch", "delete"}, "start")
           /\ IF input[r].id \in DOMAIN rows
              THEN Goto(r, "select") /\ UNCHANGED result
              ELSE Reply(r, "404", {})
           /\ KeepRows
           /\ UNCHANGED <<input, made, signalled, turn, total, loaded, log, prior>>

(* The row the patch is applied to. *)
Select(r) == /\ At(r, {"patch"}, "select")
             /\ IF input[r].id \in DOMAIN rows
                THEN /\ loaded' = [loaded EXCEPT ![r] = <<rows[input[r].id]>>]
                     /\ prior' = [prior EXCEPT ![r] = Len(log)]
                     /\ Goto(r, "write")
                     /\ UNCHANGED result
                ELSE /\ Reply(r, "404", {})
                     /\ UNCHANGED <<loaded, prior>>
             /\ KeepRows
             /\ UNCHANGED <<input, made, signalled, turn, total, log>>

(* Faulty: the row is written as it was loaded. *)
MergedWhole(row, copy, fields) == fields @@ copy

(* The flush writes the fields that differ from the row that was loaded.    *)
Merged(row, copy, fields) ==
    [f \in DOMAIN row |-> IF f \notin DOMAIN fields THEN row[f]
                          ELSE IF fields[f] = copy[f] THEN row[f] ELSE fields[f]]

(* A row that was deleted since it was selected makes the flush fail.       *)
Write(r) ==
    /\ At(r, {"patch"}, "write")
    /\ LET id == input[r].id
       IN  IF id \notin DOMAIN rows
           THEN Reply(r, "500", {}) /\ KeepRows /\ UNCHANGED log
           ELSE IF ~ IsKnown(input[r].fields)
           THEN Reply(r, "422", {}) /\ KeepRows /\ UNCHANGED log
           ELSE /\ Store([rows EXCEPT ![id] = Merged(@, loaded[r][1], input[r].fields)])
                /\ log' = Append(log, r)
                /\ Reply(r, "200", {id})
    /\ UNCHANGED <<input, made, signalled, turn, total, loaded, prior>>

(* No row to delete any more is as good. *)
Delete(r) == /\ At(r, {"delete"}, "select")
             /\ Store([i \in DOMAIN rows \ {input[r].id} |-> rows[i]])
             /\ Reply(r, "204", {})
             /\ UNCHANGED <<input, made, signalled, turn, total, loaded, log, prior>>

-----------------------------------------------------------------------------
(* get_for_user: how many items there are, then those of the page.          *)

CountItems(r) ==
    /\ \/ At(r, Readers, "start") /\ kept' = [kept EXCEPT ![r] = Selected(r, rows)]
       \/ At(r, Readers, "count") /\ UNCHANGED kept
    /\ total' = [total EXCEPT ![r] = Cardinality(Selected(r, rows))]
    /\ turn' = IF At(r, {"list"}, "start") THEN [turn EXCEPT ![r] = input[r].page] ELSE turn
    /\ Goto(r, "rows")
    /\ UNCHANGED <<input, rows, made, signalled, loaded, result, log, prior, moved>>

Newest(ids) == [n \in 1 .. Cardinality(ids) |-> CHOOSE i \in ids : Cardinality({j \in ids : j > i}) = n - 1]

(* Faulty: pages counted from zero. *)
SkippedAll(n, size) == n * size

Skipped(n, size) == (n - 1) * size

Batch(r) ==
    LET ids  == Newest(Selected(r, rows))
        from == Skipped(turn[r], input[r].size)
        upto == IF from + input[r].size < Len(ids) THEN from + input[r].size ELSE Len(ids)
    IN  [n \in 1 .. (IF upto > from THEN upto - from ELSE 0) |->
            [id |-> ids[from + n], row |-> rows[ids[from + n]]]]

(* _load_owner_wardrobe: pages until there are as many as were counted.     *)
ReadItems(r) ==
    /\ At(r, Readers, "rows")
    /\ loaded' = [loaded EXCEPT ![r] = @ \o Batch(r)]
    /\ IF input[r].kind = "list"
       THEN Reply(r, "200", {x.id : x \in Range(loaded'[r])}) /\ UNCHANGED turn
       ELSE /\ UNCHANGED result
            /\ IF Len(loaded'[r]) >= total[r] \/ Batch(r) = <<>>
               THEN Goto(r, "derive") /\ UNCHANGED turn
               ELSE Goto(r, "count") /\ turn' = [turn EXCEPT ![r] = @ + 1]
    /\ UNCHANGED <<input, rows, made, signalled, total, log, prior, kept, moved>>

(* An item that was read twice is as it was the last time. *)
LastRead(items) ==
    {items[n].row @@ [id |-> items[n].id] :
        n \in {m \in DOMAIN items : \A k \in DOMAIN items : items[k].id = items[m].id => k <= m}}

(* _select_index: a key picks one of the candidates by its hash.            *)
Picked(c, key) == IF key = None THEN {Winner(c)} ELSE Candidates(c.wardrobe)

Choice(r) == input[r].choice @@ [wardrobe |-> LastRead(loaded[r])]

(* _derive_outfit: without one, "the owner has no legal candidate" is told  *)
(* from an empty wardrobe.                                                  *)
Derive(r) ==
    /\ At(r, {"outfit"}, "derive")
    /\ LET c == Choice(r)
       IN  IF c.wardrobe = {} THEN Reply(r, "empty_wardrobe", {})
           ELSE IF Candidates(c.wardrobe) = {} THEN Reply(r, "missing_required_category", {})
           ELSE \E outfit \in Picked(c, input[r].key) : Reply(r, "200", Ids(outfit))
    /\ KeepRows
    /\ UNCHANGED <<input, made, signalled, turn, total, loaded, log, prior>>

(* _derive_today_look; the alternatives are in Alternatives of OutfitChoice. *)
DeriveToday(r) ==
    /\ At(r, {"today"}, "derive")
    /\ LET c == Choice(r)
       IN  IF Candidates(c.wardrobe) = {} THEN Reply(r, "404", {})
           ELSE \E outfit \in Picked(c, input[r].key) : Reply(r, "200", Ids(outfit))
    /\ KeepRows
    /\ UNCHANGED <<input, made, signalled, turn, total, loaded, log, prior>>

-----------------------------------------------------------------------------
(* GetWardrobeInsight: the counts, then what saved outfits refer to.        *)

Summarize(r) == /\ At(r, {"insight"}, "start")
                /\ IF DOMAIN rows = {}
                   THEN Reply(r, "204", {}) /\ UNCHANGED loaded
                   ELSE /\ loaded' = [loaded EXCEPT ![r] = <<{rows[i].category : i \in DOMAIN rows}>>]
                        /\ Goto(r, "cover")
                        /\ UNCHANGED result
                /\ KeepRows
                /\ UNCHANGED <<input, made, signalled, turn, total, log, prior>>

(* get_outfit_coverage. *)
Covered(ids) == {rows[i].category : i \in ids \cap DOMAIN rows}

Cover(r) == /\ At(r, {"insight"}, "cover")
            /\ Reply(r, "200", Covered(Worn) \cap loaded[r][1])
            /\ KeepRows
            /\ UNCHANGED <<input, made, signalled, turn, total, loaded, log, prior>>

(* The process dies; an item that was committed stays. *)
Die(r) == /\ stage[r] \notin {"done", "dead"}
          /\ Goto(r, "dead")
          /\ KeepRows
          /\ UNCHANGED <<input, made, signalled, turn, total, loaded, result, log, prior>>

Next == \E r \in Request :
            \/ Add(r) \/ Signal(r) \/ Load(r) \/ Select(r) \/ Write(r) \/ Delete(r)
            \/ CountItems(r) \/ ReadItems(r) \/ Derive(r) \/ DeriveToday(r)
            \/ Summarize(r) \/ Cover(r) \/ Die(r)

-----------------------------------------------------------------------------

(* The patches of an item that name a field, by their place in the log.     *)
Naming(id, f) ==
    {n \in DOMAIN log : input[log[n]].id = id /\ f \in DOMAIN input[log[n]].fields}

(* UpdateWardrobeItem: "Partial merge update".  Of patches that overlap any *)
(* may prevail, but a patch never undoes a field it does not name, and one  *)
(* that selected its row after another was committed prevails over it.      *)
EditsPrevail ==
    \A i \in DOMAIN Stock \cap DOMAIN rows : \A f \in DOMAIN rows[i] :
        LET latest == {n \in Naming(i, f) : \A m \in Naming(i, f) : m > n => prior[log[m]] < n}
        IN  rows[i][f] \in IF latest = {} THEN {Stock[i][f]} ELSE {input[log[n]].fields[f] : n \in latest}

(* _load_owner_wardrobe, "All of the owner's wardrobe items": each item     *)
(* that enters or leaves meanwhile makes the reading miss one of the others *)
(* at most, and read one twice at most; undisturbed, it has them all.       *)
ReadingsMissOnlyWhatMoved ==
    \A r \in Request : At(r, {"outfit", "today"}, "derive") =>
        LET found == {x.id : x \in Range(loaded[r])}
        IN  /\ Cardinality(kept[r] \ found) <= moved[r]
            /\ Len(loaded[r]) - Cardinality(found) <= moved[r]
            /\ moved[r] = 0 => found = kept[r]
=============================================================================
