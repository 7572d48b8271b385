------------------------------ MODULE Evidence ------------------------------
(***************************************************************************)
(* What a reasoning answer may rest on: the retrieval of corpus documents   *)
(* for a query (ffo_retrieval.py over data/ffo/corpus.py), the structure a  *)
(* model's output must have (ffo_reasoning.py), the admission of its        *)
(* conclusions (conclusion_admission.py), the selection of their references *)
(* (ffo_ref_selector.py) and the order in which OllamaFashionReasoner       *)
(* applies them.                                                            *)
(*                                                                         *)
(* A name is one word, and a query is the set of the words it mentions:     *)
(* tokens, plurals and phrases are left out.  A document is a record whose  *)
(* absent fields are None; the order of retrieval, which decides nothing    *)
(* here, is left out too.  Entities of the request, which only benchmark    *)
(* cases fill, are empty.                                                   *)
(***************************************************************************)
EXTENDS Naturals, Sequences, FiniteSets, Functions

CONSTANT None

Set(S) == S \ {None}

(* ffo_references of a document. *)
References(d) == Set({d.canonical, d.alias, d.kind, d.subject, d.object, d.effect})

(* The names and payload strings of a document that are matched by tokens.  *)
Text(d) == Set({d.canonical, d.alias, d.effect})

(* What the whole query may be equal to. *)
Secondary(d) == Set({d.kind, d.subject, d.object, d.effect, d.domain}) \cup d.when

(* _score_doc, whatever the tier. *)
IsRetrieved(d, query) == \/ query \cap Text(d) # {}
                         \/ \E name \in Secondary(d) : query = {name}

(* The evidence pack of a query. *)
Retrieve(corpus, query) == {d \in corpus : IsRetrieved(d, query)}

(* build_index: the aliases of a corpus lead to its terms, each to one.     *)
IsIndexed(corpus) ==
    /\ \A d, e \in corpus : d.type = "term" /\ e.type = "term" /\ d.canonical = e.canonical => d = e
    /\ \A d, e \in corpus : d.id = e.id => d = e
    /\ \A d \in corpus : d.type = "alias" =>
          /\ \E e \in corpus : e.type = "term" /\ e.canonical = d.canonical
          /\ \A e \in corpus : e.type = "alias" /\ e.alias = d.alias => e.canonical = d.canonical

-----------------------------------------------------------------------------

(* _admission_universe: what the pack names. *)
Canonicals(pack) == Set({d.canonical : d \in pack} \cup {d.subject : d \in pack}
                                                   \cup {d.object : d \in pack})
Effects(pack) == Set({d.effect : d \in pack})
Aliases(pack) == {d \in pack : d.alias # None}

(* derive_targets: what the query names; or else, if it names a kind, what  *)
(* the pack has of that kind.                                               *)
Targets(pack, query) ==
    LET named == (Canonicals(pack) \cup Effects(pack)) \cap query
        other == {d.canonical : d \in {a \in Aliases(pack) : a.alias \in query}}
        kinds == {d.canonical : d \in {e \in pack : e.kind \in query}}
    IN  IF named \cup other # {} THEN named \cup other ELSE Set(kinds)

(* resolve_subject: canonicals and effects are what they are, an alias is   *)
(* what it stands for, and anything else is None.                           *)
Resolve(pack, subject) ==
    IF subject \in Canonicals(pack) \cup Effects(pack) THEN subject
    ELSE IF \E d \in pack : d.alias # None /\ d.alias = subject
         THEN (CHOOSE d \in pack : d.alias = subject).canonical
         ELSE None

(* _edge_licenses, for one cited document. *)
Licenses(d, subject, targets) ==
    \/ /\ d.type = "relationship"
       /\ subject \in {d.subject, d.object}
       /\ targets \cap {d.subject, d.object} # {}
    \/ /\ d.type = "rule"
       /\ \/ d.effect \in targets
          \/ d.effect = subject /\ d.when \cap targets # {}

(* Faulty: what was retrieved together is taken to belong together.         *)
CoOccurring(pack, cited) == pack

(* The documents whose edges count. *)
Edges(pack, cited) == {d \in pack : d.id \in cited}

Ids(pack) == {d.id : d \in pack}

(* _adjudicate_resolved: the verdict on a conclusion with its record.       *)
Verdict(pack, query, c) ==
    LET cited   == UNION Range(c.claims)
        subject == Resolve(pack, c.subject)
        targets == Targets(pack, query)
    IN  CASE ~ c.recorded                                 -> "missing"
          [] c.recorded /\ (c.claims = <<>> \/ {} \in Range(c.claims)
                              \/ ~ cited \subseteq Ids(pack) \/ subject = None) -> "reject"
          [] OTHER ->
             IF subject \notin targets
             THEN IF \E d \in Edges(pack, cited) : Licenses(d, subject, targets)
                  THEN "admit" ELSE "reject"
             ELSE IF c.subject \in Canonicals(pack) \cup Effects(pack) THEN "admit" ELSE "qualify"

(* Said already, of the same subject, by a conclusion that was admitted.    *)
IsDuplicate(pack, query, cs, i) ==
    \E j \in 1 .. i - 1 :
        /\ Verdict(pack, query, cs[j]) = "admit"
        /\ Resolve(pack, cs[j].subject) = Resolve(pack, cs[i].subject)
        /\ cs[j].says = cs[i].says

(* apply_admission, for the conclusion at i. *)
IsAdmitted(pack, query, cs, i) ==
    \/ Verdict(pack, query, cs[i]) = "qualify"
    \/ Verdict(pack, query, cs[i]) = "admit" /\ ~ IsDuplicate(pack, query, cs, i)

(* The targets that no admitted conclusion is about. *)
Uncovered(pack, query, cs) ==
    Targets(pack, query) \
        {Resolve(pack, cs[i].subject) : i \in {j \in DOMAIN cs : IsAdmitted(pack, query, cs, j)}}

-----------------------------------------------------------------------------

(* validate_output: the structure, whatever the evidence says.              *)
IsWellFormed(pack, output, max) ==
    /\ \A i \in DOMAIN output.conclusions :
          LET c == output.conclusions[i]
          IN  c.cites # {} /\ c.cites \subseteq Ids(pack)
    /\ Len(output.conclusions) <= max
    /\ (\E i \in DOMAIN output.conclusions : output.conclusions[i].contested) => output.contradictions
    /\ output.unsupported => output.conclusions = <<>>
    /\ output.conclusions = <<>> /\ ~ output.unsupported => output.missing
    /\ output.pinned

(* select_refs: a kind stays if the statement has its word or two cited     *)
(* terms share it; the rest stays, known or not.                            *)
Selected(pack, c) ==
    LET isKind(ref) == /\ \E d \in pack : d.kind = ref
                       /\ \A d \in pack : ref \notin {d.canonical, d.alias, d.subject, d.object, d.effect}
        sharing(ref) == Set({d.canonical : d \in {e \in pack : e.id \in c.cites /\ e.kind = ref}})
    IN  {ref \in c.refs : isKind(ref) => ref \in c.words \/ Cardinality(sharing(ref)) >= 2}

(* _check_ffo_refs. *)
IsPermitted(pack, c) == c.refs \subseteq UNION {References(d) : d \in pack}

Rejected == [invalid |-> TRUE]

(* apply_admission: the places of what is admitted, in their order.         *)
Admitted(pack, query, cs) ==
    LET places == {i \in DOMAIN cs : IsAdmitted(pack, query, cs, i)}
    IN  [n \in 1 .. Cardinality(places) |->
            CHOOSE i \in places : Cardinality({j \in places : j < i}) = n - 1]

(* OllamaFashionReasoner.reason, of one output: validation, admission,      *)
(* selection and the permission of references.                              *)
Reason(pack, query, output, max) ==
    LET cs       == output.conclusions
        admitted == Admitted(pack, query, cs)
        kept     == [i \in DOMAIN admitted |->
                        [cs[admitted[i]] EXCEPT !.refs = Selected(pack, cs[admitted[i]])]]
        missing  == \/ output.missing
                    \/ admitted = <<>> /\ cs # <<>> /\ Uncovered(pack, query, cs) # {}
    IN  IF \/ ~ IsWellFormed(pack, output, max)
           \/ cs # <<>> /\ \A i \in DOMAIN cs : ~ cs[i].recorded
           \/ \E i \in DOMAIN kept : ~ IsPermitted(pack, kept[i])
        THEN Rejected
        ELSE [invalid |-> FALSE, conclusions |-> kept, missing |-> missing,
              unsupported |-> output.unsupported, contradictions |-> output.contradictions]

-----------------------------------------------------------------------------

(* What the answer to a query may say, whatever the model said: a           *)
(* conclusion was proposed by the model and is passed on with no reference  *)
(* added, cites what was retrieved, and is about something the query names, *)
(* or is tied to it by a document its own claims cite.                      *)
IsGrounded(pack, query, output, max) ==
    LET answer == Reason(pack, query, output, max)
        said(c) == \E i \in DOMAIN output.conclusions :
                      /\ c = [output.conclusions[i] EXCEPT !.refs = c.refs]
                      /\ c.refs \subseteq output.conclusions[i].refs
        tied(c) == \E d \in pack :
                      /\ d.id \in UNION Range(c.claims)
                      /\ \/ d.type = "relationship" /\ {d.subject, d.object} \cap Targets(pack, query) # {}
                         \/ d.type = "rule" /\ ({d.effect} \cup d.when) \cap Targets(pack, query) # {}
    IN  ~ answer.invalid =>
            \A i \in DOMAIN answer.conclusions :
                LET c == answer.conclusions[i]
                IN  /\ said(c)
                    /\ c.cites \cup UNION Range(c.claims) \subseteq Ids(pack)
                    /\ Resolve(pack, c.subject) \in Targets(pack, query) \/ tied(c)
=============================================================================
