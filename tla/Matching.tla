------------------------------ MODULE Matching ------------------------------
(***************************************************************************)
(* Proposing the data-model profile of a unit from the metadata its agent  *)
(* exported, and the document its decisions make                           *)
(* (model_profile/matching.py, with drafts.py around it).  Versions and    *)
(* sessions are in module Profiles.                                        *)
(*                                                                         *)
(* A name is an identifier with the tokens it splits into.  A token is a   *)
(* term as it is, a truncation of one (ALIM), or several run together      *)
(* (CODPOSTE); of a term only its length matters beyond that.  Scores are  *)
(* in ten-thousandths, fractions of one dropped.                           *)
(***************************************************************************)
EXTENDS Integers, Sequences, FiniteSets, SequencesExt, TLC

CONSTANTS
  asset_types,         \* the canonical model: a sequence of types
  enums,               \* its enumerations, the values of each in order
  asset_terms,         \* strong and weak terms of a type's class
  attribute_terms,     \* terms of an attribute, spoken cues and key included
  enum_synonyms,       \* terms of a value
  housekeeping_terms,  \* names of columns the geodatabase keeps for itself
  Alphabet,            \* every name and canonical value, alphabetically
  Tokens,              \* the tokens of a name
  Length,              \* the letters of a term
  Schemas,             \* snapshots an agent may export
  MaxExports,          \* bound: snapshots
  MaxChoices,          \* bound: classes chosen by hand
  NoDomain, NoDraft    \* a field without a domain; no draft open

\* Each type and each attribute has a key of its own, an enumeration is asked once
\* of a type, and what is ranked by name has a place in the alphabet.
ASSUME MatchingGiven ==
  /\ asset_types \in Seq(ToSet(asset_types)) /\ Alphabet \in Seq(ToSet(Alphabet))
  /\ \A i, j \in DOMAIN asset_types : asset_types[i].key = asset_types[j].key => i = j
  /\ \A t \in ToSet(asset_types) : \A a, b \in ToSet(t.attributes) :
       /\ a.key = b.key => a = b
       /\ a.type = "enum" /\ b.type = "enum" /\ a.enum_ref = b.enum_ref => a = b
       /\ a.type = "enum" => ToSet(enums[a.enum_ref]) \subseteq ToSet(Alphabet)
  /\ \A metadata \in Schemas : \A layer \in metadata : \A f \in layer.fields :
       f.domain # NoDomain /\ f.domain.coded => DOMAIN f.domain.codes \subseteq ToSet(Alphabet)

VARIABLES
  exported,  \* classes of the metadata snapshot in force, or none yet
  draft,     \* the open draft, and the gaps it was opened with
  adopted,   \* decisions of the profile published last
  exports,   \* snapshots
  choices    \* classes chosen by hand

mxvars == <<exported, draft, adopted, exports, choices>>

MIN_CANDIDATE_SCORE == 3000
AMBIGUITY_MARGIN == 1000
MAX_CANDIDATES == 5
COVERAGE_WITHOUT_A_NAME == 8500
MIN_DISTINCTIVE_MATCHES == 2

AtMost(a, b) == IF a < b THEN a ELSE b
Highest(scores) == CHOOSE s \in scores : \A r \in scores : r <= s
Place(name) == CHOOSE i \in DOMAIN Alphabet : Alphabet[i] = name

\* Higher score first, then alphabetically.
RankedBy(S, Score(_), Name(_)) ==
  SetToSortSeq(S, LAMBDA a, b : \/ Score(a) > Score(b)
                                \/ Score(a) = Score(b) /\ Place(Name(a)) < Place(Name(b)))

Top(ranked) == SubSeq(ranked, 1, AtMost(Len(ranked), MAX_CANDIDATES))

-----------------------------------------------------------------------------
(* What a name proves *)

\* A token that is the term, a run that contains it, a truncation of it.
_term_score(names, terms, full, partial) ==
  LET tokens == UNION {Tokens[n] : n \in names}
      Score(term) ==
        IF <<"whole", term>> \in tokens THEN full
        ELSE IF Length[term] >= 4 /\ \E t \in tokens : t[1] = "run" /\ term \in t[2] THEN partial
        ELSE IF Length[term] >= 5 /\ <<"short", term>> \in tokens THEN (partial * 9) \div 10
        ELSE 0
  IN Highest({0} \cup {Score(t) : t \in terms})

Strongly(names, terms) == _term_score(names, terms, 10000, 6000)
Weakly(names, terms) == _term_score(names, terms, 4500, 3000)

geometry_agrees(t, layer) ==
  IF layer.geometry = "unknown" THEN "unknown"
  ELSE IF layer.geometry = t.geometry THEN "yes" ELSE "no"

_TYPE_COMPATIBILITY ==
  [string |-> {"string"}, number |-> {"double", "integer"}, enum |-> {"string", "integer"},
   date |-> {"date"}]

type_agrees(attribute, field) == field.type \in _TYPE_COMPATIBILITY[attribute.type]

field_is_eligible(field) ==
  field.category = "business" /\ field.name \notin housekeeping_terms

-----------------------------------------------------------------------------
(* The codes of a domain for the values of an enumeration *)

ValueScore(enum, domain, value, code) ==
  LET terms == enum_synonyms[enum][value]
  IN Highest({Strongly({domain.codes[code]}, terms), Strongly({code}, terms)})

Pairs(enum, domain) ==
  IF ~domain.coded THEN {}
  ELSE {p \in ToSet(enums[enum]) \X DOMAIN domain.codes :
          ValueScore(enum, domain, p[1], p[2]) >= 4000}

\* What each of them scores.
Scores(enum, domain) ==
  [p \in Pairs(enum, domain) |-> ValueScore(enum, domain, p[1], p[2])]

\* By score, then value, then code.
Before(a, of_a, b, of_b) ==
  \/ of_a > of_b
  \/ of_a = of_b /\ Place(a[1]) < Place(b[1])
  \/ of_a = of_b /\ a[1] = b[1] /\ Place(a[2]) < Place(b[2])
Turn(scored, left) ==
  CHOOSE p \in left : \A q \in left \ {p} : Before(p, scored[p], q, scored[q])

\* A pair in its turn takes its value and its code, and the others that want
\* one of them are passed over.
Take(scored, done) ==
  LET p == Turn(scored, done.left) IN
  IF done.left = {} THEN done
  ELSE [map |-> [v \in DOMAIN done.map \cup {p[1]} |-> IF v = p[1] THEN p[2] ELSE done.map[v]],
        left |-> {q \in done.left : q[1] # p[1] /\ q[2] # p[2]}]

Assigned(scored) ==
  LET n == Cardinality(DOMAIN scored)
      done[i \in 0 .. n] == IF i = 0 THEN [map |-> <<>>, left |-> DOMAIN scored]
                            ELSE Take(scored, done[i - 1])
  IN done[n].map

\* Mutant: value by value, in their order.
value_by_value(enum, domain) == Assigned([p \in Pairs(enum, domain) |-> 0])

propose_value_map(enum, domain) == Assigned(Scores(enum, domain))

-----------------------------------------------------------------------------
(* Candidates *)

Best(candidates) == candidates[1]
ambiguous(candidates) ==
  Len(candidates) > 1 /\ candidates[1].score - candidates[2].score < AMBIGUITY_MARGIN

\* The domain bears on an enumeration, nullability on what is required.
FieldScore(attribute, field, name_score) ==
  LET typed == IF attribute.type = "string" /\ field.type # "string" THEN -1500 ELSE 0
      valued == IF attribute.type # "enum" THEN 0
                ELSE IF field.domain = NoDomain THEN -2000
                ELSE (2000 * Cardinality(DOMAIN propose_value_map(attribute.enum_ref, field.domain)))
                     \div Len(enums[attribute.enum_ref])
      required == IF attribute.required /\ ~field.nullable THEN 1000 ELSE 0
  IN Highest({0, (name_score * 8) \div 10 + typed + valued + required})

propose_attribute(attribute, layer) ==
  LET Name(f) == Strongly({f.name, f.alias}, attribute_terms[attribute.key])
      offered == {f \in layer.fields :
                    Name(f) > 0 /\ field_is_eligible(f) /\ type_agrees(attribute, f)}
  IN Top(RankedBy({[field |-> f, score |-> FieldScore(attribute, f, Name(f))] : f \in offered},
                  LAMBDA c : c.score, LAMBDA c : c.field.name))

\* Attributes of no more than half the types tell which type a class is.
distinctive_attribute_keys ==
  {k \in UNION {{a.key : a \in ToSet(t.attributes)} : t \in ToSet(asset_types)} :
     2 * Len(SelectSeq(asset_types, LAMBDA t : \E a \in ToSet(t.attributes) : a.key = k))
       <= Len(asset_types)}

\* The share of the attributes that found a field; required ones count double.
_coverage(t, found) ==
  LET Counts(i) == IF t.attributes[i].required THEN 2 ELSE 1
      Matched(i) == IF found[i] = <<>> THEN 0 ELSE Counts(i) * AtMost(Best(found[i]).score, 10000)
      Total(F(_)) == FoldLeft(LAMBDA sum, i : sum + F(i), 0, [i \in DOMAIN found |-> i])
  IN Total(Matched) \div Total(Counts)

\* A class the administrator chose, whatever it scores.
propose_asset_against(t, layer) ==
  [i \in DOMAIN t.attributes |-> propose_attribute(t.attributes[i], layer)]

LayerName(t, layer) ==
  AtMost(10000, Strongly({layer.name}, asset_terms[t.key].strong)
                + Weakly({layer.name}, asset_terms[t.key].weak) \div 2)

\* A class of the wrong geometry is none; nor one whose name says nothing and
\* whose fields could be those of any type.
LayerCandidate(t, layer, found, name_score) ==
  LET telling == {i \in DOMAIN found :
                    found[i] # <<>> /\ t.attributes[i].key \in distinctive_attribute_keys}
      coverage == _coverage(t, found)
      agrees == geometry_agrees(t, layer)
  IN IF \/ agrees = "no"
        \/ /\ name_score = 0
           /\ coverage < COVERAGE_WITHOUT_A_NAME \/ Cardinality(telling) < MIN_DISTINCTIVE_MATCHES
     THEN {}
     ELSE {[layer |-> layer, attributes |-> found,
            score |-> name_score \div 2 + (35 * coverage) \div 100
                      + IF agrees = "yes" THEN 1500 ELSE 0]}

propose_layer(t, layer) ==
  LayerCandidate(t, layer, propose_asset_against(t, layer), LayerName(t, layer))

AssetProposal(t, metadata) ==
  LET scored == {c \in UNION {propose_layer(t, layer) : layer \in metadata} :
                   c.score >= MIN_CANDIDATE_SCORE}
  IN Top(RankedBy(scored, LAMBDA c : c.score, LAMBDA c : c.layer.name))

propose_profile(metadata) == [i \in DOMAIN asset_types |-> AssetProposal(asset_types[i], metadata)]

\* What is left for a person to decide.
gaps(proposal) ==
  UNION {LET t == asset_types[i]
             candidates == proposal[i]
             found == IF candidates = <<>> THEN <<>> ELSE Best(candidates).attributes
             Unmapped(c, a) ==
               /\ a.type = "enum" /\ c.field.domain # NoDomain
               /\ DOMAIN propose_value_map(a.enum_ref, c.field.domain) # ToSet(enums[a.enum_ref])
         IN (IF candidates = <<>> \/ ambiguous(candidates) THEN {<<t.key>>} ELSE {})
            \cup {<<t.key, t.attributes[j].key>> : j \in {k \in DOMAIN found :
                    \/ found[k] = <<>> /\ t.attributes[k].required
                    \/ ambiguous(found[k])
                    \/ found[k] # <<>> /\ Unmapped(Best(found[k]), t.attributes[k])}}
         : i \in DOMAIN proposal}

-----------------------------------------------------------------------------
(* Decisions, and the document they make *)

Filled(attributes, found, wanted) ==
  LET kept == {i \in wanted : found[i] # <<>>}
      Of(k) == CHOOSE i \in kept : attributes[i].key = k
  IN [k \in {attributes[i].key : i \in kept} |-> Best(found[Of(k)]).field.name]

\* What the evidence settles is filled in beforehand; a coin flip is not.
default_decisions(proposal) ==
  LET Settled == {i \in DOMAIN proposal : proposal[i] # <<>> /\ ~ambiguous(proposal[i])}
      Of(k) == CHOOSE i \in Settled : asset_types[i].key = k
  IN [k \in {asset_types[i].key : i \in Settled} |->
        LET best == Best(proposal[Of(k)]) IN
        [layer |-> best.layer.name,
         attributes |-> Filled(asset_types[Of(k)].attributes, best.attributes,
                               {i \in DOMAIN best.attributes : ~ambiguous(best.attributes[i])})]]

\* What was decided stays; the proposal adds what nobody had decided.
_carry_over(previous, proposed) ==
  [k \in DOMAIN previous \cup DOMAIN proposed |->
     IF k \notin DOMAIN previous THEN proposed[k]
     ELSE IF k \notin DOMAIN proposed THEN previous[k]
     ELSE [previous[k] EXCEPT !.attributes = @ @@ proposed[k].attributes]]

LayerOf(metadata, name) == {layer \in metadata : layer.name = name}
FieldOf(layer, name) == {f \in layer.fields : f.name = name}

DecidedLayer(metadata, decided) == CHOOSE layer \in LayerOf(metadata, decided.layer) : TRUE
DecidedField(metadata, decided, a) ==
  CHOOSE f \in FieldOf(DecidedLayer(metadata, decided), decided.attributes[a]) : TRUE

\* The attributes that were decided, each with the place of its type.
Decided(decisions) ==
  UNION {LET t == asset_types[i] IN
         {<<i, a>> : a \in {a \in ToSet(t.attributes) :
            t.key \in DOMAIN decisions /\ a.key \in DOMAIN decisions[t.key].attributes}}
         : i \in DOMAIN asset_types}

\* DocumentError: a class or a field the snapshot lacks, or one never written.
Buildable(metadata, decisions) ==
  \A k \in DOMAIN decisions :
    LET decided == decisions[k] IN
    /\ LayerOf(metadata, decided.layer) # {}
    /\ \A a \in DOMAIN decided.attributes :
         /\ FieldOf(DecidedLayer(metadata, decided), decided.attributes[a]) # {}
         /\ field_is_eligible(DecidedField(metadata, decided, a))

NoDocument == [bindings |-> <<>>, value_maps |-> <<>>, built |-> FALSE]

\* Two types may map one enumeration onto different domains: the first has the
\* table, and who maps it otherwise a table of its own.
table_name(maps, key, b) ==
  LET enum == b[2].enum_ref
      sharing == {c \in DOMAIN maps : c[2].enum_ref = enum}
      first == CHOOSE c \in sharing : \A other \in sharing : c[1] <= other[1]
  IN IF maps[b] # maps[first] THEN <<enum, key>> ELSE <<enum>>

build_profile_document(metadata, decisions) ==
  LET bound == Decided(decisions)
      Key(b) == asset_types[b[1]].key
      fields == [b \in bound |-> DecidedField(metadata, decisions[Key(b)], b[2].key)]
      coded == {b \in bound : b[2].type = "enum" /\ fields[b].domain # NoDomain}
      maps == [b \in coded |-> propose_value_map(b[2].enum_ref, fields[b].domain)]
      tables == [b \in coded |-> table_name(maps, Key(b), b)]
      Called(name) == CHOOSE b \in bound : <<Key(b), b[2].key>> = name
      Written(table) == CHOOSE b \in coded : tables[b] = table
  IN IF ~Buildable(metadata, decisions) THEN NoDocument
     ELSE [bindings |-> [name \in {<<Key(b), b[2].key>> : b \in bound} |->
             LET b == Called(name) IN
             [field |-> fields[b], type |-> b[2].type,
              table |-> IF b \in coded THEN tables[b] ELSE <<b[2].enum_ref>>]],
           value_maps |-> [table \in {tables[b] : b \in coded} |-> maps[Written(table)]],
           built |-> TRUE]

\* What keeps a document from being published, by type and attribute.
validate_document(decisions, document) ==
  UNION {LET t == asset_types[i]
             Lacks(a) ==
               IF <<t.key, a.key>> \notin DOMAIN document.bindings THEN a.required
               ELSE LET table == document.bindings[<<t.key, a.key>>].table IN
                    a.type = "enum" /\ (table \in DOMAIN document.value_maps =>
                      DOMAIN document.value_maps[table] # ToSet(enums[a.enum_ref]))
         IN IF t.key \notin DOMAIN decisions THEN {<<t.key>>}
            ELSE {<<t.key, a.key>> : a \in {b \in ToSet(t.attributes) : Lacks(b)}}
         : i \in DOMAIN asset_types}

-----------------------------------------------------------------------------
(* The administrator's steps *)

DraftOf(decisions, first, document) ==
  [decisions |-> decisions, document |-> document, metadata |-> exported, gaps |-> first,
   problems |-> IF document.built THEN validate_document(decisions, document) ELSE {<<>>}]

Draft(decisions, first) == DraftOf(decisions, first, build_profile_document(exported, decisions))

MatchingInit ==
  /\ exported = {}
  /\ draft = NoDraft
  /\ adopted = <<>>
  /\ exports = 0
  /\ choices = 0

\* The agent exports what its GIS has now.
Export ==
  /\ exports < MaxExports
  /\ exports' = exports + 1
  /\ exported' \in Schemas
  /\ UNCHANGED <<draft, adopted, choices>>

Started(proposal) == Draft(_carry_over(adopted, default_decisions(proposal)), gaps(proposal))

\* `start_draft`, with the gaps shown beside it.
StartDraft ==
  /\ draft = NoDraft /\ exported # {}
  /\ draft' = Started(propose_profile(exported))
  /\ UNCHANGED <<exported, adopted, exports, choices>>

\* Another class for a type, its fields proposed anew, some of them left out.
Choose ==
  /\ draft # NoDraft
  /\ choices < MaxChoices
  /\ choices' = choices + 1
  /\ \E i \in DOMAIN asset_types, layer \in exported :
       LET t == asset_types[i]
           found == propose_asset_against(t, layer)
       IN \E out \in SUBSET DOMAIN found :
            LET decision == [layer |-> layer.name,
                             attributes |-> Filled(t.attributes, found, DOMAIN found \ out)]
            IN draft' = Draft((t.key :> decision) @@ draft.decisions, draft.gaps)
  /\ UNCHANGED <<exported, adopted, exports>>

\* `publish_draft`: validated again, as it was stored.
PublishProfile ==
  /\ draft # NoDraft
  /\ draft.problems = {}
  /\ adopted' = draft.decisions
  /\ draft' = NoDraft
  /\ UNCHANGED <<exported, exports, choices>>

MatchingNext == Export \/ StartDraft \/ Choose \/ PublishProfile
MatchingSpec == MatchingInit /\ [][MatchingNext]_mxvars

-----------------------------------------------------------------------------
(* Properties *)

\* Whatever was proposed, chosen by hand or kept from another version, every
\* enumeration is written with the codes of its own field's domain, one code
\* to a value: two types that share an enumeration do not share a table made
\* for one of them.  And no value is left with a worse code, or none, while
\* the one it agrees with went to a value that agrees with it less.
WrittenInItsCodes ==
  draft # NoDraft =>
    \A b \in DOMAIN draft.document.bindings :
      LET bound == draft.document.bindings[b]
          enum == bound.table[1]
          domain == bound.field.domain
          map == draft.document.value_maps[bound.table]
          Agree(v, c) == ValueScore(enum, domain, v, c)
      IN bound.type = "enum" /\ domain # NoDomain =>
           /\ \A v \in DOMAIN map : <<v, map[v]>> \in Pairs(enum, domain)
           /\ \A v, w \in DOMAIN map : map[v] = map[w] => v = w
           /\ \A p \in Pairs(enum, domain) :
                \/ p[1] \in DOMAIN map /\ Agree(p[1], map[p[1]]) >= Agree(p[1], p[2])
                \/ \E v \in DOMAIN map : map[v] = p[2] /\ Agree(v, p[2]) >= Agree(p[1], p[2])

(* What the documents say and the code does not keep *)

\* "Losing their earlier overrides would make re-importing something people
\* avoid": with the same metadata, the draft made of the mapping in force is
\* built as that one was.  The fields the proposal adds may be another class's.
ReimportBuilds ==
  [][StartDraft /\ adopted # <<>> /\ exports = 1 => draft'.document.built]_mxvars

\* "What a person still has to decide": all of it.
GapsSayAll ==
  [][StartDraft /\ adopted = <<>> => draft'.problems \subseteq draft'.gaps]_mxvars
=============================================================================
