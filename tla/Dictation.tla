----------------------------- MODULE Dictation -----------------------------
(***************************************************************************)
(* From what a technician dictates to what the form is proposed            *)
(* (voice/normalizer.py and the rule-based half of voice/extractor.py).    *)
(*                                                                         *)
(* A token is a pair of its kind and its content.  Words the recognizer    *)
(* does not tell apart in meaning (un, uno, una) are one token; the tables *)
(* of units, months and letters keep an entry of each kind.                *)
(***************************************************************************)
EXTENDS Integers, Sequences, SequencesExt, TLC

CONSTANTS
  Quantities,   \* numbers a technician may say
  Spoken,       \* codes the asset catalogue holds, in its order
  MaxPhrases    \* bound: phrases of one dictation

VARIABLE said   \* what is meant, phrase by phrase

wvars == <<said>>

-----------------------------------------------------------------------------
(* Words *)

W(w) == <<"word", w>>
Num(n) == <<"num", n>>
Y == <<"y", "y">>
MIL == <<"mil", 1000>>
MILLON == <<"millon", 1000000>>
Comma == W(",")

_UNITS(n) == <<"units", n>>
_TEENS(n) == <<"teens", n>>
_TENS(n) == <<"tens", n>>
_HUNDREDS(n) == <<"hundreds", n>>

_NUMBER_TOKENS == {"units", "teens", "tens", "hundreds", "mil", "millon", "y"}
Rank == [units |-> 1, teens |-> 2, tens |-> 2, hundreds |-> 3]

_UNIT_PHRASES ==
  (<<W("kilo"), W("voltios"), W("amperios")>> :> "kVA" @@
   <<W("kilo"), W("voltios")>> :> "kV" @@
   <<W("voltios")>> :> "V" @@ <<W("amperios")>> :> "A" @@ <<W("metros")>> :> "m" @@
   <<W("por"), _HUNDREDS(100)>> :> "%")

_KNOWN_UNIT_SYMBOLS == {_UNIT_PHRASES[p] : p \in DOMAIN _UNIT_PHRASES}
_MONTHS == [enero |-> 1, marzo |-> 3]
_FILLERS == {W("eh")}
_LETTER_NAMES == [be |-> "b", ve |-> "v", hache |-> "h", te |-> "t"]

-----------------------------------------------------------------------------
(* Numbers *)

NoNumber == -1
Of(t, kinds) == t[1] \in kinds
Dropping(ts, t) == SelectSeq(ts, LAMBDA x : x # t)

\* The word of a rank, when at most one has it.
Words(ts) == {i \in DOMAIN ts : ts[i] # Y}
RankOf(ts, i) == Rank[ts[i][1]]
Worth(ts, rank) ==
  IF \E i \in Words(ts) : RankOf(ts, i) = rank
  THEN ts[CHOOSE i \in Words(ts) : RankOf(ts, i) = rank][2] ELSE 0

\* "dos tres" has two words of one rank: somebody spelling a code.
_parse_under_thousand(ts) ==
  IF /\ Words(ts) # {}
     /\ \A i \in Words(ts) : Of(ts[i], DOMAIN Rank)
     /\ \A i, j \in Words(ts) : i < j => RankOf(ts, j) < RankOf(ts, i)
  THEN Worth(ts, 3) + Worth(ts, 2) + Worth(ts, 1)
  ELSE NoNumber

FirstOf(ts, t) == CHOOSE i \in DOMAIN ts : ts[i] = t /\ \A j \in 1 .. i - 1 : ts[j] # t

\* Left of the scale is how many of it, nothing being one; right, the rest.
Scaled(ts, scale, Parse(_)) ==
  IF ~Contains(ts, scale) THEN Parse(ts)
  ELSE LET i == FirstOf(ts, scale)
           left == SubSeq(ts, 1, i - 1)
           right == SubSeq(ts, i + 1, Len(ts))
           many == IF Words(left) = {} THEN 1 ELSE Parse(left)
           rest == IF Words(right) = {} THEN 0 ELSE Parse(right)
       IN IF NoNumber \in {many, rest} THEN NoNumber ELSE many * scale[2] + rest

_parse_under_million(ts) == Scaled(ts, MIL, _parse_under_thousand)
parse_number_words(ts) == Scaled(ts, MILLON, _parse_under_million)

\* Where the tokens of some kinds that begin at a place end.
RunFrom(ts, i, kinds) ==
  CHOOSE n \in i .. Len(ts) :
    /\ \A j \in i .. n : Of(ts[j], kinds)
    /\ n < Len(ts) => ~Of(ts[n + 1], kinds)

\* The run is read whole or stays as words; an "y" after it is no part of it.
_replace_number_runs(ts) ==
  LET from[i \in 1 .. Len(ts) + 1] ==
        IF i > Len(ts) THEN <<>>
        ELSE IF ts[i] = Y \/ ~Of(ts[i], _NUMBER_TOKENS) THEN <<ts[i]>> \o from[i + 1]
        ELSE LET end == RunFrom(ts, i, _NUMBER_TOKENS)
                 run_end == CHOOSE n \in i .. end : ts[n] # Y /\ \A j \in n + 1 .. end : ts[j] = Y
                 value == parse_number_words(SubSeq(ts, i, run_end))
             IN (IF value = NoNumber THEN SubSeq(ts, i, end)
                 ELSE <<Num(value)>> \o SubSeq(ts, run_end + 1, end)) \o from[end + 1]
  IN from[1]

At(ts, i, tokens) == i <= Len(ts) /\ ts[i] \in tokens
Number(ts, i) == i <= Len(ts) /\ Of(ts[i], {"num"})

_join_decimals(ts) ==
  LET from[i \in 1 .. Len(ts) + 1] ==
        LET point == At(ts, i + 1, {W("punto"), W("coma")}) /\ Number(ts, i + 2)
            half == IF At(ts, i + 1, {Y}) THEN i + 2 ELSE i + 1
        IN IF i > Len(ts) THEN <<>>
           ELSE IF Number(ts, i) /\ point
                THEN <<<<"decimal", <<ts[i][2], ts[i + 2][2]>>>>>> \o from[i + 3]
           ELSE IF Number(ts, i) /\ At(ts, half, {W("medio")})
                THEN <<<<"decimal", <<ts[i][2], 5>>>>>> \o from[half + 1]
           ELSE <<ts[i]>> \o from[i + 1]
  IN from[1]

\* The longest phrase wins.
_apply_units(ts, phrases) ==
  LET from[i \in 1 .. Len(ts) + 1] ==
        LET here == {p \in phrases : IsPrefix(p, SubSeq(ts, i, Len(ts)))}
        IN IF i > Len(ts) THEN <<>>
           ELSE IF here = {} THEN <<ts[i]>> \o from[i + 1]
           ELSE LET p == CHOOSE q \in here : \A r \in here : Len(r) <= Len(q)
                IN <<<<"symbol", _UNIT_PHRASES[p]>>>> \o from[i + Len(p)]
  IN from[1]

_apply_dates(ts) ==
  LET Date(i) ==
        /\ Number(ts, i) /\ At(ts, i + 1, {W("de")})
        /\ At(ts, i + 2, {W(month) : month \in DOMAIN _MONTHS})
        /\ At(ts, i + 3, {W("de")}) /\ Number(ts, i + 4)
        /\ ts[i][2] \in 1 .. 31 /\ ts[i + 4][2] \in 1900 .. 2999
      from[i \in 1 .. Len(ts) + 1] ==
        IF i > Len(ts) THEN <<>>
        ELSE IF Date(i)
             THEN <<<<"date", <<ts[i + 4][2], _MONTHS[ts[i + 2][2]], ts[i][2]>>>>>> \o from[i + 5]
        ELSE <<ts[i]>> \o from[i + 1]
  IN from[1]

\* Mutant: the numbers first, and "por ciento" after them.
normalize_numbers_first(ts) ==
  _apply_dates(_apply_units(_join_decimals(_replace_number_runs(ts)), DOMAIN _UNIT_PHRASES))

\* Phrases with a number word in them before the numbers, the others after.
_NUMBER_WORD_UNITS ==
  {p \in DOMAIN _UNIT_PHRASES : \E i \in DOMAIN p : Of(p[i], _NUMBER_TOKENS)}

normalize(ts) ==
  LET heard == SelectSeq(ts, LAMBDA t : t \notin _FILLERS)
      numbers == _replace_number_runs(_apply_units(heard, _NUMBER_WORD_UNITS))
  IN _apply_dates(_apply_units(_join_decimals(numbers), DOMAIN _UNIT_PHRASES))

-----------------------------------------------------------------------------
(* The form and its lexicon: a field of each kind, two enumerations that    *)
(* share an alias, and what announces each of them.                         *)

FormFields == {"capacity", "height", "grounded", "installed", "feeder", "plate", "phases", "pole", "arm"}
type == [capacity |-> "number", height |-> "number", grounded |-> "boolean", installed |-> "date",
         feeder |-> "code", plate |-> "string", phases |-> "enum", pole |-> "enum", arm |-> "enum"]
x_unit == [capacity |-> "kVA", height |-> "m"]

field_cues ==
  [f \in FormFields |->
     IF f = "height" THEN <<<<W("altura")>>, <<W("altura"), W("del"), W("poste")>>>>
     ELSE <<<<W(f)>>>>]

\* Longest alias first, as the code sorts them.
aliases ==
  [phases |-> <<[says |-> <<W("trifasico"), W("abierto")>>, value |-> "open"],
                [says |-> <<W("trifasico")>>, value |-> "three"]>>,
   pole |-> <<[says |-> <<W("bueno")>>, value |-> "good"],
              [says |-> <<W("malo")>>, value |-> "bad"]>>,
   arm |-> <<[says |-> <<W("bueno")>>, value |-> "good"],
             [says |-> <<W("malo")>>, value |-> "bad"]>>]

CUE_WINDOW == 6
CODE_WINDOW == 18
_CONNECTORS == {W("es"), W("de"), W("del"), Comma, _UNITS(1)}

NoProposal == <<"nothing", 0>>
NotFound == 0

_find_phrase(ts, phrase) ==
  LET places == {i \in 1 .. Len(ts) - Len(phrase) + 1 :
                   SubSeq(ts, i, i + Len(phrase) - 1) = phrase}
  IN IF places = {} THEN NotFound ELSE CHOOSE i \in places : \A j \in places : i <= j

\* Where the value may begin.  A later cue of the list that starts before the
\* end of the best so far takes its place: the longer form of it does.
_cue_position(ts, f) ==
  FoldLeft(LAMBDA best, cue :
             LET found == _find_phrase(ts, cue) IN
             IF found # NotFound /\ (best = NotFound \/ found < best) THEN found + Len(cue) ELSE best,
           NotFound, field_cues[f])

\* Aliases one field alone can mean.
_unique_alias_owners(f, alias) ==
  \A g \in DOMAIN aliases : \A i \in DOMAIN aliases[g] :
    aliases[g][i].says = alias.says => g = f /\ aliases[g][i].value = alias.value

\* Connectors between the cue and the value carry nothing.
_skip_connectors(ts, start) ==
  CHOOSE i \in start .. Len(ts) + 1 :
    /\ \A j \in start .. i - 1 : ts[j] \in _CONNECTORS
    /\ i <= Len(ts) => ts[i] \notin _CONNECTORS

Window(ts, start, size) == SubSeq(ts, start, IF start + size - 1 < Len(ts) THEN start + size - 1 ELSE Len(ts))

\* The first place of a window that a test admits, or NotFound.
FirstIn(ts, cue, size, Test(_)) ==
  LET found == {i \in cue .. cue + size - 1 : i <= Len(ts) /\ Test(i)}
  IN IF cue = NotFound \/ found = {} THEN NotFound ELSE CHOOSE i \in found : \A j \in found : i <= j

-----------------------------------------------------------------------------
(* One proposal per field, or NoProposal *)

\* Dropping the cue before it an alias counts only if nothing else is called so.
_propose_enum(f, ts) ==
  LET cue == _cue_position(ts, f)
      Heard(alias) ==
        LET position == _find_phrase(ts, alias.says) IN
        /\ position # NotFound
        /\ \/ cue # NotFound /\ position - cue \in 0 .. CUE_WINDOW
           \/ _unique_alias_owners(f, alias)
      i == SelectInSeq(aliases[f], Heard)
  IN IF i = NotFound THEN NoProposal ELSE <<"enum", aliases[f][i].value>>

_propose_boolean(f, ts) ==
  LET i == FirstIn(ts, _cue_position(ts, f), CUE_WINDOW, LAMBDA j : ts[j] \in {W("si"), W("no")})
  IN IF i = NotFound THEN NoProposal ELSE <<"boolean", ts[i] = W("si")>>

\* Mutant: the first number of the window, whatever its unit.
_any_number(f, ts) ==
  LET i == FirstIn(ts, _cue_position(ts, f), CUE_WINDOW, LAMBDA j : Of(ts[j], {"num", "decimal"}))
  IN IF i = NotFound THEN NoProposal ELSE ts[i]

\* A number with another unit is another quantity.
_propose_number(f, ts) ==
  LET OtherUnit(j) == j <= Len(ts) /\ Of(ts[j], {"symbol"}) /\ ts[j][2] # x_unit[f]
      i == FirstIn(ts, _cue_position(ts, f), CUE_WINDOW,
                   LAMBDA j : Of(ts[j], {"num", "decimal"}) /\ ~OtherUnit(j + 1))
  IN IF i = NotFound THEN NoProposal ELSE ts[i]

_propose_date(f, ts) ==
  LET i == FirstIn(ts, _cue_position(ts, f), CUE_WINDOW, LAMBDA j : Of(ts[j], {"date"}))
  IN IF i = NotFound THEN NoProposal ELSE ts[i]

\* The characters of a token; no code has the text of an ordinary word in it.
Digits(n) == IF n < 10 THEN <<ToString(n)>> ELSE <<ToString(n \div 10 % 10), ToString(n % 10)>>
NoCode == <<"?">>
Transcribed(t) ==
  CASE Of(t, {"letters"}) -> t[2] [] Of(t, {"num"}) -> Digits(t[2]) [] t = Comma -> <<>>
    [] OTHER -> NoCode
Spelled(t) ==
  CASE Of(t, {"units"}) -> Digits(t[2]) [] Of(t, {"num"}) -> Digits(t[2])
    [] Of(t, {"word"}) /\ t[2] \in DOMAIN _LETTER_NAMES -> <<_LETTER_NAMES[t[2]]>>
    [] OTHER -> NoCode
Read(ts, Of1(_)) == FlattenSeq([i \in DOMAIN ts |-> Of1(ts[i])])
spell_out(ts) == IF \E i \in DOMAIN ts : Spelled(ts[i]) = NoCode THEN NoCode ELSE Read(ts, Spelled)

sound_fold(code) ==
  LET voiced == SelectSeq(code, LAMBDA c : c # "h")
  IN [i \in DOMAIN voiced |-> IF voiced[i] = "v" THEN "b" ELSE voiced[i]]

\* The catalogue's code that was read, or sounded: the last of those alike.
Matching(reading) ==
  LET alike == {i \in DOMAIN Spoken : sound_fold(Spoken[i]) = sound_fold(reading)}
  IN IF reading = <<>> THEN NoCode
     ELSE IF Contains(Spoken, reading) THEN reading
     ELSE IF alike = {} THEN NoCode ELSE Spoken[CHOOSE i \in alike : \A j \in alike : j <= i]

\* Every slice of the window, the longest first, as transcribed or spelled.
_propose_code(ts, start) ==
  LET window == Window(ts, start, CODE_WINDOW)
      slices == {s \in (1 .. CODE_WINDOW) \X (1 .. CODE_WINDOW) : s[2] + s[1] - 1 <= Len(window)}
      Slice(s) == SubSeq(window, s[2], s[2] + s[1] - 1)
      Reads(s) == LET raw == Matching(Read(Slice(s), Transcribed)) IN
                  IF raw # NoCode THEN raw ELSE Matching(spell_out(Slice(s)))
      codes == {s \in slices : Reads(s) # NoCode}
  IN IF codes = {} THEN NoProposal
     ELSE <<"code", Reads(CHOOSE s \in codes : \A r \in codes :
                            r[1] < s[1] \/ (r[1] = s[1] /\ s[2] <= r[2]))>>

\* A code of no catalogue: the window spelled digit by digit, or one number.
_propose_string(f, ts) ==
  LET cue == _cue_position(ts, f)
      start == _skip_connectors(ts, cue)
      window == Window(ts, start, CUE_WINDOW)
  IN IF cue = NotFound \/ window = <<>> THEN NoProposal
     ELSE IF type[f] = "code" THEN _propose_code(ts, start)
     ELSE IF Dropping(window, Y) # <<>> /\ \A i \in DOMAIN window : Of(window[i], {"units", "y"})
          THEN <<"string", Read(Dropping(window, Y), Spelled)>>
     ELSE IF Of(window[1], {"num"}) THEN <<"string", Digits(window[1][2])>> ELSE NoProposal

_propose(f, ts) ==
  CASE type[f] = "enum" -> _propose_enum(f, ts)
    [] type[f] = "boolean" -> _propose_boolean(f, ts)
    [] type[f] = "number" -> _propose_number(f, ts)
    [] type[f] = "date" -> _propose_date(f, ts)
    [] OTHER -> _propose_string(f, ts)

-----------------------------------------------------------------------------
(* What is meant, and how it is said *)

\* Numbers as Spanish says them.
SayUnderThousand(n) ==
  LET tens == n % 100
      unit == n % 10
  IN (IF n >= 100 THEN <<_HUNDREDS(n - tens)>> ELSE <<>>) \o
     (IF n = 0 THEN <<_UNITS(0)>> ELSE IF tens = 0 THEN <<>>
      ELSE IF tens < 10 THEN <<_UNITS(tens)>> ELSE IF tens < 30 THEN <<_TEENS(tens)>>
      ELSE <<_TENS(tens - unit)>> \o (IF unit = 0 THEN <<>> ELSE <<Y, _UNITS(unit)>>))

SayScale(n, scale, Before(_), Rest(_)) ==
  LET many == n \div scale[2]
      left == n % scale[2]
  IN (IF many = 0 THEN <<>>
      ELSE (IF many = 1 /\ scale = MIL THEN <<>> ELSE Before(many)) \o <<scale>>) \o
     (IF many > 0 /\ left = 0 THEN <<>> ELSE Rest(left))

SayUnderMillion(n) == SayScale(n, MIL, SayUnderThousand, SayUnderThousand)
SayNumber(n) == SayScale(n, MILLON, SayUnderMillion, SayUnderMillion)

Amounts == {<<"num", n>> : n \in Quantities} \cup {<<"decimal", <<n, 5>>>> : n \in Quantities}
SayAmount(a) ==
  {IF a[1] = "num" THEN SayNumber(a[2]) ELSE SayNumber(a[2][1]) \o tail :
     tail \in {<<Y, W("medio")>>, <<W("punto"), _UNITS(5)>>}}

SayUnit(u) == CHOOSE p \in DOMAIN _UNIT_PHRASES : _UNIT_PHRASES[p] = u

SaySpelled(code) ==
  [i \in DOMAIN code |->
     IF \E d \in 0 .. 9 : ToString(d) = code[i]
     THEN _UNITS(CHOOSE d \in 0 .. 9 : ToString(d) = code[i])
     ELSE W(CHOOSE name \in DOMAIN _LETTER_NAMES : _LETTER_NAMES[name] = code[i])]

\* A digit by itself is a number to the normalizer; two are a code.
WrittenSpelled(code) ==
  LET ts == SaySpelled(code)
      ByItself(i) ==
        /\ i = 1 \/ ~Of(ts[i - 1], {"units"})
        /\ i = Len(ts) \/ ~Of(ts[i + 1], {"units"})
  IN [i \in DOMAIN ts |-> IF Of(ts[i], {"units"}) /\ ByItself(i) THEN Num(ts[i][2]) ELSE ts[i]]

\* A phrase: the field it is about, or none; its value; how it is said and
\* what is to be written for it.
Statement(f, value, says, writes) ==
  {[field |-> f, value |-> value, says |-> cue \o says, writes |-> cue \o writes] :
     cue \in ToSet(field_cues[f])}

Measures(f) ==
  UNION {UNION {Statement(f, a, <<W("es"), W("de")>> \o s \o SayUnit(x_unit[f]),
                          <<W("es"), W("de"), a, <<"symbol", x_unit[f]>>>>) : s \in SayAmount(a)}
         : a \in Amounts}

Phrases ==
  UNION {Measures("capacity"), Measures("height")}
  \cup UNION {Statement("capacity", NoProposal, <<W("es"), W("de")>> \o SayNumber(n) \o SayUnit("V"),
                        <<W("es"), W("de"), Num(n), <<"symbol", "V">>>>) : n \in Quantities}
  \cup UNION {Statement("grounded", <<"boolean", w = W("si")>>, <<w>>, <<w>>) : w \in {W("si"), W("no")}}
  \cup Statement("installed", <<"date", <<2025, 3, 31>>>>,
                 SayNumber(31) \o <<W("de"), W("marzo"), W("de")>> \o SayNumber(2025),
                 <<<<"date", <<2025, 3, 31>>>>>>)
  \cup UNION {Statement("feeder", <<"code", Spoken[i]>>, SaySpelled(Spoken[i]),
                        WrittenSpelled(Spoken[i])) : i \in DOMAIN Spoken}
  \cup UNION {Statement("plate", <<"string", p>>, SaySpelled(p), SaySpelled(p)) :
                p \in {<<"2", "3", "5">>, <<"1", "2", "3", "4", "5", "6", "7">>}}
  \cup UNION {UNION {Statement(f, <<"enum", aliases[f][i].value>>, aliases[f][i].says, aliases[f][i].says) :
                       i \in DOMAIN aliases[f]} : f \in DOMAIN aliases}
  \cup UNION {{[field |-> "none", value |-> NoProposal, says |-> s \o SayUnit(amount[2]) \o <<W("eh")>>,
                writes |-> <<amount[1], <<"symbol", amount[2]>>>>] : s \in SayAmount(amount[1])} :
                amount \in Amounts \X {"V", "%"}}

DictationInit == said = <<>>

Say ==
  /\ Len(said) < MaxPhrases
  /\ \E p \in Phrases : said' = Append(said, p)

DictationNext == Say
DictationSpec == DictationInit /\ [][DictationNext]_wvars

-----------------------------------------------------------------------------
(* Properties *)

Together(parts) == FoldLeft(LAMBDA all, p : all \o (IF all = <<>> THEN p ELSE <<Comma>> \o p), <<>>, parts)
Heard == Together([i \in DOMAIN said |-> said[i].says])
Meant == Together([i \in DOMAIN said |-> said[i].writes])

\* Whatever else is dictated around it: a number said in words, whole or with
\* a half or a decimal, comes out as itself with the symbol of its unit, a
\* date as a date, and the digits of a code as the words they were.
WrittenAsMeant == said # <<>> => normalize(Heard) = Meant

About(f) == {i \in DOMAIN said : said[i].field = f}
Shares(f) == IF f \in {"pole", "arm"} THEN {"pole", "arm"} ELSE {f}

\* A field that was spoken of once is proposed what was said of it, and one
\* that was not spoken of, nothing: each with the others' numbers, units and
\* codes beside it.  Two fields that share their aliases are excepted, and a
\* plate that is not the last thing said or is longer than the window.
FilledAsMeant ==
  said # <<>> =>
    LET ts == normalize(Heard) IN
    \A f \in FormFields :
      /\ About(f) = {} => _propose(f, ts) = NoProposal
      /\ \A i \in About(f) :
           /\ \A j \in DOMAIN said : j # i => said[j].field \notin Shares(f)
           /\ type[f] = "string" => i = Len(said) /\ Len(said[i].value[2]) <= CUE_WINDOW
           => _propose(f, ts) = said[i].value

\* What is said is written, and fills the form, as it was meant.
SpokenAsMeant == WrittenAsMeant /\ FilledAsMeant

(* What the documents say and the code does not keep *)

\* "A code is not partially right": seven digits are proposed as six.
WholeCodes ==
  \A i \in DOMAIN said :
    About("plate") = {i} => _propose("plate", normalize(Heard)) \in {NoProposal, said[i].value}
=============================================================================
