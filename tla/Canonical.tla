------------------------------ MODULE Canonical ------------------------------
(***************************************************************************)
(* canonical_bytes of submission.py, and the id of a submission that is    *)
(* the hash of them.  A hash of a text is the text itself.                 *)
(*                                                                         *)
(* A value is a record of its kind and what it is of: a string is a        *)
(* sequence of characters, an array one of values, an object one of pairs  *)
(* in the order its members were put in.  Of the characters one stands for *)
(* each that is treated alike; a text is a sequence of characters too.     *)
(* What recurs on the parts of a value is a function of the values, and    *)
(* what it does with one of them an operator that is given the function.   *)
(***************************************************************************)
EXTENDS Integers, Sequences, SequencesExt

CONSTANTS
    Values,           \* the values that occur ...
    Depth,            \* ... and how deep each of them is nested
    Documents,        \* what is submitted: the members of some of them
    MAX_SAFE_INTEGER

Object(m) == [kind |-> "object", of |-> m]

Parts(v) ==
    CASE v.kind = "array" -> Range(v.of)
      [] v.kind = "object" -> {v.of[i].value : i \in DOMAIN v.of}
      [] OTHER -> {}

VARIABLES document, other

canonicalVars == <<document, other>>

(* The UTF-16 code units of a character.  The astral one has two, and the first
   of them is below that of the private one, although its code point is above. *)
Units ==
    [newline |-> <<10>>, control |-> <<1>>, quote |-> <<34>>, backslash |-> <<92>>, n |-> <<110>>,
     angstrom |-> <<8491>>, surrogate |-> <<55296>>, private |-> <<57344>>,
     astral |-> <<55296, 56320>>, artifact_id |-> <<97>>]

(* Faulty: what escapes is itself not escaped. *)
ShortWithoutBackslash == [newline |-> "n", quote |-> "quote"]

_SHORT == [newline |-> "n", quote |-> "quote", backslash |-> "backslash"]

(* The four digits of an escape. *)
Hex == [newline |-> "000a", control |-> "0001"]

(* A value is finite, and a mapping has a name once. *)
ASSUME CanonicalAssumption ==
    /\ MAX_SAFE_INTEGER \in Nat
    /\ Depth \in [Values -> Nat]
    /\ \A v \in Values :
        /\ v = [kind |-> v.kind, of |-> v.of]
        /\ v.kind = "constant" => v.of \in {"null", "true", "false"}
        /\ v.kind = "integer" => v.of \in Int
        /\ v.kind = "string" => v.of \in Seq(DOMAIN Units)
        /\ v.kind = "array" => v.of \in Seq(Values)
        /\ v.kind = "object" =>
            /\ v.of \in Seq([name : Seq(DOMAIN Units), value : Values])
            /\ \A i, j \in DOMAIN v.of : v.of[i].name = v.of[j].name => i = j
        /\ \A part \in Parts(v) : Depth[part] < Depth[v]
    /\ \A m \in Documents \cup {<<>>} : Object(m) \in Values

Encodable(s) == "surrogate" \notin Range(s)
NFC(s) == "angstrom" \notin Range(s)

(* No value has the empty text, so this is that of one that has none. *)
NoText == <<>>

EscapedChar(ch) ==
    IF ch \in DOMAIN _SHORT THEN <<"backslash", _SHORT[ch]>>
    ELSE IF Units[ch][1] < 32 THEN <<"backslash", "u", Hex[ch]>> ELSE <<ch>>

_string(s) ==
    IF Encodable(s) /\ NFC(s)
    THEN <<"quote">> \o FlattenSeq([i \in DOMAIN s |-> EscapedChar(s[i])]) \o <<"quote">>
    ELSE NoText

_member_sort_key(name) == FlattenSeq([i \in DOMAIN name |-> Units[name[i]]])

(* At the first place where two tuples differ, the one ends or is less. *)
Before(a, b) ==
    \E i \in DOMAIN b :
        /\ \A j \in 1..(i - 1) : j \in DOMAIN a /\ a[j] = b[j]
        /\ i \in DOMAIN a => a[i] < b[i]

Digit == <<"0", "1", "2", "3", "4", "5", "6", "7", "8", "9">>

Digits[n \in Nat] ==
    IF n < 10 THEN <<Digit[n + 1]>> ELSE Digits[n \div 10] \o <<Digit[(n % 10) + 1]>>

(* Texts with a comma between them, in brackets: none if one of them has none. *)
Bracketed(open, texts, close) ==
    IF NoText \in Range(texts) THEN NoText
    ELSE <<open>> \o FlattenSeq([i \in DOMAIN texts |->
                        IF i = 1 THEN texts[i] ELSE <<"comma">> \o texts[i]]) \o <<close>>

(* The members in the order of their names. *)
InOrder(m, place) ==
    \A i, j \in DOMAIN m :
        i < j => Before(_member_sort_key(m[place[i]].name), _member_sort_key(m[place[j]].name))

Sorted(m) ==
    LET place == CHOOSE place \in [DOMAIN m -> DOMAIN m] : InOrder(m, place)
    IN  [i \in DOMAIN m |-> m[place[i]]]

Member(p, value) ==
    IF _string(p.name) = NoText \/ value[p.value] = NoText THEN NoText
    ELSE _string(p.name) \o <<"colon">> \o value[p.value]

(* A name that has no code units fails in the sort already. *)
_object(m, value) ==
    Bracketed("left_brace", [i \in DOMAIN m |-> Member(Sorted(m)[i], value)], "right_brace")

Serialized(v, value) ==
    CASE v.kind = "constant" -> <<v.of>>
      [] v.kind = "integer" -> IF v.of \in 0..MAX_SAFE_INTEGER THEN Digits[v.of] ELSE NoText
      [] v.kind = "string" -> _string(v.of)
      [] v.kind = "object" -> _object(v.of, value)
      [] v.kind = "array" -> Bracketed("left_bracket", [i \in DOMAIN v.of |-> value[v.of[i]]], "right_bracket")
      [] OTHER -> NoText

_value[v \in Values] == Serialized(v, _value)

canonical_bytes(doc) == _object(doc, _value)

MemberNames(m) == {m[i].name : i \in DOMAIN m}

submission_artifact_id(doc) ==
    IF <<"artifact_id">> \in MemberNames(doc) THEN NoText ELSE canonical_bytes(doc)

verify_route_artifact_id(route, doc) == route # NoText /\ route = submission_artifact_id(doc)

-----------------------------------------------------------------------------
(* A document is sent under the id of itself, and another one comes with it. *)
CanonicalInit == document = <<>> /\ other = <<>>

Put == document = <<>> /\ other = <<>> /\ document' \in Documents /\ UNCHANGED other
Swap == document # <<>> /\ other = <<>> /\ other' \in Documents /\ UNCHANGED document

CanonicalNext == Put \/ Swap

CanonicalSpec == CanonicalInit /\ [][CanonicalNext]_canonicalVars

-----------------------------------------------------------------------------
(* The reference: what makes two values the same JSON, whatever is done with
   them, and which values the profile allows. *)
Alike(v, w, same) ==
    /\ v.kind = w.kind
    /\ CASE v.kind = "object" ->
            /\ MemberNames(v.of) = MemberNames(w.of)
            /\ \A i \in DOMAIN v.of, j \in DOMAIN w.of :
                v.of[i].name = w.of[j].name => w.of[j].value \in same[v.of[i].value]
         [] v.kind = "array" ->
            Len(v.of) = Len(w.of) /\ \A i \in DOMAIN v.of : w.of[i] \in same[v.of[i]]
         [] OTHER -> v.of = w.of

SameAs[v \in Values] == {w \in Values : Alike(v, w, SameAs)}

Allowed(v, profile) ==
    CASE v.kind = "integer" -> 0 <= v.of /\ v.of <= MAX_SAFE_INTEGER
      [] v.kind = "string" -> Range(v.of) \cap {"surrogate", "angstrom"} = {}
      [] v.kind = "array" -> \A i \in DOMAIN v.of : profile[v.of[i]]
      [] v.kind = "object" ->
            \A i \in DOMAIN v.of :
                profile[v.of[i].value] /\ Range(v.of[i].name) \cap {"surrogate", "angstrom"} = {}
      [] OTHER -> v.kind = "constant"

InProfile[v \in Values] == Allowed(v, InProfile)

(* One id for one document: a document has a text exactly if the profile allows
   all of it, two have the same text exactly if they are the same but for the
   order in which their members were put in, however they are escaped, sorted and
   put side by side; and the id of the one is the route of the other exactly then,
   never of a document that names its own id. *)
OneTextEach ==
    LET sent == Object(document)
        same == Object(other) \in SameAs[sent]
    IN  /\ canonical_bytes(document) # NoText <=> InProfile[sent]
        /\ InProfile[sent] => (same <=> canonical_bytes(document) = canonical_bytes(other))
        /\ verify_route_artifact_id(submission_artifact_id(document), other) <=>
            same /\ InProfile[sent] /\ <<"artifact_id">> \notin MemberNames(document)

=============================================================================
