------------------------------- MODULE JsonText -------------------------------
(***************************************************************************)
(* parson.c: from a text to a value and back, json_parse_string and        *)
(* json_serialize_to_string.  A text is a sequence of tokens; JsonStrings  *)
(* is about what is inside quoted strings.  The cursor is the code's       *)
(* **string: 1 at the first token, Len(text) + 1 at the terminator.        *)
(*                                                                         *)
(* Allocations succeed here (JsonTree is about those that fail).  A token  *)
(* " " stands for any white space.  A step adds a token to the text and    *)
(* parses it from its beginning; the text grows while more of it can       *)
(* change the outcome.                                                     *)
(***************************************************************************)
EXTENDS Integers, Sequences, SequencesExt, JsonNull

CONSTANTS Strings,      \* quoted strings; as names they have no \0 in them
          Literals,     \* of "null", "true", "false"
          MAX_NESTING,
          MaxText       \* bound: tokens in a text, "," and ":" not counted

Digits == {"0", "1"}
Marks == {"{", "}", "[", "]", ",", ":", "-", " "}
Tokens == Strings \union Literals \union Digits \union Marks
END == "\\0"

VARIABLES text, result
textVars == <<text, result>>

Scalar(kind, says) == [kind |-> kind, says |-> says, items |-> <<>>]
Container(kind, items) == [kind |-> kind, says |-> <<>>, items |-> items]
Failed(p) == [value |-> NULL, at |-> p]

At(t, p) == IF p <= Len(t) THEN t[p] ELSE END

\* SKIP_WHITESPACES.
SkipWhitespaces(t, p) ==
  CHOOSE q \in p .. Len(t) + 1 : At(t, q) # " " /\ \A r \in p .. q - 1 : t[r] = " "

-----------------------------------------------------------------------------
\* is_decimal, for numbers of these digits.
IsDecimal(n) ==
  /\ ~(Len(n) > 1 /\ n[1] = "0")
  /\ ~(Len(n) > 2 /\ n[1] = "-" /\ n[2] = "0")

\* Where strtod ends: where it began, when there is no digit.
NumberEnd(t, p) ==
  LET d == IF At(t, p) = "-" THEN p + 1 ELSE p
      q == CHOOSE q \in d .. Len(t) + 1 :
             At(t, q) \notin Digits /\ \A r \in d .. q - 1 : t[r] \in Digits
  IN  IF q = d THEN p ELSE q

ParseNumber(t, p) ==
  LET n == SubSeq(t, p, NumberEnd(t, p) - 1)
  IN  IF ~IsDecimal(n) THEN Failed(p)
      ELSE [value |-> Scalar("number", IF n = <<>> THEN <<"0">> ELSE n),
            at    |-> NumberEnd(t, p)]

\* Behind an item: whether another one follows, and where it begins or where the
\* closing mark should be.  A comma may be followed by the closing mark.
GoesOn(t, p, close) ==
  LET q == SkipWhitespaces(t, p)
  IN  At(t, q) = "," /\ At(t, SkipWhitespaces(t, q + 1)) # close
Behind(t, p) ==
  LET q == SkipWhitespaces(t, p)
  IN  IF At(t, q) = "," THEN SkipWhitespaces(t, q + 1) ELSE q

\* What makes json_object_add fail: the object has the name.
NameTaken(items, name) == \E n \in DOMAIN items : items[n].name = name

\* The nesting parse_value passes on.
Deeper(kind, nesting) == nesting + 1

\* Faulty variant: one closing mark is as good as the other.
ClosesAnything(t, p, close) == At(t, p) \in {"}", "]"}

Closes(t, p, close) == At(t, p) = close

Close(kind) == IF kind = "object" THEN "}" ELSE "]"

RECURSIVE ParseValue(_, _, _), ParseItems(_, _, _, _, _)

\* The loop of parse_object_value or of parse_array_value, with these items.
ParseItems(t, p, nesting, kind, items) ==
  LET isObject == kind = "object"
      name     == IF isObject THEN At(t, p) ELSE NULL
      colon    == SkipWhitespaces(t, p + 1)
      item     == ParseValue(t, IF isObject THEN colon + 1 ELSE p, nesting)
      now      == Append(items, [name |-> name, value |-> item.value])
      behind   == Behind(t, item.at)
  IN  CASE At(t, p) = END -> Failed(p)
        [] isObject /\ name \notin Strings -> Failed(p)
        [] isObject /\ name \in Strings /\ At(t, colon) # ":" -> Failed(colon)
        [] OTHER ->
             CASE item.value = NULL -> item
               [] item.value # NULL /\ isObject /\ NameTaken(items, name) -> Failed(item.at)
               [] OTHER ->
                    IF GoesOn(t, item.at, Close(kind))
                    THEN ParseItems(t, behind, nesting, kind, now)
                    ELSE IF ~Closes(t, behind, Close(kind)) THEN Failed(behind)
                    ELSE [value |-> Container(kind, now), at |-> behind + 1]

ParseContainer(t, p, nesting, kind) ==
  LET first == SkipWhitespaces(t, p + 1)
  IN  IF Closes(t, first, Close(kind))
      THEN [value |-> Container(kind, <<>>), at |-> first + 1]
      ELSE ParseItems(t, first, nesting, kind, <<>>)

ParseValue(t, p, nesting) ==
  LET q   == SkipWhitespaces(t, p)
      tok == At(t, q)
  IN  CASE nesting > MAX_NESTING -> Failed(p)
        [] nesting <= MAX_NESTING /\ tok = "{" ->
             ParseContainer(t, q, Deeper("object", nesting), "object")
        [] nesting <= MAX_NESTING /\ tok = "[" ->
             ParseContainer(t, q, Deeper("array", nesting), "array")
        [] nesting <= MAX_NESTING /\ tok \in Strings ->
             [value |-> Scalar("string", <<tok>>), at |-> q + 1]
        [] nesting <= MAX_NESTING /\ tok \in Literals ->
             [value |-> Scalar("literal", <<tok>>), at |-> q + 1]
        [] nesting <= MAX_NESTING /\ tok \in Digits \union {"-"} -> ParseNumber(t, q)
        [] OTHER -> Failed(q)

\* json_parse_string; what is behind the first value is not looked at.
ParseString(t) == ParseValue(t, 1, 0)

-----------------------------------------------------------------------------
\* Behind every item but the last one.
Comma(n, items) == IF n < Len(items) THEN <<",">> ELSE <<>>

\* append_indent.
Indent(level) == [n \in 1 .. level |-> " "]

\* json_serialize_to_buffer_r.
RECURSIVE Serialize(_, _, _)
Serialize(value, level, pretty) ==
  LET its  == value.items
      nl   == IF pretty THEN <<" ">> ELSE <<>>
      Shown(n) ==
        (IF pretty THEN Indent(level + 1) ELSE <<>>)
        \o (IF value.kind = "object" THEN <<its[n].name, ":">> \o nl ELSE <<>>)
        \o Serialize(its[n].value, level + 1, pretty)
        \o Comma(n, its)
        \o nl
      all  == IF its = <<>> THEN <<>>
              ELSE nl \o FlattenSeq([n \in DOMAIN its |-> Shown(n)])
                   \o (IF pretty THEN Indent(level) ELSE <<>>)
  IN  CASE value.kind = "object" -> <<"{">> \o all \o <<"}">>
        [] value.kind = "array"  -> <<"[">> \o all \o <<"]">>
        [] OTHER -> value.says

-----------------------------------------------------------------------------
TextInit == text = <<>> /\ result = ParseString(<<>>)

\* More text can change the outcome: the parser has come to the end of it, or
\* its last token is a minus, which strtod gives back.
NeedsMore == result.at > Len(text) \/ (text # <<>> /\ Last(text) = "-")

ParseMore(tok) ==
  /\ Len(SelectSeq(text, LAMBDA t : t \notin {",", ":"})) < MaxText
  /\ NeedsMore
  /\ text' = Append(text, tok)
  /\ result' = ParseString(text')

TextNext == \E tok \in Tokens : ParseMore(tok)

TextSpec == TextInit /\ [][TextNext]_textVars

-----------------------------------------------------------------------------
(* Properties.                                                             *)

Accepted == result.value # NULL

RECURSIVE NamesUnique(_)
NamesUnique(v) ==
  /\ v.kind = "object" =>
       \A m, n \in DOMAIN v.items : v.items[m].name = v.items[n].name => m = n
  /\ \A n \in DOMAIN v.items : NamesUnique(v.items[n].value)

\* The cursor never passes the terminator, and what is accepted is a value: a
\* text that has a name twice in an object is refused.
TextTypeOK ==
  /\ text \in Seq(Tokens)
  /\ result.at \in 1 .. Len(text) + 1
  /\ Accepted => NamesUnique(result.value)

\* Tokens without the white space and the commas in front of closing marks.
Plain(t) ==
  LET bare == SelectSeq(t, LAMBDA tok : tok # " ")
      kept == {n \in DOMAIN bare :
                 ~(bare[n] = "," /\ n < Len(bare) /\ bare[n + 1] \in {"}", "]"})}
  IN  FoldLeft(LAMBDA s, n : IF n \in kept THEN Append(s, bare[n]) ELSE s, <<>>,
               [n \in DOMAIN bare |-> n])

\* An accepted value says what the text says, all of it up to the cursor and in
\* its order.  (A minus without digits is read as 0, and not passed.)
SaysItsText ==
  LET read == Plain(SubSeq(text, 1, result.at - 1))
  IN  Accepted /\ read # <<>> => Serialize(result.value, 0, FALSE) = read

\* What is written can be read again, and is the same value, in both layouts.
RoundTrip ==
  Accepted =>
    \A pretty \in BOOLEAN :
      LET written == Serialize(result.value, 0, pretty)
      IN  ParseString(written) = [value |-> result.value, at |-> Len(written) + 1]

\* White space before, behind and between the tokens of a text does not change
\* what is read.
SpacesIgnored ==
  Accepted =>
    \A n \in 1 .. Len(text) :
      ~(text[n] \in Digits /\ n > 1 /\ text[n - 1] \in Digits \union {"-"}) =>
        ParseString(InsertAt(text, n, " ")).value = result.value

RECURSIVE DepthAtMost(_, _)
DepthAtMost(v, d) ==
  d >= 0 /\ \A n \in DOMAIN v.items : DepthAtMost(v.items[n].value, d - 1)

\* The recursion is bounded by the text's depth, whatever mixes objects and
\* arrays: values below MAX_NESTING containers are the deepest that are read.
NestingBounded == Accepted => DepthAtMost(result.value, MAX_NESTING)
=============================================================================
