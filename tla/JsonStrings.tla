----------------------------- MODULE JsonStrings -----------------------------
(***************************************************************************)
(* parson.c: what is between the quotes of a string, get_quoted_string and *)
(* json_serialize_string.  A text is a sequence of tokens behind the       *)
(* opening quote:                                                          *)
(*   "quote", "\\", "/", "n" and "u": the characters with a meaning (n     *)
(*      stands for the letters of all escapes but \u);                     *)
(*   "x": a character without one;  "ctl": a control character;            *)
(*   Quads: four hexadecimal digits, named for the code point or surrogate *)
(*      they stand for behind \u; elsewhere four characters.               *)
(* A string that has been read can also hold "nl" (any of the control      *)
(* characters with a letter), "nul" and characters of two, three and four  *)
(* bytes, "cp2", "cp3" and "cp4".                                          *)
(*                                                                         *)
(* A step adds a token to the text and reads it from its beginning.        *)
(***************************************************************************)
EXTENDS Integers, Sequences, FiniteSets, SequencesExt, JsonNull

CONSTANTS MaxTokens,   \* bound: tokens in a text
          MaxOther     \* bound: tokens that are neither "\\" nor "u"

Quads == {"0000", "0001", "00e9", "20ac", "lead", "trail"}
Characters == {"quote", "\\", "/", "n", "u", "x", "ctl"}
Tokens == Quads \union Characters
Chars == Tokens \union {"nl", "nul", "cp2", "cp3", "cp4"}
END == "\\0"

\* No character and no string is NULL.
ASSUME StringAssumption == NULL \notin Chars \union Seq(Chars)

VARIABLES text, closing, string
stringVars == <<text, closing, string>>

Cursors == Nat \ {0}
At(t, p) == IF p \in DOMAIN t THEN t[p] ELSE END

Width(tok) ==
  CASE tok \in Quads \union {"cp4"} -> 4
    [] tok = "cp3" -> 3
    [] tok = "cp2" -> 2
    [] OTHER -> 1

\* The bytes from a position on.
BytesFrom(s) ==
  LET bytes[p \in Cursors] == IF p > Len(s) THEN 0 ELSE Width(s[p]) + bytes[p + 1]
  IN  bytes
BytesOf(s) == BytesFrom(s)[1]

\* Faulty variant: an escaped quote ends the string too.
ToSkipAtQuote(tok, next) == IF tok = "\\" /\ next # "quote" THEN 2 ELSE 1

\* A backslash takes the next character with it.
ToSkip(tok, next) == IF tok = "\\" THEN 2 ELSE 1

\* The loop of skip_quotes: where the closing quote is for a cursor at p, 0 if
\* there is none.
ClosingFrom(t) ==
  LET quote[p \in Cursors] ==
        CASE At(t, p) = END -> 0
          [] At(t, p) = "quote" -> p
          [] At(t, p) = "\\" /\ At(t, p + 1) = END -> 0
          [] OTHER -> quote[p + ToSkip(At(t, p), At(t, p + 1))]
  IN  quote

SkipQuotes(t) == ClosingFrom(t)[1]

-----------------------------------------------------------------------------
Read(char, at) == [char |-> char, at |-> at]

\* Faulty variant: the second half of a pair is not looked at.
IsPairUnchecked(t, p) == At(t, p + 2) = "\\" /\ At(t, p + 3) = "u"

\* The escape at p, which stands for a lead surrogate, is followed by one that
\* stands for a trail surrogate.
IsPair(t, p) == At(t, p + 2) = "\\" /\ At(t, p + 3) = "u" /\ At(t, p + 4) = "trail"

\* parse_utf16 with the cursor at u; parse_utf16_hex fails at a character that
\* is no digit, which a quote is.
ParseUtf16(t, p) ==
  LET cp == At(t, p + 1)
  IN  CASE cp = "0000" -> Read("nul", p + 2)
        [] cp = "0001" -> Read("ctl", p + 2)
        [] cp = "00e9" -> Read("cp2", p + 2)
        [] cp = "20ac" -> Read("cp3", p + 2)
        [] cp = "lead" /\ IsPair(t, p) -> Read("cp4", p + 5)
        [] OTHER -> Read(NULL, p)

\* One iteration of process_string.
ReadChar(t, p) ==
  CASE t[p] = "\\" /\ At(t, p + 1) \in {"quote", "\\", "/"} -> Read(t[p + 1], p + 2)
    [] t[p] = "\\" /\ At(t, p + 1) = "n" -> Read("nl", p + 2)
    [] t[p] = "\\" /\ At(t, p + 1) = "u" -> ParseUtf16(t, p + 1)
    [] t[p] \notin {"\\", "ctl"} -> Read(t[p], p + 1)
    [] OTHER -> Read(NULL, p)

\* The bytes process_string allocates for its output.
InitialSize(t, end) == BytesOf(SubSeq(t, 1, end - 1)) + 1

\* A character and what is read behind it, unless that fails.
Behind(char, rest) ==
  IF rest.output = NULL THEN rest ELSE [output |-> <<char>> \o rest.output, at |-> rest.at]

\* The loop of process_string: what it reads from p to the token before end.
ReadFrom(t, end) ==
  LET read[p \in Cursors] ==
        IF p >= end THEN [output |-> <<>>, at |-> p]
        ELSE LET next == ReadChar(t, p)
             IN  IF next.char = NULL THEN [output |-> NULL, at |-> p]
                 ELSE Behind(next.char, read[next.at])
  IN  read

ProcessString(t, end) == ReadFrom(t, end)[1]

\* get_quoted_string.
GetQuotedString(t) ==
  IF SkipQuotes(t) = 0 THEN [output |-> NULL, at |-> 1]
  ELSE ProcessString(t, SkipQuotes(t))

-----------------------------------------------------------------------------
\* Faulty variant: backslashes are written as they are.
EscapedNotBackslash(char, slashes) ==
  CASE char = "quote" -> <<"\\", "quote">>
    [] char = "nl" -> <<"\\", "n">>
    [] char = "nul" -> <<"\\", "u", "0000">>
    [] char = "ctl" -> <<"\\", "u", "0001">>
    [] OTHER -> <<char>>

\* What json_serialize_string writes for a character; slashes is the global
\* parson_escape_slashes.
Escaped(char, slashes) ==
  CASE char \in {"quote", "\\"} -> <<"\\", char>>
    [] char = "nl" -> <<"\\", "n">>
    [] char = "nul" -> <<"\\", "u", "0000">>
    [] char = "ctl" -> <<"\\", "u", "0001">>
    [] char = "/" /\ slashes -> <<"\\", "/">>
    [] OTHER -> <<char>>

\* The loop of json_serialize_string: what it writes from a character on, and the
\* closing quote.
WrittenFrom(s, slashes) ==
  LET written[n \in Cursors] ==
        IF n > Len(s) THEN <<"quote">> ELSE Escaped(s[n], slashes) \o written[n + 1]
  IN  written

SerializeString(s, slashes) == WrittenFrom(s, slashes)[1]

-----------------------------------------------------------------------------
StringInit == text = <<>> /\ closing = 0 /\ string = NULL

\* More text matters while the quote is missing and some way to go on can be
\* read.
NeedsMore ==
  /\ closing = 0
  /\ \E more \in {<<>>, <<"n">>, <<"u", "0001">>, <<"0001">>, <<"\\", "u", "trail">>,
                  <<"u", "trail">>, <<"trail">>} :
       ProcessString(text \o more, Len(text \o more) + 1).output # NULL

TokensLeft ==
  /\ Len(text) < MaxTokens
  /\ Len(SelectSeq(text, LAMBDA t : t \notin {"\\", "u"})) < MaxOther

ReadMore(tok) ==
  /\ text' = Append(text, tok)
  /\ closing' = SkipQuotes(text')
  /\ string' = GetQuotedString(text').output

StringNext == TokensLeft /\ NeedsMore /\ \E tok \in Tokens : ReadMore(tok)

StringSpec == StringInit /\ [][StringNext]_stringVars

-----------------------------------------------------------------------------
(* Properties.                                                             *)

\* Half a surrogate pair never gets into a string: what is made from one trail
\* is one character, and without a trail there is none.
StringTypeOK ==
  /\ text \in Seq(Tokens)
  /\ closing \in 0 .. Len(text)
  /\ string # NULL =>
       /\ string \in Seq(Chars)
       /\ Cardinality({n \in DOMAIN string : string[n] \in {"cp4", "trail"}}) =
            Cardinality({n \in DOMAIN text : text[n] = "trail"})

\* skip_quotes and process_string walk the text independently of each other and
\* agree on where it ends: no escape reads the closing quote or what is behind.
EndsAtQuote ==
  string # NULL => GetQuotedString(text).at = closing

\* process_string never checks the room for its output and its terminator: no
\* escape stands for more bytes than it has characters.
OutputFits ==
  string # NULL => BytesOf(string) + 1 <= InitialSize(text, closing)

StringsInBounds == EndsAtQuote /\ OutputFits

\* What is written between quotes is read again as the same string, whether
\* slashes are escaped or not.
EscapesReversible ==
  string # NULL =>
    \A slashes \in BOOLEAN :
      LET written == SerializeString(string, slashes)
      IN  GetQuotedString(written) = [output |-> string, at |-> Len(written)]
=============================================================================
