----------------------------- MODULE JsonComments -----------------------------
(***************************************************************************)
(* parson.c: remove_comments, which json_parse_string_with_comments calls  *)
(* twice: for /* comments in the whole text, then for // comments.  The    *)
(* tokens are the characters that matter to it; "x" stands for all others. *)
(* A step adds a token to the text.                                        *)
(***************************************************************************)
EXTENDS Integers, Sequences, SequencesExt

CONSTANT MaxText      \* bound: characters in a text

Tokens == {"/", "*", "quote", "\\", "nl", "x"}

Block == [start |-> <<"/", "*">>, end |-> <<"*", "/">>]
Line  == [start |-> <<"/", "/">>, end |-> <<"nl">>]

VARIABLE text

\* strncmp: the characters from p on are these.
IsAt(t, p, chars) ==
  p + Len(chars) - 1 <= Len(t) /\ SubSeq(t, p, p + Len(chars) - 1) = chars

Blank(t, from, to) == [n \in DOMAIN t |-> IF n \in from .. to THEN " " ELSE t[n]]

\* What opens and closes a string.
IsQuote(t, p, escaped) == t[p] = "quote" /\ ~escaped

\* The loop of remove_comments from p on, for these kinds of comments.  A comment
\* that does not end keeps its text.  Beside the text: the comments it has
\* removed, from their second character on, and whether all of them ended.
RECURSIVE Scan(_, _, _, _, _)
Scan(t, p, in_string, escaped, kinds) ==
  LET started == {kind \in kinds : IsAt(t, p, kind.start)}
      kind    == CHOOSE kind \in started : TRUE
      inside  == p + 2
      ends    == {e \in inside .. Len(t) : IsAt(t, e, kind.end)}
      end     == CHOOSE e \in ends : \A f \in ends : e <= f
      behind  == end + Len(kind.end)
      rest    == Scan(Blank(t, p, behind - 1), behind, in_string, FALSE, kinds)
  IN  CASE p > Len(t) -> [text |-> t, removed |-> {}, ended |-> TRUE]
        [] p <= Len(t) /\ t[p] = "\\" /\ ~escaped -> Scan(t, p + 1, in_string, TRUE, kinds)
        [] p <= Len(t) /\ IsQuote(t, p, escaped) -> Scan(t, p + 1, ~in_string, FALSE, kinds)
        [] p <= Len(t) /\ ~in_string /\ started # {} ->
             IF ends = {} THEN [text |-> Blank(t, p, p + 1), removed |-> {}, ended |-> FALSE]
             ELSE [rest EXCEPT !.removed = @ \union
                     {[kind |-> kind, text |-> SubSeq(t, p + 1, end - 1)]}]
        [] OTHER -> Scan(t, p + 1, in_string, FALSE, kinds)

RemoveComments(t, kind) == Scan(t, 1, FALSE, FALSE, {kind}).text

\* Faulty variant: // comments first.
WithoutCommentsSwapped(t) == RemoveComments(RemoveComments(t, Line), Block)

\* json_parse_string_with_comments, before it parses.
WithoutComments(t) == RemoveComments(RemoveComments(t, Block), Line)

CommentsInit == text = <<>>
AddChar(c) == Len(text) < MaxText /\ text' = Append(text, c)
CommentsNext == \E c \in Tokens : AddChar(c)
CommentsSpec == CommentsInit /\ [][CommentsNext]_text

-----------------------------------------------------------------------------
\* parson.h says that comments of both kinds are ignored.  The two passes leave
\* what one pass for both kinds leaves, strings that look like comments and
\* comments that look like strings included: if all comments end, and no //
\* comment has a character in it that the first pass takes for a quote, an escape
\* or a comment of its own.
Disturbs(c) ==
  /\ c.kind = Line
  /\ \E n \in DOMAIN c.text : c.text[n] \in {"quote", "\\"} \/ IsAt(c.text, n, Block.start)

CommentsIgnored ==
  LET both == Scan(text, 1, FALSE, FALSE, {Block, Line})
  IN  both.ended /\ (\A c \in both.removed : ~Disturbs(c)) => WithoutComments(text) = both.text
=============================================================================
