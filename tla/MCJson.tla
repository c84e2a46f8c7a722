-------------------------------- MODULE MCJson --------------------------------
(***************************************************************************)
(* TLC instance of the models of parson: the hash table of an object (with *)
(* the names of MCJsonObject), trees of values, and the texts, strings,    *)
(* byte sequences and comments its parser reads.  Each behaviour is one of *)
(* a single model and leaves the others in their initial state.            *)
(***************************************************************************)
EXTENDS MCJsonObject, JsonCompare, JsonStrings, JsonUtf8

VARIABLES part,    \* the model that moves
          result   \* of JsonText; its text, and that of JsonComments, is the variable of JsonStrings

jsonVars == <<part, objectVars, treeVars, stringVars, buffer, result>>

NONE == "none"

-----------------------------------------------------------------------------
\* JsonTree: four values at a time, two names, a path of one name and one of two,
\* which makes or finds the object in between.
MCPaths == {<<"a">>, <<"a", "b">>}

\* [{"a":null},true], {"a":null,"a":true}, which is refused, and [{}, without end.
MCTexts ==
  {<<Opens("array", NULL), Opens("object", NULL), Opens("null", "a"), Closes,
     Opens("true", NULL), Closes>>,
   <<Opens("object", NULL), Opens("null", "a"), Opens("true", "a"), Closes>>,
   <<Opens("array", NULL), Opens("object", NULL), Closes>>}

\* Two strings that may both be names, one level of nesting, six tokens.
X == INSTANCE JsonText WITH
       Strings     <- {"'a'", "'b'"},
       Literals    <- {"null"},
       MAX_NESTING <- 1,
       MaxText     <- 6

\* The first and the last byte of every class of the table of well-formed sequences, and
\* the code points at which an encoding gets longer.
MCBytes == {65, 127, 128, 143, 144, 159, 160, 191, 193, 194, 224, 237, 238, 240, 244, 245}
MCCodePoints ==
  {0, 1, 127, 128, 2047, 2048, 4095, 4096, 55295, 57344, 65535, 65536, 262143, 262144, 1114111}

\* A comment in a comment, or one in a string, takes six characters.
C == INSTANCE JsonComments WITH MaxText <- 6

-----------------------------------------------------------------------------
JsonInit ==
  /\ ObjectInit /\ TreeInit /\ StringInit
  /\ Utf8Init /\ (buffer # NULL => part = "utf8")
  /\ \/ part \in {"object", "tree", "string", "utf8", "comments"} /\ result = NONE
     \/ part = "text" /\ X!TextInit

TextOnly == UNCHANGED <<objectVars, treeVars, buffer, closing, string>>

JsonNext ==
  /\ UNCHANGED part
  /\ \/ part = "object"   /\ ObjectNext     /\ UNCHANGED <<treeVars, stringVars, buffer, result>>
     \/ part = "tree"     /\ TreeNext       /\ UNCHANGED <<objectVars, stringVars, buffer, result>>
     \/ part = "string"   /\ StringNext     /\ UNCHANGED <<objectVars, treeVars, buffer, result>>
     \/ part = "utf8"     /\ Utf8Next       /\ UNCHANGED <<objectVars, treeVars, stringVars, result>>
     \/ part = "text"     /\ X!TextNext     /\ TextOnly
     \/ part = "comments" /\ C!CommentsNext /\ TextOnly /\ UNCHANGED result

JsonSpec == JsonInit /\ [][JsonNext]_jsonVars

-----------------------------------------------------------------------------
\* Each property is checked where its part moves; the others are in their initial state.
InText(P)     == part = "text" => P
InComments(P) == part = "comments" => P

\* Types, of each part: no cell or index leaves its table, the cursor never passes the end
\* of a text, no accepted object has a name twice, and no half surrogate pair gets into a
\* string.
JsonTypeOK ==
  /\ ObjectTypeOK /\ TreeTypeOK
  /\ InText(X!TextTypeOK)
  /\ (part = "string" => StringTypeOK)

\* json_value_deep_copy, json_value_equals and json_validate (parson.c:1686-1761,
\* 2281-2400) agree: copies are equal to their originals and share nothing with them,
\* equality is symmetric, and what is valid has the schema's names, and so has its copy.
ComparisonsAgree == CopiesEqual /\ EqualsSymmetric /\ ValidatedHasNames

\* parse_value and json_serialize_to_buffer_r (parson.c:898-1249): an accepted value says
\* what its text says, nested no deeper than allowed; white space changes nothing; what is
\* written is read again as the same value.
TextsKeepMeaning ==
  InText(X!SaysItsText /\ X!RoundTrip /\ X!SpacesIgnored /\ X!NestingBounded)

\* remove_comments in two passes (parson.c:232-265, 1377-1378) removes the comments, and
\* nothing else, unless a comment of one kind has marks of the other one in it.
CommentsIgnored == InComments(C!CommentsIgnored)
=============================================================================
