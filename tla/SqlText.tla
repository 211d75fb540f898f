------------------------------ MODULE SqlText ------------------------------
(***************************************************************************)
(* How statements are read before SQLite sees them: the scanner that       *)
(* splits a text and blanks its literals, and what is looked for in the    *)
(* outcome.  A text is a sequence of bytes.  Keywords and names are cut    *)
(* down to one or two letters, case is left out; "h", "t" are the first    *)
(* and the second byte of a character that is not ASCII.                   *)
(*                                                                         *)
(* The reference they are compared with jumps from lexeme to lexeme, with  *)
(* no state but the place; a doubled quote does not close a literal, since *)
(* with it the quotes are odd in number.                                   *)
(***************************************************************************)
EXTENDS Integers, SequencesExt, FiniteSetsExt

CONSTANTS
    Families,       \* what texts are made of
    Prefix,         \* of each family: what its texts begin with,
    Alphabet,       \* sequences of bytes they go on with,
    MaxText         \* and how long they get

(* Each family has texts to begin with.                                    *)
ASSUME TextAssumption ==
    /\ Families # {}
    /\ \A f \in Families :
         /\ MaxText[f] \in Nat
         /\ Prefix[f] \in Seq(STRING) /\ Len(Prefix[f]) <= MaxText[f]
         /\ Alphabet[f] \subseteq Seq(STRING)

VARIABLES family, text

textVars == << family, text >>

Insert == << "i", "n" >>
Pragma == << "p" >>
SizePragma == << "m" >>             \* MAX_PAGE_COUNT and PAGE_SIZE
LoadExtension == << "l", "o" >>
Protected == << "v", "c" >>         \* _vector_collections

Letters == {"i", "n", "p", "m", "l", "o", "v", "c", "x"}
IdentifierChars == Letters \cup {"_"}
Blanks == {" ", "\n"}

At(s, i) == IF i \in DOMAIN s THEN s[i] ELSE "end"
FirstOf(places, otherwise) == IF places = {} THEN otherwise ELSE Min(places)

-----------------------------------------------------------------------------
(* The scanner                                                             *)

Goes(mode) == [mode |-> mode, skip |-> FALSE]
Jumps(mode) == [mode |-> mode, skip |-> TRUE]

Opened(byte) == CASE byte = "'" -> "SingleQuote" [] byte = "\"" -> "DoubleQuote"
                  [] byte = "[" -> "BracketQuote" [] OTHER -> "Normal"

(* Deliberately wrong: the star that opens a comment may close it.         *)
CommentOpensOverlapping == Goes("BlockComment")

CommentOpens == Jumps("BlockComment")

(* One turn of the loop: the state it goes on in, and whether the next     *)
(* byte has been taken along.                                              *)
Advance(mode, s, i) ==
    LET here == At(s, i)
        pair == << here, At(s, i + 1) >>
    IN CASE mode = "Normal" /\ pair = << "-", "-" >> -> Jumps("LineComment")
         [] mode = "Normal" /\ pair = << "/", "*" >> -> CommentOpens
         [] mode = "Normal" /\ pair \notin {<< "-", "-" >>, << "/", "*" >>} -> Goes(Opened(here))
         [] mode \in {"SingleQuote", "DoubleQuote"} /\ Opened(here) = mode ->
              IF pair = << here, here >> THEN Jumps(mode) ELSE Goes("Normal")
         [] mode = "BracketQuote" /\ here = "]" -> Goes("Normal")
         [] mode = "LineComment" /\ here = "\n" -> Goes("Normal")
         [] mode = "BlockComment" /\ pair = << "*", "/" >> -> Jumps("Normal")
         [] OTHER -> Goes(mode)

(* In which state each byte is reached, and whether it is passed over.     *)
Scan(s) ==
    LET scan[i \in 1 .. Len(s) + 1] ==
          LET last == scan[i - 1]
          IN IF i = 1 THEN Goes("Normal")
             ELSE IF last.skip THEN Goes(last.mode)
             ELSE Advance(last.mode, s, i - 1)
    IN scan

Trim(s) ==
    LET kept == { i \in DOMAIN s : s[i] \notin Blanks }
    IN IF kept = {} THEN << >> ELSE SubSeq(s, Min(kept), Max(kept))

Segments(s, ends) ==
    LET cuts == SelectSeq([i \in 1 .. Len(s) + 2 |-> i - 1], LAMBDA i : i \in ends \cup {0, Len(s) + 1})
        piece == [k \in 1 .. Len(cuts) - 1 |-> Trim(SubSeq(s, cuts[k] + 1, cuts[k + 1] - 1))]
    IN SelectSeq(piece, LAMBDA p : p # << >>)

SplitStatements(s) ==
    LET scan == Scan(s)
    IN Segments(s, { i \in DOMAIN s : s[i] = ";" /\ scan[i] = Goes("Normal") })

(* `byte as char`: what is not ASCII becomes a character of two bytes.     *)
AsChar(byte) == IF byte \in {"h", "t"} THEN << "h", "t" >> ELSE << byte >>

(* Deliberately wrong: only comments are blanked.                          *)
NormalisedKeepingLiterals(s) ==
    LET scan == Scan(s)
    IN FlattenSeq([i \in DOMAIN s |->
         IF scan[i].mode \in {"LineComment", "BlockComment"} THEN << " " >> ELSE AsChar(s[i])])

Normalised(s) ==
    LET scan == Scan(s)
        Stays(i) == \/ scan[i] = Goes("Normal") /\ scan[i + 1] = Goes("Normal")
                    \/ scan[i] = Goes("LineComment") /\ s[i] = "\n"
    IN FlattenSeq([i \in DOMAIN s |-> IF Stays(i) THEN AsChar(s[i]) ELSE << " " >>])

-----------------------------------------------------------------------------
(* What is looked for                                                      *)

Occurs(s, token, i) == SubSeq(s, i, i + Len(token) - 1) = token

(* Deliberately wrong: a longer name that begins like the token is it.     *)
IsTokenPrefix(s, token, i) == Occurs(s, token, i) /\ At(s, i - 1) \notin IdentifierChars

IsToken(s, token, i) ==
    Occurs(s, token, i) /\ {At(s, i - 1), At(s, i + Len(token))} \cap IdentifierChars = {}

ContainsIdentifierToken(s, token) == \E i \in 1 .. Len(s) - Len(token) + 1 : IsToken(s, token, i)

(* The text is sliced at every byte; a slice that begins or ends within a  *)
(* character panics, unless the call was found before.                     *)
ContainsLoadExtensionCall(s) ==
    LET size == Len(LoadExtension)
        tried == 1 .. Len(s) - size + 1
        Called(i) == At(s, FirstOf({ j \in i + size .. Len(s) : s[j] \notin Blanks }, 0)) = "("
        calls == { i \in tried : IsToken(s, LoadExtension, i) /\ Called(i) }
        panics == { i \in tried : At(s, i) = "t" \/ At(s, i + size) = "t" }
    IN IF \E p \in panics : \A c \in calls : p <= c THEN "panic"
       ELSE IF calls # {} THEN "found" ELSE "absent"

CommentEnd(s, i) ==
    IF At(s, i) = "-" THEN FirstOf({ j \in i + 2 .. Len(s) : s[j] = "\n" }, Len(s) + 1)
    ELSE FirstOf({ j + 2 : j \in { k \in i + 2 .. Len(s) : << s[k], At(s, k + 1) >> = << "*", "/" >> } },
                 Max({i + 2, Len(s)}))

AtComment(s, i) == << At(s, i), At(s, i + 1) >> \in {<< "-", "-" >>, << "/", "*" >>}

(* Deliberately wrong: what follows a comment is not looked at again.      *)
SkipTriviaOnce(s, from) ==
    LET blank == FirstOf({ j \in from .. Len(s) : s[j] \notin Blanks }, Len(s) + 1)
    IN IF AtComment(s, blank) THEN CommentEnd(s, blank) ELSE blank

SkipTrivia(s, from) ==
    LET skip[i \in 1 .. Len(s) + 1] ==
          IF At(s, i) \in Blanks THEN skip[i + 1]
          ELSE IF AtComment(s, i) THEN skip[CommentEnd(s, i)]
          ELSE i
    IN IF from > Len(s) THEN from ELSE skip[from]

WordEnd(s, i, chars) == FirstOf({ j \in i .. Len(s) : s[j] \notin chars }, Len(s) + 1)

StatementIsInsert(s) ==
    LET i == SkipTrivia(s, 1) IN SubSeq(s, i, WordEnd(s, i, Letters) - 1) = Insert

NoName == [name |-> << >>, next |-> 0]

ReadPragmaIdentifier(s, start) ==
    LET first == At(s, start)
        closing == IF first = "[" THEN "]" ELSE first
        close[j \in start + 1 .. Len(s) + 1] ==
            IF j > Len(s) THEN j
            ELSE IF s[j] # closing THEN close[j + 1]
            ELSE IF closing # "]" /\ At(s, j + 1) = closing THEN close[j + 2]
            ELSE j
        after == WordEnd(s, start, IdentifierChars)
    IN IF first \in IdentifierChars THEN [name |-> SubSeq(s, start, after - 1), next |-> after]
       ELSE IF Opened(first) # "Normal" /\ close[start + 1] <= Len(s)
       THEN [name |-> SubSeq(s, start + 1, close[start + 1] - 1), next |-> close[start + 1] + 1]
       ELSE NoName

ContainsPageLimitMutation(s) ==
    LET Read(i) == ReadPragmaIdentifier(s, SkipTrivia(s, i))
        pragma == Read(1)
        schema == Read(pragma.next)
        dot == SkipTrivia(s, schema.next)
        name == IF At(s, dot) = "." THEN Read(dot + 1) ELSE schema
    IN /\ pragma.name = Pragma /\ schema # NoName /\ name.name = SizePragma
       /\ At(s, SkipTrivia(s, name.next)) \in {"=", "("}

-----------------------------------------------------------------------------
(* All texts of the families                                               *)

TextInit == family \in Families /\ text = Prefix[family]

GrowText ==
    \E token \in Alphabet[family] :
        /\ Len(text) + Len(token) <= MaxText[family]
        /\ text' = text \o token
        /\ UNCHANGED family

-----------------------------------------------------------------------------
(* Properties                                                              *)

TextTypeOK == family \in Families /\ Len(text) <= MaxText[family]

(* Whether the literal that begins at i ends at j: with a quote that is    *)
(* not doubled.                                                            *)
Quotes(s, i, j) == { k \in i .. j : s[k] = s[i] }

Closes(s, i, j) ==
    IF s[i] = "[" THEN s[j] = "]"
    ELSE s[j] = s[i] /\ At(s, j + 1) # s[i] /\ Cardinality(Quotes(s, i, j)) % 2 = 0

(* The last byte of the lexeme that begins at i, and what it is.           *)
LexEnd(s, i) ==
    CASE Opened(s[i]) # "Normal" -> FirstOf({ j \in i + 1 .. Len(s) : Closes(s, i, j) }, Len(s))
      [] AtComment(s, i) /\ s[i] = "-" -> FirstOf({ j \in i + 2 .. Len(s) : s[j] = "\n" }, Len(s) + 1) - 1
      [] AtComment(s, i) /\ s[i] = "/" ->
           FirstOf({ j \in i + 3 .. Len(s) : << s[j - 1], s[j] >> = << "*", "/" >> }, Len(s))
      [] s[i] \in IdentifierChars -> WordEnd(s, i, IdentifierChars) - 1
      [] OTHER -> i

Kind(s, i) ==
    CASE Opened(s[i]) # "Normal" -> "literal" [] AtComment(s, i) -> "comment"
      [] s[i] \in Blanks -> "blank" [] s[i] \in IdentifierChars -> "word" [] OTHER -> "sign"

Lexeme(s, i) == [first |-> i, kind |-> Kind(s, i), of |-> SubSeq(s, i, LexEnd(s, i))]

(* The lexemes of these kinds, in turn.                                    *)
Lexemes(s, kinds) ==
    LET from[i \in 1 .. Len(s) + 1] ==
          IF i > Len(s) THEN << >>
          ELSE IF Kind(s, i) \in kinds THEN << Lexeme(s, i) >> \o from[LexEnd(s, i) + 1]
          ELSE from[LexEnd(s, i) + 1]
    IN from[1]

(* A name written without quotes,                                          *)
IsWord(x, name) == x.kind = "word" /\ x.of = name

(* and a name in whatever quotes.                                          *)
IsName(x, name) ==
    \/ IsWord(x, name)
    \/ x.kind = "literal" /\ Len(x.of) > 1 /\ SubSeq(x.of, 2, Len(x.of) - 1) = name

IsSign(x, signs) == x.kind = "sign" /\ x.of[1] \in signs

(* A text is split at its semicolons and at nothing else: not in literals, *)
(* whatever quotes they double, and not in comments, whatever is left out  *)
(* of them ("/*/" does not close); no byte is lost and none is in two      *)
(* statements.  A caller relies on it to refuse a text of two statements. *)
StatementsAreSplit ==
    LET ends == { x \in ToSet(Lexemes(text, {"sign"})) : IsSign(x, {";"}) }
    IN SplitStatements(text) = Segments(text, { x.first : x \in ends })

Meaning(s) == Lexemes(s, {"word", "literal", "sign"})

(* A pragma of the size of a database that is assigned or called.          *)
IsSizePragma(x) ==
    LET at == IF Len(x) > 2 /\ IsSign(x[3], {"."}) THEN 4 ELSE 2
    IN /\ Len(x) > at /\ x[2].kind \in {"word", "literal"}
       /\ IsName(x[1], Pragma) /\ IsName(x[at], SizePragma)
       /\ IsSign(x[at + 1], {"=", "("})

(* A comment that is never closed.                                         *)
IsOpen(x) ==
    /\ x.of[1] = "/"
    /\ Len(x.of) < 4 \/ SubSeq(x.of, Len(x.of) - 1, Len(x.of)) # << "*", "/" >>

StaysOpen(s) == \E x \in ToSet(Lexemes(s, {"comment"})) : IsOpen(x)

(* What a statement is, is told by its first word, after comments and      *)
(* blanks in any order and number: INSERT, of which last_insert_rowid is   *)
(* reported (a longer name that begins so is none SQLite would run), and   *)
(* the pragmas of the size of a database, with or without a schema, quoted *)
(* or not: none is missed, and none is seen where there is none, unless a  *)
(* comment is left open.  The statements of a text are texts themselves.   *)
StatementsAreRecognised ==
    LET words == Meaning(text)
        BeginsWithWord == words # << >> /\ words[1].kind = "word"
    IN /\ (BeginsWithWord => "_" \notin ToSet(words[1].of)) =>
            (StatementIsInsert(text) <=> BeginsWithWord /\ words[1].of = Insert)
       /\ IsSizePragma(words) => ContainsPageLimitMutation(text)
       /\ ContainsPageLimitMutation(text) => IsSizePragma(words) \/ StaysOpen(text)

(* What SQLite takes for the table of collections where it expects a       *)
(* table: its name as a word, and in double quotes, brackets or even the   *)
(* quotes of strings.                                                      *)
References(s) == { x \in ToSet(Lexemes(s, {"word", "literal"})) : IsName(x, Protected) }

(* Of the references to the table of collections the scan finds those that *)
(* are words, next to whatever literals, comments and longer names, and it *)
(* takes nothing else for one.  A reference in quotes is blanked with the  *)
(* literals: a text with no other passes the check, although all writes to *)
(* the table are said to be rejected.                                      *)
UnquotedNamesAreFound ==
    ContainsIdentifierToken(Normalised(text), Protected) <=>
        \E x \in References(text) : x.kind = "word"

(* The search for a call gets to its end, and is right, in every text that *)
(* keeps characters that are not ASCII to literals and comments: there     *)
(* they are blanked before the text is sliced.                             *)
ScansAnswer ==
    LET words == Lexemes(text, {"word", "sign"})
        called == \E k \in 1 .. Len(words) - 1 : IsWord(words[k], LoadExtension) /\ IsSign(words[k + 1], {"("})
    IN (\A x \in ToSet(words) : ~IsSign(x, {"h", "t"})) =>
            ContainsLoadExtensionCall(Normalised(text)) = IF called THEN "found" ELSE "absent"
=============================================================================
