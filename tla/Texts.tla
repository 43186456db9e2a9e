------------------------------- MODULE Texts -------------------------------
(***************************************************************************)
(* The conversions of texts, on sequences of characters: stored names and  *)
(* file names (crates/asobi-core/src/normalize.rs) and the scalars of a    *)
(* topic's frontmatter (crates/asobi/src/frontmatter.rs).                  *)
(***************************************************************************)
EXTENDS Naturals, Sequences, SequencesExt

CONSTANTS
    Chars,          \* the characters of texts
    Alphanumerics,  \* the ASCII letters and digits among them
    Blanks,         \* white space
    LowerCase       \* to_lowercase on Alphanumerics

Connectors == {"-", "_", "."}
Backslash  == "\\"
DoubleQuote == "\""

ASSUME TextsAssumption ==
    /\ Alphanumerics \cup Blanks \cup Connectors \cup {":", Backslash, DoubleQuote} \subseteq Chars
    /\ Alphanumerics \cap (Blanks \cup Connectors \cup {":"}) = {}
    /\ Blanks \cap (Connectors \cup {":", DoubleQuote}) = {}
    /\ LowerCase \in [Alphanumerics -> Alphanumerics]

\* A loop over the characters of s: the state it begins in, and the function that
\* takes a state and a character to the next state
Scan(step, start, s) ==
    LET state[i \in 0..Len(s)] == IF i = 0 THEN start ELSE step[state[i - 1]][s[i]]
    IN  state[Len(s)]

\* trim_matches: s without the characters of P at its ends
Trimmed(s, P) ==
    LET kept == {i \in DOMAIN s : s[i] \notin P}
    IN  IF kept = {} THEN <<>>
        ELSE SubSeq(s, CHOOSE i \in kept : \A j \in kept : i <= j,
                       CHOOSE i \in kept : \A j \in kept : i >= j)

\* What normalize_key has written, and what kind of character it wrote last
KeyStates == [out : Seq(Chars), last : {"plain", "connector", "separator"}]

\* Mutant: a separator does not take the connector before it away
KeyStep_KeepsConnector ==
    [key \in KeyStates |-> [ch \in Chars |->
        IF ch \in Alphanumerics THEN [out |-> Append(key.out, ch), last |-> "plain"]
        ELSE IF ch = ":" THEN [out |-> Append(key.out, ":"), last |-> "separator"]
        ELSE IF ch \in Connectors \cup Blanks /\ key.last = "plain"
        THEN [out |-> Append(key.out, IF ch \in Blanks THEN "-" ELSE ch), last |-> "plain"]
        ELSE key]]

\* Characters that are neither alphanumeric nor punctuation vanish, of several
\* connectors the first stays, a separator replaces one
KeyStep ==
    [key \in KeyStates |-> [ch \in Chars |->
        IF ch \in Alphanumerics THEN [out |-> Append(key.out, ch), last |-> "plain"]
        ELSE IF ch = ":" THEN
          [out  |-> Append(IF key.last = "plain" THEN key.out ELSE Front(key.out), ":"),
           last |-> "separator"]
        ELSE IF ch \in Connectors \cup Blanks /\ key.last = "plain"
        THEN [out |-> Append(key.out, IF ch \in Blanks THEN "-" ELSE ch), last |-> "connector"]
        ELSE key]]

NormalizeKey(text) ==
    Trimmed(Scan(KeyStep, [out |-> <<>>, last |-> "plain"], Trimmed(text, Blanks)).out,
            Connectors \cup {":"})

SlugStep ==
    [slug \in Seq(Chars) |-> [ch \in Chars |->
        IF ch \in Alphanumerics THEN Append(slug, LowerCase[ch])
        ELSE IF slug = <<>> \/ Last(slug) = "-" THEN slug ELSE Append(slug, "-")]]

\* slugify: the alphanumeric runs in lower case, joined by dashes; a text
\* without any is named by its hash
Slugify(text) ==
    LET slug == Trimmed(Scan(SlugStep, <<>>, text), {"-"})
    IN  IF slug = <<>> THEN <<"t", "-", text>> ELSE slug

----------------------------------------------------------------------------

\* replace(ch, "\<ch>")
EscapeStep(ch) ==
    [out \in Seq(Chars) |-> [c \in Chars |->
        out \o (IF c = ch THEN <<Backslash, c>> ELSE <<c>>)]]

Escaped(s, ch) == Scan(EscapeStep(ch), <<>>, s)

\* replace("\<ch>", ch), from left to right; held is a backslash not yet copied
UnescapeStep(ch) ==
    [text \in [out : Seq(Chars), held : BOOLEAN] |-> [c \in Chars |->
        IF text.held
        THEN IF c = ch THEN [out |-> Append(text.out, c), held |-> FALSE]
             ELSE IF c = Backslash THEN [out |-> Append(text.out, c), held |-> TRUE]
             ELSE [out |-> text.out \o <<Backslash, c>>, held |-> FALSE]
        ELSE IF c = Backslash THEN [out |-> text.out, held |-> TRUE]
        ELSE [out |-> Append(text.out, c), held |-> FALSE]]]

Unescaped(s, ch) ==
    LET end == Scan(UnescapeStep(ch), [out |-> <<>>, held |-> FALSE], s)
    IN  IF end.held THEN Append(end.out, Backslash) ELSE end.out

\* Mutant: the quotes are escaped before the backslashes
Quote_SwappedEscapes(value) ==
    <<DoubleQuote>> \o Escaped(Escaped(value, DoubleQuote), Backslash) \o <<DoubleQuote>>

Quote(value) ==
    <<DoubleQuote>> \o Escaped(Escaped(value, Backslash), DoubleQuote) \o <<DoubleQuote>>

\* A value in double quotes; a bare one passes through
Unquote(value) ==
    LET v == Trimmed(value, Blanks)
    IN  IF Len(v) >= 2 /\ v[1] = DoubleQuote /\ Last(v) = DoubleQuote
        THEN Unescaped(Unescaped(SubSeq(v, 2, Len(v) - 1), DoubleQuote), Backslash)
        ELSE v
=============================================================================
