------------------------------ MODULE EnvFile -------------------------------
(***************************************************************************)
(* The text of managed.env and how internal/config/managedenv.go reads and *)
(* writes it.                                                              *)
(*                                                                         *)
(* A text is a sequence over Alphabet.  What the reader and the writer     *)
(* tell apart has a symbol: each character they look for; "\r" for all     *)
(* white space that strings.TrimSpace takes off and quoteEnvValue does not *)
(* look for (\r, \v, \f, U+0085, U+00A0, the other spaces of Unicode);     *)
(* NUL, which os.Setenv refuses; the name of each variable; and the word   *)
(* export, however its letters are cased.  "a" is any other character.     *)
(***************************************************************************)
EXTENDS Integers, Sequences, FiniteSetsExt, SequencesExt

\* The symbols in the order of sort.Strings.
Alphabet == <<"NUL", "\t", "\n", "\r", " ", "\"", "#", "$", "'", "=", "K1", "K2", "\\",
              "a", "export">>

Char == ToSet(Alphabet)

Name == {<<"K1">>, <<"K2">>}

-----------------------------------------------------------------------------
(* Reading (ParseEnvFile).                                                 *)

\* unicode.IsSpace.
White == {"\t", "\n", "\r", " "}

TrimSpace(t) ==
    LET solid == {i \in DOMAIN t : t[i] \notin White}
    IN  IF solid = {} THEN <<>> ELSE SubSeq(t, Min(solid), Max(solid))

\* Where the lines of t start, and the line that starts at i.
LineStarts(t) == {1} \cup {i + 1 : i \in {j \in DOMAIN t : t[j] = "\n"}}

LineAt(t, i) ==
    SubSeq(t, i, Min({Len(t) + 1} \cup {j \in i..Len(t) : t[j] = "\n"}) - 1)

\* What a line says once it is trimmed: a comment nothing, "export x" the same
\* as x.
Statement(line) ==
    LET l == TrimSpace(line)
    IN  IF IsPrefix(<<"#">>, l) THEN <<>>
        ELSE IF IsPrefix(<<"export", " ">>, l) THEN TrimSpace(SubSeq(l, 3, Len(l)))
        ELSE l

\* A statement sets a variable if it has a name before its first '='.
IsSetting(line) ==
    /\ Contains(line, "=")
    /\ line[1] # "="

Equals(line) == SelectInSeq(line, LAMBDA c : c = "=")

NameIn(line) == TrimSpace(SubSeq(line, 1, Equals(line) - 1))

\* Bug: the quotes around a value are kept.
KeepQuotes(v) == v

\* One pair of matching quotes is taken off; escapes stay as they are.
Unquote(v) ==
    IF Len(v) >= 2 /\ v[1] \in {"\"", "'"} /\ v[Len(v)] = v[1]
    THEN SubSeq(v, 2, Len(v) - 1) ELSE v

ValueIn(line) == Unquote(TrimSpace(SubSeq(line, Equals(line) + 1, Len(line))))

\* The map that a text stands for; of two lines with one name the later wins.
ParseEnvFile(t) ==
    LET Line(i)  == Statement(LineAt(t, i))
        settings == {i \in LineStarts(t) : IsSetting(Line(i))}
        At(k)    == Max({i \in settings : NameIn(Line(i)) = k})
    IN  [k \in {NameIn(Line(i)) : i \in settings} |-> ValueIn(Line(At(k)))]

-----------------------------------------------------------------------------
(* Writing (WriteEnvFile, quoteEnvValue).                                  *)

Escape(c) == IF c \in {"\\", "\""} THEN <<"\\", c>> ELSE <<c>>

\* The characters that quoteEnvValue looks for.
Special == {" ", "\t", "\n", "\"", "'", "#", "\\", "$"}

QuoteEnvValue(v) ==
    IF ToSet(v) \cap Special = {} THEN v
    ELSE <<"\"">> \o FlattenSeq([i \in DOMAIN v |-> Escape(v[i])]) \o <<"\"">>

\* The byte order of strings.
Before(s, t) ==
    LET Rank(c) == SelectInSeq(Alphabet, LAMBDA x : x = c)
        apart   == {i \in DOMAIN s \cap DOMAIN t : s[i] # t[i]}
    IN  IF apart = {} THEN Len(s) < Len(t)
        ELSE Rank(s[Min(apart)]) < Rank(t[Min(apart)])

\* sort.Strings: the i-th name has i - 1 names before it.
Sorted(K) ==
    [i \in 1..Cardinality(K) |->
        CHOOSE k \in K : Cardinality({n \in K : Before(n, k)}) = i - 1]

\* A comment, then a line for each variable that is not empty, by name.
EnvText(m) ==
    LET names == Sorted({k \in DOMAIN m : m[k] # <<>>})
    IN  <<"#", "\n">> \o FlattenSeq(
            [i \in DOMAIN names |->
                names[i] \o <<"=">> \o QuoteEnvValue(m[names[i]]) \o <<"\n">>])

-----------------------------------------------------------------------------
(* What a text that was written gives back.                                *)

\* A value without newline, backslash and double quote.
Plain(v) == ToSet(v) \cap {"\n", "\\", "\""} = {}

\* What is read of a plain value: as it stood between quotes, trimmed without.
Kept(v) == IF ToSet(v) \cap Special = {} THEN TrimSpace(v) ELSE v

\* A name whose line, once written, is read as a comment or under another name.
Odd(k) == Statement(k) # k
=============================================================================
