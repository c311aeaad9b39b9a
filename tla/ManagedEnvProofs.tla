-------------------------- MODULE ManagedEnvProofs --------------------------
(***************************************************************************)
(* The theorems of ManagedEnv, and what they need of EnvFile: that a text  *)
(* which WriteEnvFile has written is read back by ParseEnvFile.            *)
(*                                                                         *)
(* Both are loops.  Their proofs go by induction over the number of lines  *)
(* (or characters), with the induction stated over a subset of Nat; the    *)
(* induction itself follows from the order of Nat being well-founded.      *)
(***************************************************************************)
EXTENDS ManagedEnv, SequenceTheorems, FiniteSetTheorems, WellFoundedInduction,
        TLAPS

-----------------------------------------------------------------------------
(* Natural numbers.                                                        *)

\* A set of natural numbers that is not empty has a least element.
LEMMA Least ==
    ASSUME NEW T, T \subseteq Nat, T # {}
    PROVE  \E x \in T : \A y \in T : x <= y
<1>1. PICK x \in T : \A y \in T : ~(<<y, x>> \in OpToRel(<, Nat))
  BY NatLessThanWellFounded, WFMin
<1>2. \A y \in T : ~(y < x)
  BY <1>1 DEF OpToRel
<1> QED
  BY <1>2

\* Induction: a set that holds 0 and with every number the next one has them all.
LEMMA NatInduct ==
    ASSUME NEW T, 0 \in T, \A n \in Nat : n \in T => n + 1 \in T
    PROVE  Nat \subseteq T
<1> SUFFICES ASSUME Nat \ T # {} PROVE FALSE
  OBVIOUS
<1>1. PICK x \in Nat \ T : \A y \in Nat \ T : x <= y
  BY Least
<1>2. x - 1 \in Nat
  BY <1>1
<1> QED
  BY <1>1, <1>2

\* Min returns the least element.
LEMMA MinLeast ==
    ASSUME NEW T, T \subseteq Nat, T # {}
    PROVE  Min(T) \in T /\ \A y \in T : Min(T) <= y
<1>1. PICK x \in T : \A y \in T : x <= y
  BY Least
<1>2. x \in T /\ \A y \in T : y >= x
  BY <1>1
<1> QED
  BY <1>2 DEF Min

\* Max returns the greatest element of a set that has a bound.
LEMMA MaxGreatest ==
    ASSUME NEW T, NEW n \in Nat, T \subseteq 0..n, T # {}
    PROVE  Max(T) \in T /\ \A y \in T : y <= Max(T)
<1> DEFINE R == {n - x : x \in T}
<1>0. T \subseteq Int /\ \A x \in T : n - x \in Nat
  OBVIOUS
<1>1. R \subseteq Nat /\ R # {}
  BY <1>0, Zenon
<1>2. PICK d \in R : \A e \in R : d <= e
  BY <1>1, Least
<1>3. PICK x \in T : d = n - x
  OBVIOUS
<1>4. \A y \in T : x >= y
  <2> TAKE y \in T
  <2>1. n - y \in R
    OBVIOUS
  <2> QED
    BY <2>1, <1>2, <1>3
<1> QED
  BY <1>3, <1>4 DEF Max

-----------------------------------------------------------------------------
(* Texts.                                                                  *)

Text == Seq(Char)

Solid(c) == c \notin White

OneLine(t) == \A i \in DOMAIN t : t[i] # "\n"

\* What a line can give a value to: ParseEnvFile reads no other names.
GoodName(k) ==
    /\ k \in Text
    /\ k # <<>>
    /\ Solid(k[1]) /\ Solid(k[Len(k)])
    /\ \A i \in DOMAIN k : k[i] \notin {"=", "\n"}

\* The symbols that the parser knows are characters.
LEMMA Symbols ==
    {"NUL", "\t", "\n", "\r", " ", "\"", "#", "$",
     "'", "=", "K1", "K2", "\\", "a", "export"} = Char
<1>1. /\ DOMAIN Alphabet = 1..15
      /\ Alphabet[1] = "NUL" /\ Alphabet[2] = "\t" /\ Alphabet[3] = "\n"
      /\ Alphabet[4] = "\r" /\ Alphabet[5] = " " /\ Alphabet[6] = "\""
      /\ Alphabet[7] = "#" /\ Alphabet[8] = "$" /\ Alphabet[9] = "'"
      /\ Alphabet[10] = "=" /\ Alphabet[11] = "K1" /\ Alphabet[12] = "K2"
      /\ Alphabet[13] = "\\" /\ Alphabet[14] = "a" /\ Alphabet[15] = "export"
  BY DEF Alphabet
<1>2. \A i \in 1..15 : i = 1 \/ i = 2 \/ i = 3 \/ i = 4 \/ i = 5 \/ i = 6 \/ i = 7 \/
                       i = 8 \/ i = 9 \/ i = 10 \/ i = 11 \/ i = 12 \/ i = 13 \/
                       i = 14 \/ i = 15
  OBVIOUS
<1>3. 1 \in 1..15 /\ 2 \in 1..15 /\ 3 \in 1..15 /\ 4 \in 1..15 /\ 5 \in 1..15 /\
      6 \in 1..15 /\ 7 \in 1..15 /\ 8 \in 1..15 /\ 9 \in 1..15 /\ 10 \in 1..15 /\
      11 \in 1..15 /\ 12 \in 1..15 /\ 13 \in 1..15 /\ 14 \in 1..15 /\ 15 \in 1..15
  OBVIOUS
<1>4. Char = {Alphabet[i] : i \in 1..15}
  BY <1>1 DEF Char, ToSet
<1> DEFINE C == {"NUL", "\t", "\n", "\r", " ", "\"", "#", "$",
                 "'", "=", "K1", "K2", "\\", "a", "export"}
<1>5. \A i \in 1..15 : Alphabet[i] \in C
  BY <1>1, <1>2
<1>6. \A c \in C : \E i \in 1..15 : Alphabet[i] = c
  BY <1>1, <1>3
<1> HIDE DEF C
<1>7. C = Char
  BY <1>4, <1>5, <1>6
<1> QED
  BY <1>7 DEF C

\* The names of the configuration are good names.
LEMMA NamesGood == \A k \in Name : GoodName(k)
<1>1. "K1" \in Char /\ "K2" \in Char
  BY Symbols
<1>2. <<"K1">> \in Text /\ <<"K2">> \in Text
  BY <1>1 DEF Text
<1>3. GoodName(<<"K1">>)
  BY <1>2 DEF GoodName, Solid, White
<1>4. GoodName(<<"K2">>)
  BY <1>2 DEF GoodName, Solid, White
<1> QED
  BY <1>3, <1>4 DEF Name

\* SubSeq of a text, its length and its characters.
LEMMA Part ==
    ASSUME NEW t \in Text, NEW i \in Nat \ {0}, NEW j \in Nat, j <= Len(t)
    PROVE  /\ SubSeq(t, i, j) \in Text
           /\ Len(SubSeq(t, i, j)) = IF i <= j THEN j - i + 1 ELSE 0
           /\ DOMAIN SubSeq(t, i, j) = 1..Len(SubSeq(t, i, j))
           /\ \A n \in 1..Len(SubSeq(t, i, j)) : SubSeq(t, i, j)[n] = t[i + n - 1]
<1>1. \A n \in i..j : t[n] \in Char
  BY ElementOfSeq DEF Text
<1>2. /\ SubSeq(t, i, j) \in Seq(Char)
      /\ Len(SubSeq(t, i, j)) = IF i <= j THEN j - i + 1 ELSE 0
      /\ \A n \in 1..(j - i + 1) : SubSeq(t, i, j)[n] = t[i + n - 1]
  BY <1>1, SubSeqProperties
<1>3. DOMAIN SubSeq(t, i, j) = 1..Len(SubSeq(t, i, j))
  BY <1>2, LenProperties
<1> QED
  BY <1>2, <1>3 DEF Text

\* SubSeq returns l where the characters of l are.
LEMMA PartEqual ==
    ASSUME NEW t \in Text, NEW l \in Text, NEW i \in Nat \ {0},
           i + Len(l) - 1 <= Len(t), \A n \in 1..Len(l) : t[i + n - 1] = l[n]
    PROVE  SubSeq(t, i, i + Len(l) - 1) = l
<1> DEFINE j == i + Len(l) - 1
<1>1. Len(l) \in Nat
  BY LenProperties DEF Text
<1>2. j \in Nat /\ j <= Len(t) /\ (IF i <= j THEN j - i + 1 ELSE 0) = Len(l)
  BY <1>1
<1> HIDE DEF j
<1>3. /\ SubSeq(t, i, j) \in Text
      /\ Len(SubSeq(t, i, j)) = Len(l)
      /\ \A n \in 1..Len(l) : SubSeq(t, i, j)[n] = l[n]
  BY <1>2, Part
<1>4. SubSeq(t, i, j) = l
  BY <1>3, SeqEqual DEF Text
<1> QED
  BY <1>4 DEF j

\* A text of one character.
LEMMA Single ==
    ASSUME NEW c \in Char
    PROVE  /\ <<c>> \in Text /\ Len(<<c>>) = 1 /\ <<c>>[1] = c
           /\ c # "\n" => OneLine(<<c>>)
<1>1. <<c>> \in Text
  BY DEF Text
<1>2. DOMAIN <<c>> = 1..1 /\ <<c>>[1] = c
  OBVIOUS
<1>3. c # "\n" => OneLine(<<c>>)
  BY <1>2 DEF OneLine
<1> QED
  BY <1>1, <1>2, <1>3

\* One text after another.
LEMMA Concat ==
    ASSUME NEW s \in Text, NEW t \in Text
    PROVE  /\ s \o t \in Text
           /\ Len(s) \in Nat /\ Len(t) \in Nat
           /\ Len(s \o t) = Len(s) + Len(t)
           /\ \A i \in 1..Len(s) : (s \o t)[i] = s[i]
           /\ \A i \in 1..Len(t) : (s \o t)[Len(s) + i] = t[i]
           /\ OneLine(s) /\ OneLine(t) => OneLine(s \o t)
<1>1. /\ Len(s) \in Nat /\ DOMAIN s = 1..Len(s)
      /\ Len(t) \in Nat /\ DOMAIN t = 1..Len(t)
  BY LenProperties DEF Text
<1>2. /\ s \o t \in Text
      /\ Len(s \o t) = Len(s) + Len(t)
      /\ DOMAIN (s \o t) = 1..(Len(s) + Len(t))
      /\ \A i \in 1..(Len(s) + Len(t)) :
            (s \o t)[i] = IF i <= Len(s) THEN s[i] ELSE t[i - Len(s)]
  BY ConcatProperties, LenProperties DEF Text
<1>3. ASSUME OneLine(s), OneLine(t), NEW i \in 1..(Len(s) + Len(t))
      PROVE  (s \o t)[i] # "\n"
  <2>1. CASE i <= Len(s)
    BY <1>1, <1>2, <1>3, <2>1 DEF OneLine
  <2>2. CASE ~(i <= Len(s))
    <3>1. i - Len(s) \in DOMAIN t
      BY <1>1, <2>2
    <3> QED
      BY <1>2, <1>3, <2>2, <3>1 DEF OneLine
  <2> QED
    BY <2>1, <2>2
<1>4. OneLine(s) /\ OneLine(t) => OneLine(s \o t)
  BY <1>2, <1>3 DEF OneLine
<1>5. \A i \in 1..Len(s) : (s \o t)[i] = s[i]
  BY <1>1, <1>2
<1>6. \A i \in 1..Len(t) : (s \o t)[Len(s) + i] = t[i]
  BY <1>1, <1>2
<1> QED
  BY <1>1, <1>2, <1>4, <1>5, <1>6

\* It does not matter which two of three texts are joined first.
LEMMA Associative ==
    ASSUME NEW x \in Text, NEW y \in Text, NEW z \in Text
    PROVE  x \o (y \o z) = (x \o y) \o z
<1>1. x \in Seq(Char) /\ y \in Seq(Char) /\ z \in Seq(Char)
  BY DEF Text
<1> QED
  BY <1>1, ConcatAssociative

\* TrimSpace takes white space off both ends, and nothing else.
LEMMA Trimmed ==
    ASSUME NEW t \in Text
    PROVE  /\ TrimSpace(t) \in Text /\ Len(TrimSpace(t)) <= Len(t)
           /\ \A i \in DOMAIN TrimSpace(t) : \E j \in DOMAIN t : TrimSpace(t)[i] = t[j]
           /\ TrimSpace(t) # <<>> =>
                 Solid(TrimSpace(t)[1]) /\ Solid(TrimSpace(t)[Len(TrimSpace(t))])
           /\ t # <<>> /\ Solid(t[1]) => TrimSpace(t) # <<>> /\ TrimSpace(t)[1] = t[1]
           /\ t # <<>> /\ Solid(t[1]) /\ Solid(t[Len(t)]) => TrimSpace(t) = t
<1> DEFINE solid == {i \in DOMAIN t : t[i] \notin White}
<1>1. Len(t) \in Nat /\ DOMAIN t = 1..Len(t)
  BY LenProperties DEF Text
<1>2. solid \subseteq 1..Len(t)
  BY <1>1
<1>3. CASE solid = {}
  <2>1. TrimSpace(t) = <<>>
    BY <1>3 DEF TrimSpace
  <2>2. t # <<>> => ~Solid(t[1])
    <3>1. ASSUME t # <<>> PROVE 1 \in DOMAIN t
      BY <3>1, <1>1, EmptySeq DEF Text
    <3> QED
      BY <3>1, <1>3 DEF Solid
  <2>3. <<>> \in Text /\ DOMAIN <<>> = {} /\ Len(<<>>) = 0
    BY DEF Text
  <2> QED
    BY <1>1, <2>1, <2>2, <2>3
<1>4. CASE solid # {}
  <2> DEFINE lo == Min(solid)
             hi == Max(solid)
  <2> HIDE DEF solid
  <2>1. lo \in solid /\ \A i \in solid : lo <= i
    <3>1. solid \subseteq Nat
      BY <1>1, <1>2
    <3> QED
      BY <3>1, <1>4, MinLeast
  <2>2. hi \in solid /\ \A i \in solid : i <= hi
    <3>1. solid \subseteq 0..Len(t)
      BY <1>1, <1>2
    <3> QED
      BY <3>1, <1>1, <1>4, MaxGreatest
  <2>3. lo \in 1..Len(t) /\ hi \in 1..Len(t) /\ lo <= hi
    BY <2>1, <2>2, <1>2
  <2>4. TrimSpace(t) = SubSeq(t, lo, hi)
    BY <1>4 DEF TrimSpace, solid
  <2> HIDE DEF lo, hi
  <2>5. /\ TrimSpace(t) \in Text
        /\ Len(TrimSpace(t)) = hi - lo + 1
        /\ DOMAIN TrimSpace(t) = 1..Len(TrimSpace(t))
        /\ \A n \in 1..Len(TrimSpace(t)) : TrimSpace(t)[n] = t[lo + n - 1]
    BY <2>3, <2>4, <1>1, Part
  <2>6. \A i \in DOMAIN TrimSpace(t) : lo + i - 1 \in DOMAIN t
    BY <2>5, <2>3, <1>1
  <2>7. Solid(TrimSpace(t)[1]) /\ Solid(TrimSpace(t)[Len(TrimSpace(t))])
    <3>1. TrimSpace(t)[1] = t[lo] /\ TrimSpace(t)[Len(TrimSpace(t))] = t[hi]
      BY <2>5, <2>3
    <3> QED
      BY <3>1, <2>1, <2>2 DEF Solid, solid
  <2>8. ASSUME t # <<>>, Solid(t[1])
        PROVE  lo = 1
    <3>1. 1 \in DOMAIN t
      BY <2>8, <1>1, EmptySeq DEF Text
    <3>2. 1 \in solid
      BY <3>1, <2>8 DEF Solid, solid
    <3> QED
      BY <3>2, <2>1, <2>3
  <2>9. ASSUME t # <<>>, Solid(t[Len(t)])
        PROVE  hi = Len(t)
    <3>1. Len(t) \in DOMAIN t
      BY <2>9, <1>1, EmptySeq DEF Text
    <3>2. Len(t) \in solid
      BY <3>1, <2>9 DEF Solid, solid
    <3> QED
      BY <3>2, <2>2, <2>3
  <2>10. t # <<>> /\ Solid(t[1]) => TrimSpace(t) # <<>> /\ TrimSpace(t)[1] = t[1]
    BY <2>8, <2>5, <2>3
  <2>11. t # <<>> /\ Solid(t[1]) /\ Solid(t[Len(t)]) => TrimSpace(t) = t
    BY <2>8, <2>9, <2>4, SubSeqFull DEF Text
  <2>12. Len(TrimSpace(t)) <= Len(t)
    BY <2>3, <2>5, <1>1
  <2> QED
    BY <2>5, <2>6, <2>7, <2>10, <2>11, <2>12
<1> QED
  BY <1>3, <1>4

\* There is nothing to take off the empty text, nor off a text twice.
LEMMA TrimTwice ==
    /\ TrimSpace(<<>>) = <<>>
    /\ \A t \in Text : TrimSpace(TrimSpace(t)) = TrimSpace(t)
<1>1. TrimSpace(<<>>) = <<>>
  <2>1. {i \in DOMAIN <<>> : <<>>[i] \notin White} = {}
    OBVIOUS
  <2> QED
    BY <2>1 DEF TrimSpace
<1>2. ASSUME NEW t \in Text
      PROVE  TrimSpace(TrimSpace(t)) = TrimSpace(t)
  <2> DEFINE u == TrimSpace(t)
  <2>1. /\ u \in Text
        /\ u # <<>> => Solid(u[1]) /\ Solid(u[Len(u)])
    BY Trimmed
  <2> HIDE DEF u
  <2>2. u # <<>> => TrimSpace(u) = u
    BY <2>1, Trimmed
  <2>3. TrimSpace(u) = u
    BY <1>1, <2>2
  <2> QED
    BY <2>3 DEF u
<1> QED
  BY <1>1, <1>2

\* White space behind a text that begins and ends solid is all that TrimSpace
\* takes off the two: what is left of w trims to the same.
LEMMA TrimTail ==
    ASSUME NEW x \in Text, x # <<>>, Solid(x[1]), Solid(x[Len(x)]), NEW w \in Text
    PROVE  \E z \in Text :
              /\ TrimSpace(x \o w) = x \o z
              /\ TrimSpace(z) = TrimSpace(w)
              /\ OneLine(w) => OneLine(z)
<1> DEFINE y == x \o w
           solid(t) == {i \in DOMAIN t : t[i] \notin White}
           n == Max(solid(y)) - Len(x)
           z == SubSeq(w, 1, n)
<1>1. /\ Len(x) \in Nat \ {0} /\ DOMAIN x = 1..Len(x)
      /\ Len(w) \in Nat /\ DOMAIN w = 1..Len(w)
  BY EmptySeq, LenProperties DEF Text
<1>2. /\ y \in Text
      /\ Len(y) = Len(x) + Len(w)
      /\ DOMAIN y = 1..(Len(x) + Len(w))
      /\ \A i \in 1..Len(x) : y[i] = x[i]
      /\ \A i \in 1..Len(w) : y[Len(x) + i] = w[i]
  <2>1. /\ y \in Text
        /\ Len(y) = Len(x) + Len(w)
        /\ \A i \in 1..Len(x) : y[i] = x[i]
        /\ \A i \in 1..Len(w) : y[Len(x) + i] = w[i]
    BY Concat
  <2> HIDE DEF y
  <2> QED
    BY <2>1, LenProperties DEF Text
<1> HIDE DEF y
<1>3. 1 \in solid(y) /\ Len(x) \in solid(y) /\ solid(y) \subseteq 1..Len(y)
  BY <1>1, <1>2 DEF Solid
<1>4. /\ Max(solid(y)) \in solid(y) /\ \A i \in solid(y) : i <= Max(solid(y))
      /\ Min(solid(y)) = 1
  <2> DEFINE S == solid(y)
  <2>1. 1 \in S /\ S \subseteq 1..Len(y) /\ Len(y) \in Nat
    BY <1>1, <1>2, <1>3
  <2> HIDE DEF S
  <2>2. S \subseteq 0..Len(y) /\ S \subseteq Nat /\ S # {}
    BY <2>1
  <2>3. Max(S) \in S /\ \A i \in S : i <= Max(S)
    BY <2>1, <2>2, MaxGreatest
  <2>4. Min(S) \in S /\ \A i \in S : Min(S) <= i
    BY <2>2, MinLeast
  <2>5. Min(S) = 1
    <3>1. Min(S) \in 1..Len(y) /\ Min(S) <= 1
      BY <2>1, <2>4
    <3> QED
      BY <2>1, <3>1
  <2> QED
    BY <2>3, <2>5 DEF S
<1>5. /\ n \in 0..Len(w) /\ Max(solid(y)) = Len(x) + n
      /\ \A i \in 1..Len(w) : w[i] \notin White => i <= n
      /\ n # 0 => w[n] \notin White
  <2> DEFINE M == Max(solid(y))
  <2>1. M \in 1..Len(y) /\ M >= Len(x) /\ y[M] \notin White
    BY <1>3, <1>4
  <2>2. ASSUME NEW i \in 1..Len(w), w[i] \notin White
        PROVE  Len(x) + i <= M
    <3>1. Len(x) + i \in solid(y)
      BY <1>1, <1>2, <2>2
    <3> QED
      BY <1>4, <3>1
  <2> HIDE DEF M
  <2>3. M - Len(x) \in 0..Len(w) /\ M = Len(x) + (M - Len(x))
    BY <1>1, <1>2, <2>1
  <2>4. \A i \in 1..Len(w) : w[i] \notin White => i <= M - Len(x)
    BY <1>1, <2>1, <2>2
  <2>5. M - Len(x) # 0 => w[M - Len(x)] \notin White
    BY <1>2, <2>1, <2>3
  <2> QED
    BY <2>3, <2>4, <2>5 DEF M
<1> HIDE DEF n
<1>6. /\ z \in Text /\ Len(z) = n /\ DOMAIN z = 1..n
      /\ \A i \in 1..n : z[i] = w[i] /\ i \in 1..Len(w)
  <2>1. 1 \in Nat \ {0} /\ n \in Nat /\ n <= Len(w)
    BY <1>1, <1>5
  <2>2. /\ z \in Text
        /\ Len(z) = IF 1 <= n THEN n - 1 + 1 ELSE 0
        /\ DOMAIN z = 1..Len(z)
        /\ \A i \in 1..Len(z) : z[i] = w[1 + i - 1]
    BY <2>1, Part
  <2> HIDE DEF z
  <2> QED
    BY <2>1, <2>2, <1>1
<1> HIDE DEF z
<1>7. TrimSpace(y) = x \o z
  <2>1. TrimSpace(y) = SubSeq(y, 1, Len(x) + n)
    BY <1>3, <1>4, <1>5 DEF TrimSpace
  <2>2. /\ x \o z \in Text
        /\ Len(x \o z) = Len(x) + n
        /\ \A i \in 1..Len(x) : (x \o z)[i] = x[i]
        /\ \A i \in 1..n : (x \o z)[Len(x) + i] = z[i]
    BY <1>6, Concat
  <2> DEFINE l == x \o z
  <2> HIDE DEF l
  <2>3. \A i \in 1..Len(l) : y[1 + i - 1] = l[i]
    <3> SUFFICES ASSUME NEW i \in 1..Len(l) PROVE y[i] = l[i]
      BY <1>1, <1>5, <2>2 DEF l
    <3>1. CASE i <= Len(x)
      BY <1>1, <1>2, <2>2, <3>1 DEF l
    <3>2. CASE ~(i <= Len(x))
      <4>1. i - Len(x) \in 1..n /\ i = Len(x) + (i - Len(x))
        BY <1>1, <1>5, <2>2, <3>2 DEF l
      <4>2. l[i] = z[i - Len(x)] /\ y[i] = w[i - Len(x)]
        BY <1>2, <1>6, <2>2, <4>1 DEF l
      <4> QED
        BY <1>6, <4>1, <4>2
    <3> QED
      BY <3>1, <3>2
  <2>4. /\ l \in Text /\ 1 \in Nat \ {0}
        /\ 1 + Len(l) - 1 = Len(x) + n /\ 1 + Len(l) - 1 <= Len(y)
    BY <1>1, <1>2, <1>5, <2>2 DEF l
  <2>5. SubSeq(y, 1, 1 + Len(l) - 1) = l
    BY <1>2, <2>3, <2>4, PartEqual
  <2> QED
    BY <2>1, <2>4, <2>5 DEF l
<1>8. solid(z) = solid(w)
  BY <1>1, <1>5, <1>6
<1>9. TrimSpace(z) = TrimSpace(w)
  <2>1. CASE solid(w) = {}
    BY <1>8, <2>1 DEF TrimSpace
  <2>2. CASE solid(w) # {}
    <3> DEFINE S == solid(w)
               lo == Min(S)
               hi == Max(S)
    <3>1. S \subseteq 1..n
      BY <1>1, <1>5
    <3>2. TrimSpace(w) = SubSeq(w, lo, hi) /\ TrimSpace(z) = SubSeq(z, lo, hi)
      BY <1>8, <2>2 DEF TrimSpace
    <3> HIDE DEF S
    <3>3. lo \in S /\ hi \in S
      <4>1. S \subseteq 0..n /\ S \subseteq Nat /\ S # {} /\ n \in Nat
        BY <3>1, <2>2, <1>5 DEF S
      <4> QED
        BY <4>1, MinLeast, MaxGreatest
    <3>4. lo \in 1..n /\ hi \in 1..n
      BY <3>1, <3>3
    <3> HIDE DEF lo, hi
    <3> DEFINE l == SubSeq(w, lo, hi)
    <3>5. SubSeq(z, lo, hi) = l
      <4>1. lo \in Nat \ {0} /\ hi \in Nat /\ hi <= Len(z) /\ hi <= Len(w)
        BY <3>4, <1>5, <1>6, <1>1
      <4>2. /\ SubSeq(w, lo, hi) \in Text
            /\ Len(SubSeq(w, lo, hi)) = IF lo <= hi THEN hi - lo + 1 ELSE 0
            /\ \A i \in 1..Len(SubSeq(w, lo, hi)) : SubSeq(w, lo, hi)[i] = w[lo + i - 1]
        BY <4>1, Part
      <4>3. /\ SubSeq(z, lo, hi) \in Text
            /\ Len(SubSeq(z, lo, hi)) = IF lo <= hi THEN hi - lo + 1 ELSE 0
            /\ \A i \in 1..Len(SubSeq(z, lo, hi)) : SubSeq(z, lo, hi)[i] = z[lo + i - 1]
        BY <4>1, <1>6, Part
      <4>4. \A i \in 1..Len(SubSeq(w, lo, hi)) : lo + i - 1 \in 1..n
        <5>1. \A m : m = (IF lo <= hi THEN hi - lo + 1 ELSE 0) =>
                 \A i \in 1..m : lo + i - 1 \in 1..n
          BY <3>4, <1>1, <1>5
        <5> QED
          BY <4>2, <5>1
      <4>5. \A i \in 1..Len(SubSeq(w, lo, hi)) :
               SubSeq(z, lo, hi)[i] = SubSeq(w, lo, hi)[i]
        BY <4>2, <4>3, <4>4, <1>6
      <4> QED
        BY <4>2, <4>3, <4>5, SeqEqual DEF Text
    <3> QED
      BY <3>2, <3>5
  <2> QED
    BY <2>1, <2>2
<1>10. OneLine(w) => OneLine(z)
  BY <1>1, <1>6 DEF OneLine
<1> QED
  BY <1>6, <1>7, <1>9, <1>10 DEF y

\* The two beginnings of a line that ParseEnvFile looks for.
LEMMA Beginnings ==
    ASSUME NEW t \in Text
    PROVE  /\ IsPrefix(<<"#">>, t) <=> t # <<>> /\ t[1] = "#"
           /\ IsPrefix(<<"export", " ">>, t) <=>
                 Len(t) >= 2 /\ t[1] = "export" /\ t[2] = " "
<1>1. Len(t) \in Nat /\ (t # <<>> <=> Len(t) >= 1)
  BY EmptySeq, LenProperties DEF Text
<1>2. "#" \in Char /\ "export" \in Char /\ " " \in Char
  BY Symbols
<1>3. /\ <<"#">> \in Text /\ Len(<<"#">>) = 1 /\ <<"#">>[1] = "#"
      /\ <<"export", " ">> \in Text /\ Len(<<"export", " ">>) = 2
      /\ <<"export", " ">>[1] = "export" /\ <<"export", " ">>[2] = " "
  <2>1. \A c, d \in Char : /\ <<c>> \in Seq(Char) /\ Len(<<c>>) = 1 /\ <<c>>[1] = c
                            /\ <<c, d>> \in Seq(Char) /\ Len(<<c, d>>) = 2
                            /\ <<c, d>>[1] = c /\ <<c, d>>[2] = d
    OBVIOUS
  <2> QED
    BY <1>2, <2>1 DEF Text
<1>4. \A s \in Text : \A m \in Nat : m = Len(s) /\ m <= Len(t) =>
         (SubSeq(s, 1, m) = SubSeq(t, 1, m) <=> \A i \in 1..m : s[i] = t[i])
  <2> SUFFICES ASSUME NEW s \in Text, NEW m \in Nat, m = Len(s), m <= Len(t)
               PROVE  SubSeq(s, 1, m) = SubSeq(t, 1, m) <=> \A i \in 1..m : s[i] = t[i]
    OBVIOUS
  <2>1. 1 \in Nat \ {0} /\ m <= Len(s)
    OBVIOUS
  <2>2. /\ SubSeq(s, 1, m) \in Text
        /\ Len(SubSeq(s, 1, m)) = IF 1 <= m THEN m - 1 + 1 ELSE 0
        /\ \A i \in 1..Len(SubSeq(s, 1, m)) : SubSeq(s, 1, m)[i] = s[1 + i - 1]
    BY <2>1, Part
  <2>3. /\ SubSeq(t, 1, m) \in Text
        /\ Len(SubSeq(t, 1, m)) = IF 1 <= m THEN m - 1 + 1 ELSE 0
        /\ \A i \in 1..Len(SubSeq(t, 1, m)) : SubSeq(t, 1, m)[i] = t[1 + i - 1]
    BY <2>1, Part
  <2>4. Len(SubSeq(s, 1, m)) = m /\ Len(SubSeq(t, 1, m)) = m
    BY <2>2, <2>3
  <2>5. \A i \in 1..m : SubSeq(s, 1, m)[i] = s[i] /\ SubSeq(t, 1, m)[i] = t[i]
    BY <2>2, <2>3, <2>4
  <2>6. ASSUME \A i \in 1..m : s[i] = t[i]
        PROVE  SubSeq(s, 1, m) = SubSeq(t, 1, m)
    BY <2>2, <2>3, <2>4, <2>5, <2>6, SeqEqual DEF Text
  <2> QED
    BY <2>5, <2>6
<1>5. \A s \in Text : IsPrefix(s, t) <=>
         Len(s) <= Len(t) /\ \A i \in 1..Len(s) : s[i] = t[i]
  <2>1. \A s \in Text : Len(s) \in Nat
    BY LenProperties DEF Text
  <2> QED
    BY <1>4, <2>1 DEF IsPrefix
<1>6. \A i \in 1..1 : i = 1
  OBVIOUS
<1>7. 1 \in 1..1 /\ 1 \in 1..2 /\ 2 \in 1..2 /\ \A i \in 1..2 : i = 1 \/ i = 2
  OBVIOUS
<1>8. IsPrefix(<<"#">>, t) <=> t # <<>> /\ t[1] = "#"
  <2> DEFINE s == <<"#">>
  <2>1. s \in Text /\ Len(s) = 1 /\ s[1] = "#"
    BY <1>3
  <2> HIDE DEF s
  <2>2. IsPrefix(s, t) <=> 1 <= Len(t) /\ s[1] = t[1]
    BY <1>5, <1>6, <1>7, <2>1
  <2> QED
    BY <1>1, <2>1, <2>2 DEF s
<1>9. IsPrefix(<<"export", " ">>, t) <=> Len(t) >= 2 /\ t[1] = "export" /\ t[2] = " "
  <2> DEFINE s == <<"export", " ">>
  <2>1. s \in Text /\ Len(s) = 2 /\ s[1] = "export" /\ s[2] = " "
    BY <1>3
  <2> HIDE DEF s
  <2>2. IsPrefix(s, t) <=> 2 <= Len(t) /\ s[1] = t[1] /\ s[2] = t[2]
    BY <1>5, <1>7, <2>1
  <2> QED
    BY <1>1, <2>1, <2>2 DEF s
<1> QED
  BY <1>8, <1>9

\* What a line says is part of it, and begins solid.
LEMMA StatementType ==
    ASSUME NEW t \in Text
    PROVE  /\ Statement(t) \in Text
           /\ OneLine(t) => OneLine(Statement(t))
           /\ Statement(t) # <<>> => Solid(Statement(t)[1])
<1> DEFINE l == TrimSpace(t)
           e == SubSeq(l, 3, Len(l))
<1>1. /\ l \in Text
      /\ OneLine(t) => OneLine(l)
      /\ l # <<>> => Solid(l[1])
  BY Trimmed DEF OneLine
<1>2. Statement(t) = IF IsPrefix(<<"#">>, l) THEN <<>>
                     ELSE IF IsPrefix(<<"export", " ">>, l) THEN TrimSpace(e) ELSE l
  BY DEF Statement
<1> HIDE DEF l
<1>3. Len(l) \in Nat /\ DOMAIN l = 1..Len(l)
  BY <1>1, LenProperties DEF Text
<1>4. e \in Text /\ (OneLine(l) => OneLine(e))
  <2>1. 3 \in Nat \ {0} /\ Len(l) <= Len(l)
    BY <1>3
  <2>2. /\ e \in Text
        /\ Len(e) = IF 3 <= Len(l) THEN Len(l) - 3 + 1 ELSE 0
        /\ DOMAIN e = 1..Len(e)
        /\ \A i \in 1..Len(e) : e[i] = l[3 + i - 1]
    BY <1>1, <1>3, <2>1, Part
  <2> HIDE DEF e
  <2>3. \A i \in DOMAIN e : 3 + i - 1 \in DOMAIN l
    <3>1. CASE 3 <= Len(l)
      <4>1. Len(e) = Len(l) - 2
        BY <1>3, <2>2, <3>1
      <4>2. \A i \in 1..(Len(l) - 2) : 3 + i - 1 \in 1..Len(l)
        BY <1>3
      <4> QED
        BY <1>3, <2>2, <4>1, <4>2
    <3>2. CASE ~(3 <= Len(l))
      BY <1>3, <2>2, <3>2
    <3> QED
      BY <3>1, <3>2
  <2> QED
    BY <2>2, <2>3 DEF OneLine
<1> HIDE DEF e
<1>5. /\ TrimSpace(e) \in Text
      /\ OneLine(e) => OneLine(TrimSpace(e))
      /\ TrimSpace(e) # <<>> => Solid(TrimSpace(e)[1])
  BY <1>4, Trimmed DEF OneLine
<1>6. <<>> \in Text /\ OneLine(<<>>)
  BY DEF Text, OneLine
<1> QED
  BY <1>1, <1>2, <1>4, <1>5, <1>6

-----------------------------------------------------------------------------
(* Reading.                                                                *)

ParsedLine(t, i) == Statement(LineAt(t, i))

Settings(t) == {i \in LineStarts(t) : IsSetting(ParsedLine(t, i))}

Sets(t, k) == {i \in Settings(t) : NameIn(ParsedLine(t, i)) = k}

\* ParseEnvFile in these terms.
LEMMA ParseIs ==
    ASSUME NEW t
    PROVE  ParseEnvFile(t) = [k \in {NameIn(ParsedLine(t, i)) : i \in Settings(t)} |->
                                 ValueIn(ParsedLine(t, Max(Sets(t, k))))]
BY DEF ParseEnvFile, Settings, Sets, ParsedLine

\* A line ends before the next newline, or with the text.
LEMMA LineEnds ==
    ASSUME NEW t \in Text, NEW i \in 1..(Len(t) + 1)
    PROVE  \E e \in i..(Len(t) + 1) :
              /\ e = Len(t) + 1 \/ t[e] = "\n"
              /\ \A j \in i..(e - 1) : t[j] # "\n"
              /\ LineAt(t, i) = SubSeq(t, i, e - 1)
<1> DEFINE E == {Len(t) + 1} \cup {j \in i..Len(t) : t[j] = "\n"}
<1>1. Len(t) \in Nat
  BY LenProperties DEF Text
<1>2. E \subseteq i..(Len(t) + 1) /\ E \subseteq Nat /\ E # {}
  BY <1>1
<1>3. LineAt(t, i) = SubSeq(t, i, Min(E) - 1)
  BY DEF LineAt
<1>4. PICK e \in E : e = Min(E) /\ \A j \in E : e <= j
  <2> HIDE DEF E
  <2> QED
    BY <1>2, MinLeast
<1>5. e \in i..(Len(t) + 1) /\ (e = Len(t) + 1 \/ t[e] = "\n")
  BY <1>2
<1>6. ASSUME NEW j \in i..(e - 1)
      PROVE  t[j] # "\n"
  <2>1. j \in i..Len(t) /\ j < e
    BY <1>1, <1>5
  <2>2. j \notin E
    BY <1>1, <1>2, <1>4, <1>5, <2>1
  <2> QED
    BY <2>1, <2>2
<1> HIDE DEF E
<1> QED
  BY <1>3, <1>4, <1>5, <1>6

\* There is one such end.
LEMMA LineTo ==
    ASSUME NEW t \in Text, NEW i \in 1..(Len(t) + 1), NEW e \in i..(Len(t) + 1),
           e = Len(t) + 1 \/ t[e] = "\n",
           \A j \in i..(e - 1) : t[j] # "\n"
    PROVE  LineAt(t, i) = SubSeq(t, i, e - 1)
<1>1. Len(t) \in Nat
  BY LenProperties DEF Text
<1>2. PICK d \in i..(Len(t) + 1) :
         /\ d = Len(t) + 1 \/ t[d] = "\n"
         /\ \A j \in i..(d - 1) : t[j] # "\n"
         /\ LineAt(t, i) = SubSeq(t, i, d - 1)
  BY LineEnds
<1>3. ~(d < e)
  BY <1>1, <1>2
<1>4. ~(e < d)
  BY <1>1, <1>2
<1>5. d = e
  BY <1>1, <1>3, <1>4
<1> QED
  BY <1>2, <1>5

\* A line is a text without newline, and so is what it says.
LEMMA LineIsText ==
    ASSUME NEW t \in Text, NEW i \in LineStarts(t)
    PROVE  /\ i \in 1..(Len(t) + 1)
           /\ LineAt(t, i) \in Text
           /\ OneLine(LineAt(t, i))
           /\ ParsedLine(t, i) \in Text
           /\ OneLine(ParsedLine(t, i))
           /\ ParsedLine(t, i) # <<>> => Solid(ParsedLine(t, i)[1])
<1>1. Len(t) \in Nat /\ DOMAIN t = 1..Len(t)
  BY LenProperties DEF Text
<1>2. i \in 1..(Len(t) + 1)
  BY <1>1 DEF LineStarts
<1>3. PICK e \in i..(Len(t) + 1) :
         /\ \A j \in i..(e - 1) : t[j] # "\n"
         /\ LineAt(t, i) = SubSeq(t, i, e - 1)
  BY <1>2, LineEnds
<1>4. /\ LineAt(t, i) \in Text
      /\ DOMAIN LineAt(t, i) = 1..Len(LineAt(t, i))
      /\ Len(LineAt(t, i)) = e - i
      /\ \A n \in 1..Len(LineAt(t, i)) : LineAt(t, i)[n] = t[i + n - 1]
  BY <1>1, <1>2, <1>3, Part
<1>5. OneLine(LineAt(t, i))
  <2> SUFFICES ASSUME NEW n \in 1..Len(LineAt(t, i))
               PROVE  LineAt(t, i)[n] # "\n"
    BY <1>4 DEF OneLine
  <2>1. i + n - 1 \in i..(e - 1)
    BY <1>2, <1>4
  <2> QED
    BY <2>1, <1>3, <1>4
<1> QED
  BY <1>2, <1>4, <1>5, StatementType DEF ParsedLine

\* Equals finds the first '='.
LEMMA EqualsFirst ==
    ASSUME NEW l \in Text, Contains(l, "=")
    PROVE  /\ Equals(l) \in 1..Len(l)
           /\ l[Equals(l)] = "="
           /\ \A j \in 1..(Equals(l) - 1) : l[j] # "="
<1> DEFINE I == {i \in 1..Len(l) : l[i] = "="}
<1>1. Len(l) \in Nat
  BY LenProperties DEF Text
<1>2. I # {} /\ I \subseteq Nat
  BY <1>1 DEF Contains
<1>3. Equals(l) = Min(I)
  BY <1>2 DEF Equals, SelectInSeq
<1>4. PICK e \in I : e = Equals(l) /\ \A j \in I : e <= j
  <2> HIDE DEF I
  <2> QED
    BY <1>2, <1>3, MinLeast
<1>5. \A j \in 1..(e - 1) : j \in 1..Len(l) /\ j < e
  BY <1>1
<1>6. \A j \in 1..(e - 1) : j \notin I
  <2> HIDE DEF I
  <2> QED
    BY <1>1, <1>2, <1>4, <1>5
<1> QED
  BY <1>4, <1>5, <1>6

\* Unquote returns a part of its argument.
LEMMA UnquotePart ==
    ASSUME NEW v \in Text
    PROVE  /\ Unquote(v) \in Text
           /\ OneLine(v) => OneLine(Unquote(v))
<1>1. Len(v) \in Nat /\ DOMAIN v = 1..Len(v)
  BY LenProperties DEF Text
<1>2. CASE Len(v) >= 2
  <2>1. /\ SubSeq(v, 2, Len(v) - 1) \in Text
        /\ Len(SubSeq(v, 2, Len(v) - 1)) = IF 2 <= Len(v) - 1 THEN Len(v) - 2 ELSE 0
        /\ DOMAIN SubSeq(v, 2, Len(v) - 1) = 1..Len(SubSeq(v, 2, Len(v) - 1))
        /\ \A n \in 1..Len(SubSeq(v, 2, Len(v) - 1)) :
              SubSeq(v, 2, Len(v) - 1)[n] = v[2 + n - 1]
    BY <1>1, <1>2, Part
  <2>2. \A n \in 1..Len(SubSeq(v, 2, Len(v) - 1)) : 2 + n - 1 \in DOMAIN v
    BY <1>1, <2>1
  <2>3. OneLine(v) => OneLine(SubSeq(v, 2, Len(v) - 1))
    BY <2>1, <2>2 DEF OneLine
  <2> QED
    BY <2>1, <2>3 DEF Unquote
<1>3. CASE ~(Len(v) >= 2)
  BY <1>3 DEF Unquote
<1> QED
  BY <1>2, <1>3

\* A setting gives a good name a value of one line.
LEMMA SettingParts ==
    ASSUME NEW l \in Text, OneLine(l), l # <<>> => Solid(l[1]), IsSetting(l)
    PROVE  /\ GoodName(NameIn(l))
           /\ ValueIn(l) \in Text
           /\ OneLine(ValueIn(l))
<1> DEFINE e == Equals(l)
           k == SubSeq(l, 1, e - 1)
           v == SubSeq(l, e + 1, Len(l))
<1>1. Len(l) \in Nat /\ DOMAIN l = 1..Len(l)
  BY LenProperties DEF Text
<1>2. Contains(l, "=") /\ l[1] # "="
  BY DEF IsSetting
<1>3. /\ e \in 1..Len(l)
      /\ l[e] = "="
      /\ \A j \in 1..(e - 1) : l[j] # "="
  BY <1>2, EqualsFirst
<1>4. NameIn(l) = TrimSpace(k) /\ ValueIn(l) = Unquote(TrimSpace(v))
  BY DEF NameIn, ValueIn
<1> HIDE DEF e
<1>5. e # 1 /\ Solid(l[1])
  BY <1>1, <1>2, <1>3, EmptySeq DEF Text
<1>6. /\ k \in Text
      /\ Len(k) = e - 1
      /\ DOMAIN k = 1..(e - 1)
      /\ \A n \in 1..(e - 1) : k[n] = l[n] /\ n \in DOMAIN l
  BY <1>1, <1>3, <1>5, Part
<1>7. /\ v \in Text
      /\ Len(v) = Len(l) - e
      /\ DOMAIN v = 1..(Len(l) - e)
      /\ \A n \in 1..(Len(l) - e) : v[n] = l[e + n] /\ e + n \in DOMAIN l
  <2>1. e + 1 \in Nat \ {0} /\ Len(l) <= Len(l)
    BY <1>1, <1>3
  <2>2. /\ v \in Text
        /\ Len(v) = IF e + 1 <= Len(l) THEN Len(l) - (e + 1) + 1 ELSE 0
        /\ DOMAIN v = 1..Len(v)
        /\ \A n \in 1..Len(v) : v[n] = l[(e + 1) + n - 1]
    BY <1>1, <2>1, Part
  <2> HIDE DEF v
  <2>3. Len(v) = Len(l) - e
    <3>1. Len(v) = IF e + 1 <= Len(l) THEN Len(l) - (e + 1) + 1 ELSE 0
      BY <2>2
    <3>2. e \in Nat /\ e <= Len(l) /\ Len(l) \in Nat
      BY <1>1, <1>3
    <3> QED
      BY <3>1, <3>2
  <2>4. \A n \in 1..(Len(l) - e) : (e + 1) + n - 1 = e + n /\ e + n \in DOMAIN l
    BY <1>1, <1>3
  <2> QED
    BY <2>2, <2>3, <2>4
<1> HIDE DEF k, v
<1>8. k # <<>> /\ k[1] = l[1]
  <2>1. 1 \in 1..(e - 1)
    BY <1>3, <1>5
  <2> QED
    BY <2>1, <1>6
<1>9. \A i \in DOMAIN k : k[i] \notin {"=", "\n"}
  BY <1>3, <1>6 DEF OneLine
<1>10. GoodName(TrimSpace(k))
  <2>1. /\ TrimSpace(k) \in Text
        /\ \A i \in DOMAIN TrimSpace(k) : \E j \in DOMAIN k : TrimSpace(k)[i] = k[j]
        /\ TrimSpace(k) # <<>> /\ TrimSpace(k)[1] = k[1]
        /\ Solid(TrimSpace(k)[1]) /\ Solid(TrimSpace(k)[Len(TrimSpace(k))])
    BY <1>5, <1>6, <1>8, Trimmed
  <2> QED
    BY <2>1, <1>2, <1>8, <1>9 DEF GoodName
<1>11. OneLine(v)
  BY <1>7 DEF OneLine
<1>12. TrimSpace(v) \in Text /\ OneLine(TrimSpace(v))
  BY <1>7, <1>11, Trimmed DEF OneLine
<1> QED
  BY <1>4, <1>10, <1>12, UnquotePart

\* The settings of a name, the last of which counts.
LEMMA LastSetting ==
    ASSUME NEW t \in Text, NEW k, Sets(t, k) # {}
    PROVE  Max(Sets(t, k)) \in Sets(t, k)
<1>1. Len(t) + 1 \in Nat
  BY LenProperties DEF Text
<1>2. Sets(t, k) \subseteq 0..(Len(t) + 1)
  BY <1>1, LineIsText DEF Sets, Settings
<1> QED
  BY <1>1, <1>2, MaxGreatest

\* What ParseEnvFile can return: finitely many good names, values of one line.
LEMMA ParseType ==
    ASSUME NEW t \in Text
    PROVE  /\ IsFiniteSet(DOMAIN ParseEnvFile(t))
           /\ \A k \in DOMAIN ParseEnvFile(t) :
                 /\ GoodName(k)
                 /\ ParseEnvFile(t)[k] \in Text
                 /\ OneLine(ParseEnvFile(t)[k])
<1> DEFINE N == {NameIn(ParsedLine(t, i)) : i \in Settings(t)}
<1>1. /\ DOMAIN ParseEnvFile(t) = N
      /\ \A k \in N : ParseEnvFile(t)[k] = ValueIn(ParsedLine(t, Max(Sets(t, k))))
  BY ParseIs
<1>2. \A i \in Settings(t) :
         /\ GoodName(NameIn(ParsedLine(t, i)))
         /\ ValueIn(ParsedLine(t, i)) \in Text
         /\ OneLine(ValueIn(ParsedLine(t, i)))
  BY LineIsText, SettingParts DEF Settings
<1>3. IsFiniteSet(N)
  <2>1. Len(t) + 1 \in Nat
    BY LenProperties DEF Text
  <2>2. Settings(t) \in SUBSET (1..(Len(t) + 1))
    BY LineIsText DEF Settings
  <2>3. IsFiniteSet(Settings(t))
    <3>1. 1 \in Int /\ Len(t) + 1 \in Int
      BY <2>1
    <3>2. IsFiniteSet(1..(Len(t) + 1))
      BY <3>1, FS_Interval, Zenon
    <3> QED
      BY <2>2, <3>2, FS_Subset, Zenon
  <2> DEFINE f == [i \in Settings(t) |-> NameIn(ParsedLine(t, i))]
  <2>4. f \in Surjection(Settings(t), N)
    BY DEF Surjection
  <2> QED
    BY <2>3, <2>4, FS_Surjection
<1>4. ASSUME NEW k \in N
      PROVE  Max(Sets(t, k)) \in Settings(t)
  BY LastSetting DEF Sets
<1> QED
  BY <1>1, <1>2, <1>3, <1>4

\* A text to which lines can be appended.
Closed(t) == t = <<>> \/ t[Len(t)] = "\n"

AppendLine(t, l) == t \o (l \o <<"\n">>)

\* The map m with k set to v.
With(m, k, v) == [n \in DOMAIN m \cup {k} |-> IF n = k THEN v ELSE m[n]]

\* How the lines of a text change when a line is appended to it.
LEMMA LinesOfAppend ==
    ASSUME NEW t \in Text, Closed(t), NEW l \in Text, OneLine(l), NEW u,
           u = AppendLine(t, l)
    PROVE  /\ u \in Text /\ Closed(u)
           /\ Len(t) \in Nat
           /\ LineStarts(t) \subseteq 1..(Len(t) + 1)
           /\ Len(t) + 1 \in LineStarts(t)
           /\ LineStarts(u) = LineStarts(t) \cup {Len(u) + 1}
           /\ \A i \in LineStarts(t) : i # Len(t) + 1 => LineAt(u, i) = LineAt(t, i)
           /\ LineAt(t, Len(t) + 1) = <<>>
           /\ LineAt(u, Len(t) + 1) = l
           /\ LineAt(u, Len(u) + 1) = <<>>
<1> DEFINE n == Len(t)
           m == Len(l)
<1>1. n \in Nat /\ m \in Nat /\ DOMAIN t = 1..n /\ DOMAIN l = 1..m
  BY LenProperties DEF Text
<1>2. "\n" \in Char /\ <<"\n">> \in Text /\ Len(<<"\n">>) = 1 /\ <<"\n">>[1] = "\n"
  <2>1. "\n" \in Char
    BY Symbols
  <2> QED
    BY <2>1 DEF Text
<1>3. /\ l \o <<"\n">> \in Text
      /\ Len(l \o <<"\n">>) = m + 1
      /\ \A i \in 1..m : (l \o <<"\n">>)[i] = l[i]
      /\ (l \o <<"\n">>)[m + 1] = "\n"
  BY <1>1, <1>2, ConcatProperties DEF Text
<1>4. /\ u \in Text
      /\ Len(u) = n + m + 1
      /\ DOMAIN u = 1..(n + m + 1)
      /\ \A i \in 1..n : u[i] = t[i]
      /\ \A i \in 1..m : u[n + i] = l[i]
      /\ u[n + m + 1] = "\n"
  <2>1. /\ u \in Text
        /\ Len(u) = n + (m + 1)
        /\ \A i \in 1..(n + (m + 1)) :
              u[i] = IF i <= n THEN t[i] ELSE (l \o <<"\n">>)[i - n]
    BY <1>1, <1>3, ConcatProperties DEF Text, AppendLine
  <2>2. DOMAIN u = 1..Len(u)
    BY <2>1, LenProperties DEF Text
  <2>3. \A i \in 1..m : u[n + i] = l[i]
    BY <2>1, <1>1, <1>3
  <2>4. u[n + m + 1] = "\n"
    BY <2>1, <1>1, <1>3
  <2>5. \A i \in 1..n : u[i] = t[i]
    BY <2>1, <1>1
  <2> HIDE DEF n, m
  <2> QED
    BY <2>1, <2>2, <2>3, <2>4, <2>5, <1>1
<1> HIDE DEF n, m
<1>5. \A i \in 1..m : u[n + i] # "\n"
  BY <1>1, <1>4 DEF OneLine
<1>6. n + 1 \in LineStarts(t) /\ LineStarts(t) \subseteq 1..(n + 1)
  <2>1. t # <<>> => n \in 1..n /\ t[n] = "\n"
    BY <1>1, EmptySeq DEF n, Closed, Text
  <2>2. t = <<>> => n = 0
    BY DEF n
  <2>3. n + 1 \in LineStarts(t)
    BY <2>1, <2>2, <1>1 DEF LineStarts
  <2> QED
    BY <2>3, <1>1 DEF LineStarts
<1>7. LineStarts(u) = LineStarts(t) \cup {n + m + 2}
  <2>1. ASSUME NEW j \in 1..(n + m + 1)
        PROVE  u[j] = "\n" <=> j = n + m + 1 \/ (j \in 1..n /\ t[j] = "\n")
    <3>1. CASE j \in 1..n
      BY <3>1, <1>1, <1>4
    <3>2. CASE j \in (n + 1)..(n + m)
      <4>1. j - n \in 1..m /\ j = n + (j - n)
        BY <3>2, <1>1
      <4>2. u[j] # "\n"
        BY <4>1, <1>5
      <4>3. j # n + m + 1 /\ j \notin 1..n
        BY <3>2, <1>1
      <4> QED
        BY <4>2, <4>3
    <3>3. CASE j = n + m + 1
      BY <3>3, <1>4
    <3> QED
      BY <3>1, <3>2, <3>3, <1>1
  <2>2. {j \in DOMAIN u : u[j] = "\n"}
           = {j \in DOMAIN t : t[j] = "\n"} \cup {n + m + 1}
    <3>1. DOMAIN t \subseteq 1..(n + m + 1) /\ n + m + 1 \in 1..(n + m + 1)
      BY <1>1
    <3> QED
      BY <2>1, <3>1, <1>1, <1>4
  <2>3. n + m + 1 + 1 = n + m + 2
    BY <1>1
  <2>4. ASSUME NEW A, NEW x
        PROVE  {i + 1 : i \in A \cup {x}} = {i + 1 : i \in A} \cup {x + 1}
    OBVIOUS
  <2> DEFINE A == {j \in DOMAIN t : t[j] = "\n"}
  <2>5. LineStarts(u) = {1} \cup {i + 1 : i \in A \cup {n + m + 1}}
    BY <2>2 DEF LineStarts
  <2>6. LineStarts(t) = {1} \cup {i + 1 : i \in A}
    BY DEF LineStarts
  <2> HIDE DEF A
  <2> QED
    BY <2>3, <2>4, <2>5, <2>6
<1>8. ASSUME NEW i \in LineStarts(t), i # n + 1
      PROVE  LineAt(u, i) = LineAt(t, i)
  <2>1. i \in 1..n
    BY <1>1, <1>6, <1>8
  <2>2. PICK e \in i..(n + 1) :
           /\ e = n + 1 \/ t[e] = "\n"
           /\ \A j \in i..(e - 1) : t[j] # "\n"
           /\ LineAt(t, i) = SubSeq(t, i, e - 1)
    <3>1. i \in 1..(Len(t) + 1)
      BY <1>6 DEF n
    <3> QED
      BY <3>1, LineEnds DEF n
  <2>3. e \in i..n /\ t[e] = "\n"
    <3>1. t[n] = "\n"
      BY <2>1, <1>1 DEF Closed, n
    <3>2. e # n + 1
      BY <2>1, <2>2, <3>1, <1>1
    <3> QED
      BY <2>1, <2>2, <3>2, <1>1
  <2>4. /\ e \in i..(Len(u) + 1) /\ i \in 1..(Len(u) + 1)
        /\ u[e] = "\n"
        /\ \A j \in i..(e - 1) : u[j] # "\n"
    BY <2>1, <2>2, <2>3, <1>1, <1>4
  <2>5. LineAt(u, i) = SubSeq(u, i, e - 1)
    BY <2>4, <1>4, LineTo
  <2>6. SubSeq(u, i, e - 1) = SubSeq(t, i, e - 1)
    <3>1. CASE e = i
      <4>1. e - 1 < i
        BY <2>1, <3>1
      <4> QED
        BY <4>1, <2>1, <2>3, SubSeqEmpty
    <3>2. CASE e # i
      <4>1. i \in 1..Len(t) /\ e - 1 \in 1..Len(t)
        BY <2>1, <2>3, <3>2, <1>1 DEF n
      <4> QED
        BY <4>1, <1>3, SubSeqOfConcat1 DEF Text, AppendLine
    <3> QED
      BY <3>1, <3>2
  <2> QED
    BY <2>2, <2>5, <2>6
<1>9. LineAt(t, n + 1) = <<>>
  <2>1. LineAt(t, n + 1) = SubSeq(t, n + 1, (n + 1) - 1)
    <3>1. n + 1 \in 1..(n + 1) /\ n + 1 \in (n + 1)..(n + 1)
      BY <1>1
    <3>2. \A j \in (n + 1)..((n + 1) - 1) : t[j] # "\n"
      BY <1>1
    <3> QED
      BY <3>1, <3>2, LineTo DEF n
  <2>2. (n + 1) - 1 < n + 1 /\ n + 1 \in Int /\ (n + 1) - 1 \in Int
    BY <1>1
  <2> QED
    BY <2>1, <2>2, SubSeqEmpty
<1>10. LineAt(u, n + 1) = l
  <2>1. /\ n + 1 \in 1..(Len(u) + 1)
        /\ n + m + 1 \in (n + 1)..(Len(u) + 1)
        /\ u[n + m + 1] = "\n"
    BY <1>1, <1>4
  <2>2. ASSUME NEW j \in (n + 1)..((n + m + 1) - 1)
        PROVE  u[j] # "\n"
    <3>1. j - n \in 1..m /\ j = n + (j - n)
      BY <1>1
    <3> QED
      BY <3>1, <1>5
  <2>3. LineAt(u, n + 1) = SubSeq(u, n + 1, (n + m + 1) - 1)
    BY <2>1, <2>2, <1>4, LineTo
  <2>4. n + 1 \in Nat \ {0} /\ (n + m + 1) - 1 = (n + 1) + m - 1
    BY <1>1
  <2>5. (n + 1) + m - 1 <= Len(u) /\ u \in Text
    BY <1>1, <1>4
  <2>6. \A i \in 1..m : u[(n + 1) + i - 1] = l[i]
    <3>1. \A i \in 1..m : (n + 1) + i - 1 = n + i
      BY <1>1
    <3> QED
      BY <3>1, <1>4
  <2>7. SubSeq(u, n + 1, (n + 1) + m - 1) = l
    BY <2>4, <2>5, <2>6, PartEqual DEF m
  <2> QED
    BY <2>3, <2>4, <2>7
<1>11. LineAt(u, n + m + 2) = <<>>
  <2>1. n + m + 2 = Len(u) + 1 /\ Len(u) + 1 \in 1..(Len(u) + 1)
        /\ Len(u) + 1 \in (Len(u) + 1)..(Len(u) + 1)
        /\ (Len(u) + 1) - 1 < Len(u) + 1 /\ Len(u) + 1 \in Int /\ (Len(u) + 1) - 1 \in Int
    BY <1>1, <1>4
  <2>2. \A j \in (Len(u) + 1)..((Len(u) + 1) - 1) : u[j] # "\n"
    BY <1>1, <1>4
  <2>3. LineAt(u, Len(u) + 1) = SubSeq(u, Len(u) + 1, (Len(u) + 1) - 1)
    BY <2>1, <2>2, <1>4, LineTo
  <2> QED
    BY <2>1, <2>3, SubSeqEmpty
<1>12. Len(u) + 1 = n + m + 2 /\ Closed(u)
  <2>1. Len(u) + 1 = n + m + 2
    BY <1>1, <1>4
  <2>2. u[Len(u)] = "\n"
    BY <1>4
  <2> QED
    BY <2>1, <2>2 DEF Closed
<1> QED
  BY <1>1, <1>4, <1>6, <1>7, <1>8, <1>9, <1>10, <1>11, <1>12 DEF n

\* An empty line sets nothing.
LEMMA EmptyLine == Statement(<<>>) = <<>> /\ ~IsSetting(<<>>)
<1>1. <<>> \in Text /\ Len(<<>>) = 0 /\ TrimSpace(<<>>) = <<>>
  BY TrimTwice DEF Text
<1>2. Statement(<<>>) = <<>>
  <2>1. ~IsPrefix(<<"#">>, <<>>) /\ ~IsPrefix(<<"export", " ">>, <<>>)
    BY DEF IsPrefix
  <2> QED
    BY <1>1, <2>1 DEF Statement
<1>3. ~IsSetting(<<>>)
  BY DEF IsSetting, Contains
<1> QED
  BY <1>2, <1>3

\* ParseEnvFile takes the lines one by one: appending a line to a text sets what
\* the line sets and leaves every other name alone.
LEMMA ParseAppend ==
    ASSUME NEW t \in Text, Closed(t), NEW l \in Text, OneLine(l), NEW u,
           u = AppendLine(t, l)
    PROVE  ParseEnvFile(u) =
              IF IsSetting(Statement(l))
              THEN With(ParseEnvFile(t), NameIn(Statement(l)), ValueIn(Statement(l)))
              ELSE ParseEnvFile(t)
<1> DEFINE p == Len(t) + 1
           L == Statement(l)
<1>1. /\ u \in Text /\ Closed(u)
      /\ Len(t) \in Nat
      /\ LineStarts(t) \subseteq 1..p
      /\ p \in LineStarts(t)
      /\ LineStarts(u) = LineStarts(t) \cup {Len(u) + 1}
      /\ \A i \in LineStarts(t) : i # p => LineAt(u, i) = LineAt(t, i)
      /\ LineAt(t, p) = <<>>
      /\ LineAt(u, p) = l
      /\ LineAt(u, Len(u) + 1) = <<>>
  BY LinesOfAppend
<1>2. /\ ~IsSetting(ParsedLine(t, p))
      /\ ~IsSetting(ParsedLine(u, Len(u) + 1))
      /\ ParsedLine(u, p) = L
      /\ \A i \in LineStarts(t) : i # p => ParsedLine(u, i) = ParsedLine(t, i)
  BY <1>1, EmptyLine DEF ParsedLine
<1>3. p \notin Settings(t) /\ Settings(t) \subseteq LineStarts(t)
  BY <1>2 DEF Settings
<1>4. Settings(u) = Settings(t) \cup (IF IsSetting(L) THEN {p} ELSE {})
  BY <1>1, <1>2 DEF Settings
<1> HIDE DEF p, L
<1>5. \A i \in Settings(t) : ParsedLine(u, i) = ParsedLine(t, i)
  BY <1>2, <1>3
<1> DEFINE N(x) == {NameIn(ParsedLine(x, i)) : i \in Settings(x)}
<1>6. /\ ParseEnvFile(t) = [k \in N(t) |-> ValueIn(ParsedLine(t, Max(Sets(t, k))))]
      /\ ParseEnvFile(u) = [k \in N(u) |-> ValueIn(ParsedLine(u, Max(Sets(u, k))))]
  BY ParseIs
<1>7. \A k \in N(t) : Max(Sets(t, k)) \in Settings(t)
  <2>1. \A k \in N(t) : Sets(t, k) # {} /\ Sets(t, k) \subseteq Settings(t)
    BY DEF Sets
  <2> QED
    BY <2>1, LastSetting
<1>8. CASE ~IsSetting(L)
  <2>1. Settings(u) = Settings(t)
    BY <1>4, <1>8
  <2>2. N(u) = N(t)
    BY <2>1, <1>5
  <2>3. \A k : Sets(u, k) = Sets(t, k)
    BY <2>1, <1>5 DEF Sets
  <2>4. \A k \in N(t) : ValueIn(ParsedLine(u, Max(Sets(u, k))))
                           = ValueIn(ParsedLine(t, Max(Sets(t, k))))
    BY <2>3, <1>5, <1>7
  <2> HIDE DEF N
  <2>5. ParseEnvFile(u) = ParseEnvFile(t)
    BY <2>2, <2>4, <1>6
  <2> QED
    BY <2>5, <1>8 DEF L
<1>9. CASE IsSetting(L)
  <2>1. Settings(u) = Settings(t) \cup {p}
    BY <1>4, <1>9
  <2>2. N(u) = N(t) \cup {NameIn(L)}
    BY <2>1, <1>5, <1>2
  <2>3. \A k : k # NameIn(L) => Sets(u, k) = Sets(t, k)
    BY <2>1, <1>2, <1>5 DEF Sets
  <2>4. Max(Sets(u, NameIn(L))) = p
    <3> DEFINE S == Sets(u, NameIn(L))
    <3>1. p \in S /\ S \subseteq Settings(t) \cup {p}
      BY <2>1, <1>2 DEF Sets
    <3>2. p \in Nat /\ S \subseteq 0..p
      BY <3>1, <1>1, <1>3 DEF p
    <3> HIDE DEF S
    <3>3. PICK m \in S : m = Max(S) /\ \A y \in S : y <= m
      BY <3>1, <3>2, MaxGreatest
    <3>4. m = p
      BY <3>1, <3>2, <3>3
    <3> QED
      BY <3>3, <3>4 DEF S
  <2>5. ASSUME NEW k \in N(u)
        PROVE  ValueIn(ParsedLine(u, Max(Sets(u, k)))) =
                  IF k = NameIn(L) THEN ValueIn(L) ELSE ParseEnvFile(t)[k]
    <3>1. CASE k = NameIn(L)
      BY <3>1, <2>4, <1>2
    <3>2. CASE k # NameIn(L)
      <4>1. k \in N(t)
        BY <3>2, <2>2
      <4>2. Max(Sets(u, k)) = Max(Sets(t, k))
        BY <3>2, <2>3
      <4>3. ParsedLine(u, Max(Sets(u, k))) = ParsedLine(t, Max(Sets(t, k)))
        BY <4>1, <4>2, <1>5, <1>7
      <4>4. ParseEnvFile(t)[k] = ValueIn(ParsedLine(t, Max(Sets(t, k))))
        <5> HIDE DEF N
        <5> QED
          BY <4>1, <1>6
      <4> QED
        BY <3>2, <4>3, <4>4
    <3> QED
      BY <3>1, <3>2
  <2> HIDE DEF N
  <2>6. DOMAIN ParseEnvFile(t) = N(t)
    BY <1>6
  <2>7. ParseEnvFile(u) = With(ParseEnvFile(t), NameIn(L), ValueIn(L))
    BY <2>2, <2>5, <2>6, <1>6 DEF With
  <2> QED
    BY <2>7, <1>9 DEF L
<1> QED
  BY <1>8, <1>9

-----------------------------------------------------------------------------
(* Writing.                                                                *)

\* f[i] is what a loop that appends the sequences of s has after i of them.
Appends(s, f, n) == f[0] = <<>> /\ \A i \in 1..n : f[i] = f[i - 1] \o s[i]

\* One more step of the loop.
LEMMA AppendsStep ==
    ASSUME NEW C, NEW s \in Seq(Seq(C)), NEW n \in Nat, n + 1 <= Len(s),
           NEW f \in [0..n -> Seq(C)], Appends(s, f, n)
    PROVE  \E g \in [0..(n + 1) -> Seq(C)] : Appends(s, g, n + 1)
<1> DEFINE x == f[n] \o s[n + 1]
           g == [i \in 0..(n + 1) |-> IF i <= n THEN f[i] ELSE x]
<1>1. n + 1 \in 1..Len(s)
  BY LenProperties
<1>2. s[n + 1] \in Seq(C) /\ f[n] \in Seq(C)
  BY <1>1, ElementOfSeq
<1>3. x \in Seq(C)
  BY <1>2, ConcatProperties
<1>4. g[n + 1] = x
  BY SMT
<1>5. \A i \in 0..n : g[i] = f[i]
  BY SMT
<1>6. g \in [0..(n + 1) -> Seq(C)]
  <2> HIDE DEF x
  <2> QED
    BY <1>3
<1> HIDE DEF g
<1>7. g[0] = <<>>
  BY <1>5 DEF Appends
<1>8. ASSUME NEW i \in 1..(n + 1)
      PROVE  g[i] = g[i - 1] \o s[i]
  <2>1. CASE i \in 1..n
    <3>1. i \in 0..n /\ i - 1 \in 0..n
      BY <2>1
    <3>2. f[i] = f[i - 1] \o s[i]
      BY <2>1 DEF Appends
    <3> QED
      BY <3>1, <3>2, <1>5
  <2>2. CASE i = n + 1
    <3>1. n \in 0..n /\ i - 1 = n
      BY <2>2
    <3> QED
      BY <2>2, <3>1, <1>4, <1>5
  <2>3. i \in 1..n \/ i = n + 1
    OBVIOUS
  <2> QED
    BY <2>1, <2>2, <2>3
<1> QED
  BY <1>6, <1>7, <1>8 DEF Appends

\* The loop has a value after every step.
LEMMA AppendsExists ==
    ASSUME NEW C, NEW s \in Seq(Seq(C))
    PROVE  \E f \in [0..Len(s) -> Seq(C)] : Appends(s, f, Len(s))
<1> DEFINE T == {n \in Nat : n <= Len(s) =>
                                \E f \in [0..n -> Seq(C)] : Appends(s, f, n)}
<1>1. Len(s) \in Nat
  BY LenProperties
<1>2. 0 \in T
  <2> DEFINE f == [i \in 0..0 |-> <<>>]
  <2>1. f \in [0..0 -> Seq(C)] /\ f[0] = <<>>
    BY EmptySeq
  <2> HIDE DEF f
  <2>2. Appends(s, f, 0)
    BY <2>1 DEF Appends
  <2> QED
    BY <2>1, <2>2
<1>3. ASSUME NEW n \in T
      PROVE  n + 1 \in T
  <2> SUFFICES ASSUME n + 1 <= Len(s)
               PROVE  \E f \in [0..(n + 1) -> Seq(C)] : Appends(s, f, n + 1)
    OBVIOUS
  <2>1. n \in Nat /\ n <= Len(s)
    BY <1>1
  <2>2. PICK f \in [0..n -> Seq(C)] : Appends(s, f, n)
    BY <2>1
  <2> HIDE DEF T
  <2> QED
    BY <2>1, <2>2, AppendsStep
<1>4. Len(s) \in T
  <2> HIDE DEF T
  <2> QED
    BY <1>1, <1>2, <1>3, NatInduct
<1> QED
  BY <1>1, <1>4

\* FlattenSeq is that loop.
LEMMA FlattenLoop ==
    ASSUME NEW C, NEW s \in Seq(Seq(C))
    PROVE  \E f \in [0..Len(s) -> Seq(C)] :
              Appends(s, f, Len(s)) /\ FlattenSeq(s) = f[Len(s)]
<1>1. Len(s) \in Nat /\ \A i \in 1..Len(s) : s[i] \in Seq(C)
  BY LenProperties, ElementOfSeq
<1>2. PICK f \in [0..Len(s) -> Seq(C)] : Appends(s, f, Len(s))
  BY AppendsExists
<1>3. f[0] = <<>> /\ \A i \in 1..Len(s) : f[i] = f[i - 1] \o s[i]
  BY <1>2 DEF Appends
<1>4. CASE Len(s) = 0
  <2>1. s = <<>>
    BY <1>4, EmptySeq
  <2>2. FlattenSeq(s) = <<>>
    BY <1>4, <2>1 DEF FlattenSeq
  <2> QED
    BY <1>2, <1>3, <1>4, <2>2
<1>5. CASE Len(s) # 0
  <2> DEFINE Step(g) == [i \in 1..Len(s) |-> IF i = 1 THEN s[i] ELSE g[i - 1] \o s[i]]
             g == CHOOSE h : h = Step(h)
  <2>0. f[1] = s[1]
    <3>1. 1 \in 1..Len(s) /\ 1 - 1 = 0
      BY <1>1, <1>5
    <3>2. f[1] = <<>> \o s[1] /\ s[1] \in Seq(C)
      BY <1>1, <1>3, <3>1
    <3> QED
      BY <3>2, ConcatEmptySeq
  <2>1. FlattenSeq(s) = g[Len(s)]
    BY <1>5 DEF FlattenSeq
  <2>2. g = Step(g)
    <3> DEFINE h == [i \in 1..Len(s) |-> f[i]]
    <3>1. ASSUME NEW i \in 1..Len(s)
          PROVE  h[i] = IF i = 1 THEN s[i] ELSE h[i - 1] \o s[i]
      <4>1. CASE i = 1
        BY <4>1, <2>0
      <4>2. CASE i # 1
        <5>1. i - 1 \in 1..Len(s)
          BY <1>1, <4>2
        <5> QED
          BY <1>3, <4>2, <5>1
      <4> QED
        BY <4>1, <4>2
    <3>2. h = Step(h)
      BY <3>1
    <3> HIDE DEF h, Step
    <3> QED
      BY <3>2
  <2>3. \A i \in 1..Len(s) : g[i] = IF i = 1 THEN s[i] ELSE g[i - 1] \o s[i]
    <3> HIDE DEF g
    <3> QED
      BY <2>2
  <2> HIDE DEF g
  <2> DEFINE U == {i \in Nat : i \in 1..Len(s) => g[i] = f[i]}
  <2>4. 0 \in U
    OBVIOUS
  <2>5. ASSUME NEW n \in U, n + 1 \in 1..Len(s)
        PROVE  g[n + 1] = f[n + 1]
    <3>1. CASE n = 0
      <4>1. n + 1 = 1
        BY <3>1
      <4>2. g[1] = s[1]
        BY <2>3, <2>5, <4>1
      <4> QED
        BY <4>1, <4>2, <2>0
    <3>2. CASE n # 0
      <4>1. n \in 1..Len(s) /\ (n + 1) - 1 = n /\ n + 1 # 1
        BY <1>1, <2>5, <3>2
      <4>2. g[n] = f[n]
        BY <4>1
      <4>3. g[n + 1] = g[n] \o s[n + 1]
        BY <2>3, <2>5, <4>1
      <4>4. f[n + 1] = f[n] \o s[n + 1]
        BY <1>3, <2>5, <4>1
      <4> QED
        BY <4>2, <4>3, <4>4
    <3> QED
      BY <3>1, <3>2
  <2>6. \A n \in Nat : n \in U => n + 1 \in U
    BY <2>5
  <2>7. Len(s) \in U
    <3> HIDE DEF U
    <3> QED
      BY <1>1, <2>4, <2>6, NatInduct
  <2>8. g[Len(s)] = f[Len(s)]
    BY <1>1, <1>5, <2>7
  <2> QED
    BY <1>2, <2>1, <2>8
<1> QED
  BY <1>4, <1>5

\* What becomes of one character.
LEMMA EscapeOne ==
    ASSUME NEW c \in Char
    PROVE  /\ Escape(c) \in Text
           /\ c # "\n" => OneLine(Escape(c))
           /\ c \notin {"\\", "\""} => Escape(c) = <<c>>
<1>1. "\\" \in Char
  BY Symbols
<1>2. CASE c \in {"\\", "\""}
  <2>1. Escape(c) = <<"\\", c>>
    BY <1>2 DEF Escape
  <2>2. <<"\\", c>> \in Text
    BY <1>1 DEF Text
  <2>3. OneLine(<<"\\", c>>)
    <3>1. c # "\n"
      BY <1>2, Zenon
    <3>2. DOMAIN <<"\\", c>> = 1..2 /\ <<"\\", c>>[1] = "\\" /\ <<"\\", c>>[2] = c
      OBVIOUS
    <3>3. \A i \in 1..2 : i = 1 \/ i = 2
      OBVIOUS
    <3> QED
      BY <3>1, <3>2, <3>3 DEF OneLine
  <2> QED
    BY <1>2, <2>1, <2>2, <2>3
<1>3. CASE c \notin {"\\", "\""}
  <2>1. Escape(c) = <<c>>
    BY <1>3 DEF Escape
  <2> QED
    BY <2>1, Single
<1> QED
  BY <1>2, <1>3

\* One pass over the characters of a value, from left to right.
LEMMA Escaped ==
    ASSUME NEW v \in Text
    PROVE  LET w == FlattenSeq([i \in DOMAIN v |-> Escape(v[i])])
           IN  /\ w \in Text
               /\ OneLine(v) => OneLine(w)
               /\ Plain(v) => w = v
<1> DEFINE s == [i \in DOMAIN v |-> Escape(v[i])]
<1>1. Len(v) \in Nat /\ DOMAIN v = 1..Len(v) /\ \A i \in 1..Len(v) : v[i] \in Char
  BY LenProperties, ElementOfSeq DEF Text
<1>2. s \in Seq(Seq(Char)) /\ Len(s) = Len(v)
  <2>1. s \in [1..Len(v) -> Seq(Char)]
    BY <1>1, EscapeOne DEF Text
  <2> HIDE DEF s
  <2> QED
    BY <1>1, <2>1
<1>3. \A i \in 1..Len(v) : s[i] = Escape(v[i])
  BY <1>1
<1> HIDE DEF s
<1>4. PICK f \in [0..Len(v) -> Text] :
         Appends(s, f, Len(v)) /\ FlattenSeq(s) = f[Len(v)]
  BY <1>2, FlattenLoop DEF Text
<1>5. f[0] = <<>> /\ \A i \in 1..Len(v) : f[i] = f[i - 1] \o s[i]
  BY <1>4 DEF Appends
<1> DEFINE T == {n \in Nat : n <= Len(v) =>
                    /\ OneLine(v) => OneLine(f[n])
                    /\ Plain(v) => f[n] = SubSeq(v, 1, n)}
<1>6. 0 \in T
  <2>1. OneLine(<<>>)
    BY DEF OneLine
  <2>2. SubSeq(v, 1, 0) = <<>>
    BY SubSeqEmpty
  <2> QED
    BY <2>1, <2>2, <1>5
<1>7. ASSUME NEW n \in T
      PROVE  n + 1 \in T
  <2>1. SUFFICES ASSUME n + 1 <= Len(v)
                 PROVE  /\ OneLine(v) => OneLine(f[n + 1])
                        /\ Plain(v) => f[n + 1] = SubSeq(v, 1, n + 1)
    OBVIOUS
  <2>2. /\ n \in Nat /\ n <= Len(v)
        /\ OneLine(v) => OneLine(f[n])
        /\ Plain(v) => f[n] = SubSeq(v, 1, n)
    BY <1>1, <2>1
  <2> HIDE DEF T
  <2>3. /\ n + 1 \in 1..Len(v) /\ (n + 1) - 1 = n
        /\ v[n + 1] \in Char
        /\ f[n] \in Text
    BY <1>1, <2>1, <2>2
  <2>4. f[n + 1] = f[n] \o Escape(v[n + 1])
    BY <1>3, <1>5, <2>3
  <2>5. ASSUME OneLine(v)
        PROVE  OneLine(f[n + 1])
    <3>1. OneLine(f[n]) /\ OneLine(Escape(v[n + 1])) /\ Escape(v[n + 1]) \in Text
      BY <1>1, EscapeOne, <2>2, <2>3, <2>5 DEF OneLine
    <3> QED
      BY <2>3, <2>4, <3>1, Concat
  <2>6. ASSUME Plain(v)
        PROVE  f[n + 1] = SubSeq(v, 1, n + 1)
    <3>1. v[n + 1] \notin {"\\", "\""}
      BY <1>1, <2>3, <2>6 DEF Plain, ToSet
    <3>2. f[n + 1] = SubSeq(v, 1, n) \o <<v[n + 1]>>
      BY EscapeOne, <2>2, <2>3, <2>4, <2>6, <3>1
    <3>3. SubSeq(v, 1, n + 1) = SubSeq(v, 1, (n + 1) - 1) \o <<v[n + 1]>>
      <4>1. 1 \in 1..Len(v) /\ n + 1 \in 1..Len(v)
        BY <1>1, <2>3
      <4> QED
        BY <4>1, SubSeqRecursiveSecond DEF Text
    <3> QED
      BY <2>3, <3>2, <3>3
  <2> QED
    BY <2>5, <2>6
<1>8. Len(v) \in T
  <2> HIDE DEF T
  <2> QED
    BY <1>1, <1>6, <1>7, NatInduct
<1>9. /\ f[Len(v)] \in Text
      /\ OneLine(v) => OneLine(f[Len(v)])
      /\ Plain(v) => f[Len(v)] = v
  BY <1>1, <1>8, SubSeqFull DEF Text
<1> QED
  BY <1>4, <1>9 DEF s

\* The double quote, under a name: the SMT backend cannot read the literal.
DQ == "\""

\* It is a character and no white space.
LEMMA DoubleQuote == DQ \in Char /\ DQ \notin White /\ DQ # "\n"
<1>1. DQ \in Char
  BY Symbols, Zenon DEF DQ
<1>2. DQ \notin White /\ DQ # "\n"
  BY Zenon DEF DQ, White
<1> QED
  BY <1>1, <1>2

\* A text between two equal characters.
Enclose(c, w) == <<c>> \o w \o <<c>>

\* Its length, its ends and what is between them.
LEMMA Enclosed ==
    ASSUME NEW c \in Char, c # "\n", NEW w \in Text
    PROVE  /\ Enclose(c, w) \in Text
           /\ Len(w) \in Nat
           /\ Len(Enclose(c, w)) = Len(w) + 2
           /\ Enclose(c, w)[1] = c /\ Enclose(c, w)[Len(Enclose(c, w))] = c
           /\ SubSeq(Enclose(c, w), 2, Len(Enclose(c, w)) - 1) = w
           /\ OneLine(w) => OneLine(Enclose(c, w))
<1> DEFINE x == <<c>> \o w
           q == Enclose(c, w)
<1>1. /\ <<c>> \in Text /\ Len(<<c>>) = 1 /\ <<c>>[1] = c /\ OneLine(<<c>>)
  BY Single
<1>2. /\ x \in Text
      /\ Len(w) \in Nat
      /\ Len(x) = 1 + Len(w)
      /\ x[1] = c
      /\ \A i \in 1..Len(w) : x[1 + i] = w[i]
      /\ OneLine(w) => OneLine(x)
  <2> HIDE DEF x
  <2>1. /\ x \in Text
        /\ Len(w) \in Nat
        /\ Len(x) = Len(<<c>>) + Len(w)
        /\ \A i \in 1..Len(<<c>>) : x[i] = <<c>>[i]
        /\ \A i \in 1..Len(w) : x[Len(<<c>>) + i] = w[i]
        /\ OneLine(w) => OneLine(x)
    BY <1>1, Concat DEF x
  <2> QED
    BY <1>1, <2>1
<1>3. q = x \o <<c>>
  BY DEF Enclose
<1> HIDE DEF x, q
<1>4. /\ q \in Text
      /\ Len(q) = Len(x) + 1
      /\ \A i \in 1..Len(x) : q[i] = x[i]
      /\ q[Len(x) + 1] = c
      /\ OneLine(w) => OneLine(q)
  <2>1. /\ q \in Text
        /\ Len(q) = Len(x) + Len(<<c>>)
        /\ \A i \in 1..Len(x) : q[i] = x[i]
        /\ \A i \in 1..Len(<<c>>) : q[Len(x) + i] = <<c>>[i]
        /\ OneLine(x) => OneLine(q)
    <3>1. \A y, z \in Text :
             /\ y \o z \in Text
             /\ Len(y \o z) = Len(y) + Len(z)
             /\ \A i \in 1..Len(y) : (y \o z)[i] = y[i]
             /\ \A i \in 1..Len(z) : (y \o z)[Len(y) + i] = z[i]
             /\ OneLine(y) /\ OneLine(z) => OneLine(y \o z)
      BY Concat
    <3>2. x \in Text /\ <<c>> \in Text /\ OneLine(<<c>>)
      BY <1>1, <1>2
    <3> QED
      BY <1>3, <3>1, <3>2, Zenon
  <2> QED
    BY <1>1, <1>2, <2>1
<1>5. Len(q) = Len(w) + 2 /\ q[1] = c /\ q[Len(q)] = c
  BY <1>2, <1>4
<1>6. \A i \in 1..Len(w) : q[2 + i - 1] = w[i]
  <2>1. \A i \in 1..Len(w) : 2 + i - 1 = 1 + i /\ 1 + i \in 1..Len(x)
    BY <1>2
  <2> QED
    BY <2>1, <1>2, <1>4
<1>7. 2 + Len(w) - 1 = Len(q) - 1 /\ 2 + Len(w) - 1 <= Len(q)
  BY <1>2, <1>5
<1>8. SubSeq(q, 2, 2 + Len(w) - 1) = w
  BY <1>4, <1>6, <1>7, PartEqual
<1> QED
  BY <1>2, <1>4, <1>5, <1>7, <1>8 DEF q

\* What is read of a plain value is plain, and is read the same again.
LEMMA KeptTwice ==
    ASSUME NEW v \in Text
    PROVE  /\ Kept(v) \in Text
           /\ Plain(v) => Plain(Kept(v))
           /\ Kept(Kept(v)) = Kept(v)
           /\ Kept(<<>>) = <<>>
<1>1. /\ TrimSpace(v) \in Text
      /\ ToSet(TrimSpace(v)) \subseteq ToSet(v)
      /\ TrimSpace(TrimSpace(v)) = TrimSpace(v)
  BY Trimmed, TrimTwice DEF ToSet
<1>2. Plain(v) => Plain(Kept(v))
  BY <1>1 DEF Plain, Kept
<1>3. Kept(Kept(v)) = Kept(v)
  BY <1>1 DEF Kept
<1>4. Kept(<<>>) = <<>>
  BY TrimTwice DEF Kept
<1> QED
  BY <1>1, <1>2, <1>3, <1>4 DEF Kept

\* A value in the form that quoteEnvValue gives it stays on one line, and a plain
\* one is read back, but for the white space that is not quoted.
LEMMA Quoted ==
    ASSUME NEW v \in Text
    PROVE  /\ QuoteEnvValue(v) \in Text
           /\ OneLine(v) => OneLine(QuoteEnvValue(v))
           /\ Plain(v) => Unquote(TrimSpace(QuoteEnvValue(v))) = Kept(v)
<1>1. CASE ToSet(v) \cap Special = {}
  <2> DEFINE u == TrimSpace(v)
  <2>1. QuoteEnvValue(v) = v /\ Kept(v) = u
    BY <1>1 DEF QuoteEnvValue, Kept
  <2>2. u \in Text /\ \A i \in DOMAIN u : u[i] \in ToSet(v)
    BY Trimmed DEF ToSet
  <2>3. \A c \in ToSet(v) : c \notin {"\"", "'"}
    BY <1>1, Zenon DEF Special
  <2> HIDE DEF u
  <2>4. Len(u) >= 2 => u[1] \notin {"\"", "'"}
    <3>1. Len(u) >= 2 => 1 \in DOMAIN u
      BY <2>2, LenProperties DEF Text
    <3> QED
      BY <2>2, <2>3, <3>1, Zenon
  <2>5. Unquote(u) = u
    BY <2>4, Zenon DEF Unquote
  <2> QED
    BY <2>1, <2>5 DEF u
<1>2. CASE ToSet(v) \cap Special # {}
  <2> DEFINE w == FlattenSeq([i \in DOMAIN v |-> Escape(v[i])])
             q == Enclose(DQ, w)
  <2>1. w \in Text /\ (OneLine(v) => OneLine(w)) /\ (Plain(v) => w = v)
    BY Escaped
  <2>2. QuoteEnvValue(v) = q
    BY <1>2, Zenon DEF QuoteEnvValue, Enclose, DQ
  <2>3. Kept(v) = v
    BY <1>2 DEF Kept
  <2> HIDE DEF w
  <2>4. DQ \in Char /\ DQ # "\n" /\ Solid(DQ)
    BY DoubleQuote DEF Solid
  <2>5. /\ q \in Text
        /\ Len(w) \in Nat
        /\ Len(q) = Len(w) + 2
        /\ q[1] = DQ /\ q[Len(q)] = DQ
        /\ SubSeq(q, 2, Len(q) - 1) = w
        /\ OneLine(w) => OneLine(q)
    BY <2>1, <2>4, Enclosed, Zenon
  <2> HIDE DEF q
  <2>6. Len(q) >= 2 /\ q # <<>>
    BY <2>5
  <2>7. Unquote(q) = w
    BY <2>5, <2>6, Zenon DEF Unquote, DQ
  <2>8. TrimSpace(q) = q
    BY <2>4, <2>5, <2>6, Trimmed
  <2> QED
    BY <2>1, <2>2, <2>3, <2>5, <2>7, <2>8
<1> QED
  BY <1>1, <1>2

\* The line that gives k what stands in w, and the line that WriteEnvFile writes
\* for k, without its newline.
SettingLine(k, w) == k \o <<"=">> \o w

EnvLine(k, v) == SettingLine(k, QuoteEnvValue(v))

\* Where the parts of such a line are.
LEMMA LineParts ==
    ASSUME NEW k, GoodName(k), NEW w \in Text
    PROVE  /\ SettingLine(k, w) \in Text
           /\ Len(k) \in Nat \ {0} /\ Len(w) \in Nat
           /\ Len(SettingLine(k, w)) = Len(k) + 1 + Len(w)
           /\ \A i \in 1..Len(k) : SettingLine(k, w)[i] = k[i]
           /\ SettingLine(k, w)[Len(k) + 1] = "="
           /\ \A i \in 1..Len(w) : SettingLine(k, w)[Len(k) + 1 + i] = w[i]
           /\ OneLine(w) => OneLine(SettingLine(k, w))
           /\ \E x \in Text : /\ x # <<>> /\ Solid(x[1]) /\ Solid(x[Len(x)])
                              /\ \A z : SettingLine(k, z) = x \o z
<1> DEFINE x == k \o <<"=">>
<1>1. k \in Text /\ k # <<>> /\ OneLine(k) /\ Solid(k[1])
  BY DEF GoodName, OneLine
<1>2. /\ <<"=">> \in Text /\ Len(<<"=">>) = 1 /\ <<"=">>[1] = "="
      /\ OneLine(<<"=">>)
  <2>1. "=" \in Char /\ "=" # "\n"
    BY Symbols
  <2> QED
    BY <2>1, Single
<1>3. Len(k) \in Nat \ {0} /\ Len(w) \in Nat
  BY <1>1, EmptySeq, LenProperties DEF Text
<1>4. /\ x \in Text
      /\ Len(x) = Len(k) + 1
      /\ \A i \in 1..Len(k) : x[i] = k[i]
      /\ x[Len(k) + 1] = "="
      /\ OneLine(x)
  <2>1. /\ x \in Text
        /\ Len(x) = Len(k) + Len(<<"=">>)
        /\ \A i \in 1..Len(k) : x[i] = k[i]
        /\ \A i \in 1..Len(<<"=">>) : x[Len(k) + i] = <<"=">>[i]
        /\ OneLine(x)
    BY <1>1, <1>2, Concat
  <2> HIDE DEF x
  <2> QED
    BY <2>1, <1>2
<1>5. \A z : SettingLine(k, z) = x \o z
  BY DEF SettingLine
<1> HIDE DEF x
<1>6. /\ x \o w \in Text
      /\ Len(x \o w) = Len(x) + Len(w)
      /\ \A i \in 1..Len(x) : (x \o w)[i] = x[i]
      /\ \A i \in 1..Len(w) : (x \o w)[Len(x) + i] = w[i]
      /\ OneLine(w) => OneLine(x \o w)
  BY <1>4, Concat
<1> DEFINE l == x \o w
<1> HIDE DEF l
<1>7. /\ l \in Text
      /\ Len(l) = Len(k) + 1 + Len(w)
      /\ \A i \in 1..Len(k) : l[i] = k[i]
      /\ l[Len(k) + 1] = "="
      /\ \A i \in 1..Len(w) : l[Len(k) + 1 + i] = w[i]
      /\ OneLine(w) => OneLine(l)
  <2>1. /\ l \in Text
        /\ Len(l) = Len(x) + Len(w)
        /\ \A i \in 1..Len(x) : l[i] = x[i]
        /\ \A i \in 1..Len(w) : l[Len(x) + i] = w[i]
        /\ OneLine(w) => OneLine(l)
    BY <1>6 DEF l
  <2> QED
    BY <2>1, <1>3, <1>4
<1>8. SettingLine(k, w) = l
  BY <1>5 DEF l
<1>9. x # <<>> /\ Solid(x[1]) /\ Solid(x[Len(x)])
  <2>1. Solid("=")
    BY DEF Solid, White
  <2>2. Len(x) # 0 /\ x[1] = k[1] /\ x[Len(x)] = "="
    BY <1>3, <1>4
  <2>3. x # <<>>
    BY <1>4, <2>2, EmptySeq DEF Text
  <2> QED
    BY <1>1, <2>1, <2>2, <2>3
<1> QED
  BY <1>3, <1>4, <1>5, <1>7, <1>8, <1>9

\* How a name begins that is not odd.
LEMMA NotOdd ==
    ASSUME NEW k, GoodName(k), ~Odd(k)
    PROVE  k[1] # "#" /\ ~(Len(k) >= 2 /\ k[1] = "export" /\ k[2] = " ")
<1>1. /\ k \in Text /\ k # <<>> /\ Len(k) \in Nat \ {0} /\ TrimSpace(k) = k
  BY Trimmed, EmptySeq DEF GoodName, Text
<1>2. Statement(k) = k
  BY DEF Odd
<1>3. ~IsPrefix(<<"#">>, k)
  BY <1>1, <1>2 DEF Statement
<1>4. ASSUME IsPrefix(<<"export", " ">>, k)
      PROVE  FALSE
  <2> DEFINE e == SubSeq(k, 3, Len(k))
  <2>1. TrimSpace(e) = k
    BY <1>1, <1>2, <1>3, <1>4 DEF Statement
  <2>2. 3 \in Nat \ {0} /\ Len(k) <= Len(k)
    BY <1>1
  <2>3. e \in Text /\ Len(e) = IF 3 <= Len(k) THEN Len(k) - 3 + 1 ELSE 0
    BY <1>1, <2>2, Part
  <2> HIDE DEF e
  <2>4. Len(k) <= Len(e)
    BY <2>1, <2>3, Trimmed
  <2> QED
    BY <1>1, <2>3, <2>4
<1> QED
  BY <1>1, <1>3, <1>4, Beginnings

\* ParseEnvFile takes such a line for what it is, and what follows its '=' too.
LEMMA SettingLineRead ==
    ASSUME NEW k, GoodName(k), NEW w \in Text
    PROVE  /\ IsSetting(SettingLine(k, w))
           /\ NameIn(SettingLine(k, w)) = k
           /\ ValueIn(SettingLine(k, w)) = Unquote(TrimSpace(w))
<1> DEFINE l == SettingLine(k, w)
<1>1. /\ l \in Text
      /\ Len(k) \in Nat \ {0} /\ Len(w) \in Nat
      /\ Len(l) = Len(k) + 1 + Len(w)
      /\ \A i \in 1..Len(k) : l[i] = k[i]
      /\ l[Len(k) + 1] = "="
      /\ \A i \in 1..Len(w) : l[Len(k) + 1 + i] = w[i]
  BY LineParts
<1>2. /\ k \in Text /\ k # <<>> /\ DOMAIN k = 1..Len(k)
      /\ Solid(k[1]) /\ Solid(k[Len(k)])
      /\ \A i \in 1..Len(k) : k[i] # "="
  BY LenProperties DEF GoodName, Text
<1> HIDE DEF l
<1>3. 1 \in 1..Len(k) /\ Len(k) + 1 \in 1..Len(l) /\ l[1] = k[1]
  BY <1>1
<1>4. IsSetting(l)
  <2>1. Contains(l, "=")
    BY <1>1, <1>3 DEF Contains
  <2> QED
    BY <2>1, <1>2, <1>3 DEF IsSetting
<1>5. Equals(l) = Len(k) + 1
  <2>1. /\ Equals(l) \in 1..Len(l)
        /\ l[Equals(l)] = "="
        /\ \A j \in 1..(Equals(l) - 1) : l[j] # "="
    BY <1>1, <1>4, EqualsFirst DEF IsSetting
  <2>2. Equals(l) \notin 1..Len(k)
    BY <2>1, <1>1, <1>2
  <2>3. ~(Len(k) + 1 < Equals(l))
    BY <2>1, <1>1, <1>3
  <2> QED
    BY <2>1, <2>2, <2>3, <1>1
<1>6. SubSeq(l, 1, Equals(l) - 1) = k
  <2>1. Equals(l) - 1 = 1 + Len(k) - 1 /\ 1 + Len(k) - 1 <= Len(l)
    BY <1>1, <1>5
  <2>2. \A n \in 1..Len(k) : l[1 + n - 1] = k[n]
    <3>1. \A n \in 1..Len(k) : 1 + n - 1 = n
      BY <1>1
    <3> QED
      BY <3>1, <1>1
  <2>3. SubSeq(l, 1, 1 + Len(k) - 1) = k
    BY <2>1, <2>2, <1>1, <1>2, PartEqual
  <2> QED
    BY <2>1, <2>3
<1>7. SubSeq(l, Equals(l) + 1, Len(l)) = w
  <2> DEFINE i == Len(k) + 2
  <2>1. /\ i \in Nat \ {0}
        /\ i = Equals(l) + 1
        /\ Len(l) = i + Len(w) - 1 /\ i + Len(w) - 1 <= Len(l)
    BY <1>1, <1>5
  <2>2. \A n \in 1..Len(w) : l[i + n - 1] = w[n]
    <3>1. \A n \in 1..Len(w) : i + n - 1 = Len(k) + 1 + n
      BY <1>1
    <3> QED
      BY <3>1, <1>1
  <2> HIDE DEF i
  <2>3. SubSeq(l, i, i + Len(w) - 1) = w
    BY <2>1, <2>2, <1>1, PartEqual
  <2> QED
    BY <2>1, <2>3
<1>8. NameIn(l) = k
  BY <1>2, <1>6, Trimmed DEF NameIn
<1>9. ValueIn(l) = Unquote(TrimSpace(w))
  BY <1>7 DEF ValueIn
<1> QED
  BY <1>4, <1>8, <1>9 DEF l

\* So does it with a line of WriteEnvFile, unless the name is odd.
LEMMA EnvLineRead ==
    ASSUME NEW k, GoodName(k), ~Odd(k), NEW v \in Text
    PROVE  /\ IsSetting(Statement(EnvLine(k, v)))
           /\ NameIn(Statement(EnvLine(k, v))) = k
           /\ ValueIn(Statement(EnvLine(k, v))) = Unquote(TrimSpace(QuoteEnvValue(v)))
<1> DEFINE q == QuoteEnvValue(v)
<1>1. q \in Text
  BY Quoted
<1> HIDE DEF q
<1>2. PICK x \in Text : /\ x # <<>> /\ Solid(x[1]) /\ Solid(x[Len(x)])
                        /\ \A z : SettingLine(k, z) = x \o z
  BY <1>1, LineParts
<1>3. PICK z \in Text : TrimSpace(x \o q) = x \o z /\ TrimSpace(z) = TrimSpace(q)
  BY <1>1, <1>2, TrimTail
<1> DEFINE l == SettingLine(k, z)
<1>4. TrimSpace(EnvLine(k, v)) = l
  BY <1>2, <1>3 DEF EnvLine, q
<1>5. /\ l \in Text
      /\ Len(k) \in Nat \ {0} /\ Len(z) \in Nat
      /\ Len(l) = Len(k) + 1 + Len(z)
      /\ \A i \in 1..Len(k) : l[i] = k[i]
      /\ l[Len(k) + 1] = "="
  BY LineParts
<1> HIDE DEF l
<1>6. Statement(EnvLine(k, v)) = l
  <2>1. l[1] = k[1]
    BY <1>5
  <2>2. ~IsPrefix(<<"#">>, l)
    BY <1>5, <2>1, NotOdd, Beginnings
  <2>3. ~(Len(l) >= 2 /\ l[1] = "export" /\ l[2] = " ")
    <3>1. CASE Len(k) = 1
      <4>1. Len(k) + 1 = 2
        BY <3>1
      <4>2. l[2] = "="
        BY <1>5, <4>1
      <4> QED
        BY <4>2
    <3>2. CASE Len(k) # 1
      <4>1. Len(k) >= 2 /\ 2 \in 1..Len(k)
        <5>1. \A n \in Nat \ {0} : n # 1 => n >= 2 /\ 2 \in 1..n
          OBVIOUS
        <5> QED
          BY <1>5, <3>2, <5>1, Zenon
      <4>2. l[2] = k[2]
        BY <1>5, <4>1
      <4> QED
        BY <2>1, <4>1, <4>2, NotOdd
    <3> QED
      BY <3>1, <3>2
  <2>4. ~IsPrefix(<<"export", " ">>, l)
    BY <1>5, <2>3, Beginnings
  <2> QED
    BY <1>4, <2>2, <2>4 DEF Statement
<1>7. IsSetting(l) /\ NameIn(l) = k /\ ValueIn(l) = Unquote(TrimSpace(q))
  BY <1>3, SettingLineRead DEF l
<1> QED
  BY <1>6, <1>7 DEF q

-----------------------------------------------------------------------------
(* The order of the names.                                                 *)

Rank(c) == SelectInSeq(Alphabet, LAMBDA x : x = c)

\* Every character has a rank of its own.
LEMMA Ranks ==
    /\ \A c \in Char : Rank(c) \in Nat \ {0}
    /\ \A c, d \in Char : Rank(c) = Rank(d) => c = d
<1>1. Len(Alphabet) = 15 /\ DOMAIN Alphabet = 1..15
  BY DEF Alphabet
<1>2. Char = {Alphabet[i] : i \in 1..Len(Alphabet)}
  BY <1>1 DEF Char, ToSet
<1>3. ASSUME NEW c \in Char
      PROVE  Rank(c) \in 1..Len(Alphabet) /\ Alphabet[Rank(c)] = c
  <2> DEFINE I == {i \in 1..Len(Alphabet) : Alphabet[i] = c}
  <2>1. I # {}
    BY <1>2
  <2>2. Rank(c) = Min(I)
    BY <2>1 DEF Rank, SelectInSeq
  <2>3. I \subseteq Nat
    BY <1>1
  <2>4. Min(I) \in I
    <3> HIDE DEF I
    <3> QED
      BY <2>1, <2>3, MinLeast
  <2> QED
    BY <2>2, <2>4
<1> QED
  BY <1>1, <1>3

\* The rank at a place of s; 0 behind its end.
Key(s, p) == IF p <= Len(s) THEN Rank(s[p]) ELSE 0

\* Before is the lexicographic order of the keys.
LexBefore(s, t, p) ==
    /\ \A i \in 1..(p - 1) : Key(s, i) = Key(t, i)
    /\ Key(s, p) < Key(t, p)

\* Keys are numbers, and 0 only behind the end.
LEMMA Keys ==
    ASSUME NEW s \in Text
    PROVE  /\ Len(s) \in Nat
           /\ \A p \in Nat \ {0} : /\ Key(s, p) \in Nat
                                   /\ Key(s, p) = 0 <=> p > Len(s)
                                   /\ p <= Len(s) => Key(s, p) = Rank(s[p])
<1>1. Len(s) \in Nat /\ \A p \in 1..Len(s) : s[p] \in Char
  BY LenProperties, ElementOfSeq DEF Text
<1>2. ASSUME NEW p \in Nat \ {0}
      PROVE  /\ Key(s, p) \in Nat
             /\ Key(s, p) = 0 <=> p > Len(s)
             /\ p <= Len(s) => Key(s, p) = Rank(s[p])
  <2>1. CASE p <= Len(s)
    <3>1. s[p] \in Char
      BY <1>1, <2>1
    <3> QED
      BY <1>1, <2>1, <3>1, Ranks DEF Key
  <2>2. CASE ~(p <= Len(s))
    BY <1>1, <2>2 DEF Key
  <2> QED
    BY <2>1, <2>2
<1> QED
  BY <1>1, <1>2

\* The two definitions of the order agree.
LEMMA BeforeIsLex ==
    ASSUME NEW s \in Text, NEW t \in Text
    PROVE  Before(s, t) <=> \E p \in Nat \ {0} : LexBefore(s, t, p)
<1> DEFINE apart == {i \in DOMAIN s \cap DOMAIN t : s[i] # t[i]}
<1>1. /\ Len(s) \in Nat /\ DOMAIN s = 1..Len(s)
      /\ Len(t) \in Nat /\ DOMAIN t = 1..Len(t)
      /\ \A i \in 1..Len(s) : s[i] \in Char
      /\ \A i \in 1..Len(t) : t[i] \in Char
  BY LenProperties, ElementOfSeq DEF Text
<1>2. Before(s, t) <=> IF apart = {} THEN Len(s) < Len(t)
                       ELSE Rank(s[Min(apart)]) < Rank(t[Min(apart)])
  BY DEF Before, Rank
<1>3. apart # {} => /\ Min(apart) \in 1..Len(s) /\ Min(apart) \in 1..Len(t)
                    /\ s[Min(apart)] # t[Min(apart)]
                    /\ \A i \in 1..(Min(apart) - 1) : s[i] = t[i]
  <2> SUFFICES ASSUME apart # {}
               PROVE  /\ Min(apart) \in 1..Len(s) /\ Min(apart) \in 1..Len(t)
                      /\ s[Min(apart)] # t[Min(apart)]
                      /\ \A i \in 1..(Min(apart) - 1) : s[i] = t[i]
    OBVIOUS
  <2>1. apart \subseteq Nat
    BY <1>1
  <2>2. PICK e \in apart : e = Min(apart) /\ \A i \in apart : e <= i
    <3> HIDE DEF apart
    <3> QED
      BY <2>1, MinLeast
  <2>3. e \in 1..Len(s) /\ e \in 1..Len(t) /\ s[e] # t[e]
    BY <1>1
  <2>4. ASSUME NEW i \in 1..(e - 1)
        PROVE  s[i] = t[i]
    <3>1. i \in DOMAIN s \cap DOMAIN t /\ i < e
      BY <1>1, <2>3
    <3>2. i \notin apart
      <4> HIDE DEF apart
      <4> QED
        BY <2>1, <2>2, <3>1, <1>1
    <3> QED
      BY <3>1, <3>2
  <2> HIDE DEF apart
  <2> QED
    BY <2>2, <2>3, <2>4
<1>4. ASSUME Before(s, t)
      PROVE  \E p \in Nat \ {0} : LexBefore(s, t, p)
  <2>1. CASE apart = {}
    <3>1. Len(s) < Len(t)
      BY <1>2, <1>4, <2>1
    <3>2. \A i \in 1..Len(s) : s[i] = t[i]
      BY <1>1, <2>1, <3>1
    <3>3. \A i \in 1..((Len(s) + 1) - 1) : Key(s, i) = Key(t, i)
      BY <1>1, <3>1, <3>2 DEF Key
    <3>4. Key(s, Len(s) + 1) < Key(t, Len(s) + 1)
      <4>1. Len(s) + 1 \in Nat \ {0} /\ Len(s) + 1 <= Len(t) /\ ~(Len(s) + 1 <= Len(s))
        BY <1>1, <3>1
      <4>2. Key(s, Len(s) + 1) = 0
        BY <4>1 DEF Key
      <4>3. Key(t, Len(s) + 1) \in Nat /\ Key(t, Len(s) + 1) # 0
        BY <1>1, <4>1, Keys
      <4> QED
        BY <4>2, <4>3
    <3> QED
      BY <1>1, <3>3, <3>4 DEF LexBefore
  <2>2. CASE apart # {}
    <3> DEFINE e == Min(apart)
    <3>1. /\ e \in 1..Len(s) /\ e \in 1..Len(t)
          /\ \A i \in 1..(e - 1) : s[i] = t[i]
          /\ Rank(s[e]) < Rank(t[e])
      BY <1>2, <1>3, <1>4, <2>2
    <3> HIDE DEF e, apart
    <3>2. \A i \in 1..(e - 1) : Key(s, i) = Key(t, i)
      BY <1>1, <3>1 DEF Key
    <3>3. Key(s, e) < Key(t, e)
      BY <1>1, <3>1 DEF Key
    <3>4. e \in Nat \ {0}
      BY <1>1, <3>1
    <3> QED
      BY <3>2, <3>3, <3>4 DEF LexBefore
  <2> QED
    BY <2>1, <2>2
<1>5. ASSUME NEW p \in Nat \ {0}, LexBefore(s, t, p)
      PROVE  Before(s, t)
  <2>1. /\ \A i \in 1..(p - 1) : Key(s, i) = Key(t, i)
        /\ Key(s, p) < Key(t, p)
        /\ Key(s, p) \in Nat /\ Key(t, p) \in Nat
    BY <1>5, Keys DEF LexBefore
  <2>2. p <= Len(t)
    BY <1>1, <2>1, Keys
  <2>3. ASSUME NEW i \in 1..(p - 1)
        PROVE  i \in 1..Len(s) /\ s[i] = t[i]
    <3>1. i \in Nat \ {0} /\ i \in 1..Len(t)
      BY <1>1, <2>2
    <3>2. Key(t, i) # 0 /\ Key(s, i) # 0
      BY <1>1, <2>1, <3>1, Keys
    <3>3. i \in 1..Len(s)
      BY <1>1, <3>1, <3>2, Keys
    <3>4. Rank(s[i]) = Rank(t[i])
      BY <1>1, <2>1, <3>1, <3>3 DEF Key
    <3> QED
      BY <1>1, <3>1, <3>3, <3>4, Ranks
  <2>4. CASE p <= Len(s)
    <3>1. Rank(s[p]) < Rank(t[p])
      BY <2>1, <2>2, <2>4 DEF Key
    <3>2. p \in apart
      <4>1. p \in DOMAIN s \cap DOMAIN t
        BY <1>1, <2>2, <2>4
      <4>2. Rank(s[p]) \in Nat
        BY <1>1, <2>4, Ranks
      <4>3. s[p] # t[p]
        BY <3>1, <4>2
      <4> QED
        BY <4>1, <4>3
    <3>3. Min(apart) = p
      <4>1. apart \subseteq Nat
        BY <1>1
      <4>2. PICK e \in apart : e = Min(apart) /\ \A i \in apart : e <= i
        <5> HIDE DEF apart
        <5> QED
          BY <3>2, <4>1, MinLeast
      <4>3. e \in Nat \ {0} /\ e <= p
        <5>1. e \in Nat \ {0}
          BY <1>1
        <5> HIDE DEF apart
        <5> QED
          BY <3>2, <4>2, <5>1
      <4>4. e \notin 1..(p - 1)
        BY <2>3
      <4> HIDE DEF apart
      <4> QED
        BY <4>2, <4>3, <4>4
    <3> HIDE DEF apart
    <3> QED
      BY <1>2, <3>1, <3>2, <3>3
  <2>5. CASE ~(p <= Len(s))
    <3>1. p = Len(s) + 1
      <4>1. ~(Len(s) + 1 < p)
        <5>1. Len(s) + 1 \in 1..(p - 1) => Len(s) + 1 \in 1..Len(s)
          BY <2>3
        <5> QED
          BY <1>1, <5>1
      <4> QED
        BY <1>1, <2>5, <4>1
    <3>2. apart = {}
      <4>1. \A i \in 1..Len(s) : s[i] = t[i]
        BY <1>1, <2>3, <3>1
      <4> QED
        BY <1>1, <4>1
    <3>3. Len(s) < Len(t)
      BY <1>1, <2>2, <3>1
    <3> HIDE DEF apart
    <3> QED
      BY <1>2, <3>2, <3>3
  <2> QED
    BY <2>4, <2>5
<1> QED
  BY <1>4, <1>5

\* Before is a strict total order of the texts.
LEMMA BeforeOrders ==
    /\ \A s \in Text : ~Before(s, s)
    /\ \A s, t, u \in Text : Before(s, t) /\ Before(t, u) => Before(s, u)
    /\ \A s, t \in Text : s # t => Before(s, t) \/ Before(t, s)
<1>1. ASSUME NEW s \in Text
      PROVE  ~Before(s, s)
  <2>1. \A p \in Nat \ {0} : ~LexBefore(s, s, p)
    BY Keys DEF LexBefore
  <2> QED
    BY <2>1, BeforeIsLex
<1>2. ASSUME NEW s \in Text, NEW t \in Text, NEW u \in Text,
             Before(s, t), Before(t, u)
      PROVE  Before(s, u)
  <2>1. PICK p \in Nat \ {0} : LexBefore(s, t, p)
    BY <1>2, BeforeIsLex
  <2>2. PICK q \in Nat \ {0} : LexBefore(t, u, q)
    BY <1>2, BeforeIsLex
  <2>3. \A i \in Nat \ {0} : Key(s, i) \in Nat /\ Key(t, i) \in Nat /\ Key(u, i) \in Nat
    BY Keys
  <2>4. CASE p <= q
    <3>1. \A i \in 1..(p - 1) : Key(s, i) = Key(u, i)
      <4>1. \A i \in 1..(p - 1) : i \in 1..(q - 1)
        BY <2>4
      <4> QED
        BY <2>1, <2>2, <4>1 DEF LexBefore
    <3>2. Key(t, p) <= Key(u, p)
      <4>1. CASE p = q
        BY <2>2, <2>3, <4>1 DEF LexBefore
      <4>2. CASE p # q
        <5>1. p \in 1..(q - 1)
          BY <2>4, <4>2
        <5> QED
          BY <2>2, <2>3, <5>1 DEF LexBefore
      <4> QED
        BY <4>1, <4>2
    <3>3. Key(s, p) < Key(u, p)
      BY <2>1, <2>3, <3>2 DEF LexBefore
    <3> QED
      BY <3>1, <3>3, BeforeIsLex DEF LexBefore
  <2>5. CASE ~(p <= q)
    <3>1. \A i \in 1..(q - 1) : i \in 1..(p - 1)
      BY <2>5
    <3>2. \A i \in 1..(q - 1) : Key(s, i) = Key(u, i)
      BY <2>1, <2>2, <3>1 DEF LexBefore
    <3>3. q \in 1..(p - 1)
      BY <2>5
    <3>4. Key(s, q) < Key(u, q)
      BY <2>1, <2>2, <3>3 DEF LexBefore
    <3> QED
      BY <3>2, <3>4, BeforeIsLex DEF LexBefore
  <2> QED
    BY <2>4, <2>5
<1>3. ASSUME NEW s \in Text, NEW t \in Text, s # t
      PROVE  Before(s, t) \/ Before(t, s)
  <2> DEFINE D == {p \in Nat \ {0} : Key(s, p) # Key(t, p)}
  <2>1. D # {}
    <3> SUFFICES ASSUME \A p \in Nat \ {0} : Key(s, p) = Key(t, p)
                 PROVE  FALSE
      OBVIOUS
    <3>1. Len(s) \in Nat /\ Len(t) \in Nat
      BY Keys
    <3>2. \A p \in Nat \ {0} : p > Len(s) <=> p > Len(t)
      BY Keys
    <3>3. Len(s) = Len(t)
      <4>1. Len(s) + 1 > Len(t) /\ Len(t) + 1 > Len(s)
        BY <3>1, <3>2
      <4> QED
        BY <3>1, <4>1
    <3>4. ASSUME NEW i \in 1..Len(s)
          PROVE  s[i] = t[i]
      <4>1. Rank(s[i]) = Rank(t[i])
        BY <3>1, <3>3 DEF Key
      <4>2. s[i] \in Char /\ t[i] \in Char
        BY <3>3, ElementOfSeq DEF Text
      <4> QED
        BY <4>1, <4>2, Ranks
    <3>5. s = t
      BY <3>3, <3>4, SeqEqual DEF Text
    <3> QED
      BY <1>3, <3>5
  <2>2. PICK p \in D : \A q \in D : p <= q
    <3>1. D \subseteq Nat
      OBVIOUS
    <3> HIDE DEF D
    <3> QED
      BY <2>1, <3>1, Least
  <2>3. p \in Nat \ {0} /\ Key(s, p) # Key(t, p)
    OBVIOUS
  <2>4. ASSUME NEW i \in 1..(p - 1)
        PROVE  Key(s, i) = Key(t, i)
    <3>1. i \in Nat \ {0} /\ ~(p <= i)
      BY <2>3
    <3>2. i \notin D
      <4> HIDE DEF D
      <4> QED
        BY <2>2, <3>1
    <3> QED
      BY <3>1, <3>2
  <2> HIDE DEF D
  <2>5. Key(s, p) < Key(t, p) \/ Key(t, p) < Key(s, p)
    BY <2>3, Keys
  <2>6. LexBefore(s, t, p) \/ LexBefore(t, s, p)
    BY <2>4, <2>5 DEF LexBefore
  <2> QED
    BY <2>3, <2>6, BeforeIsLex
<1> QED
  BY <1>1, <1>2, <1>3

\* How many names of K come before k.
Place(K, k) == Cardinality({n \in K : Before(n, k)})

\* Names have different places, in their order, and the places leave no gap.
LEMMA Places ==
    ASSUME NEW K, IsFiniteSet(K), K \subseteq Text
    PROVE  /\ Cardinality(K) \in Nat
           /\ \A k \in K : Place(K, k) \in 0..(Cardinality(K) - 1)
           /\ \A j, k \in K : Before(j, k) <=> Place(K, j) < Place(K, k)
           /\ \A j, k \in K : Place(K, j) = Place(K, k) => j = k
           /\ \A i \in 0..(Cardinality(K) - 1) : \E k \in K : Place(K, k) = i
<1> DEFINE P(k) == {n \in K : Before(n, k)}
           c == Cardinality(K)
<1>1. c \in Nat
  BY FS_CardinalityType
<1>2. ASSUME NEW k \in K
      PROVE  Place(K, k) \in 0..(c - 1)
  <2>1. k \notin P(k) /\ P(k) \in SUBSET K
    BY BeforeOrders
  <2>2. /\ IsFiniteSet(P(k))
        /\ Cardinality(P(k)) <= c
        /\ c = Cardinality(P(k)) => K = P(k)
    BY <2>1, FS_Subset
  <2>3. Cardinality(P(k)) \in Nat
    BY <2>2, FS_CardinalityType
  <2>4. Place(K, k) = Cardinality(P(k))
    BY DEF Place
  <2> HIDE DEF P, c
  <2> QED
    BY <1>1, <2>1, <2>2, <2>3, <2>4
<1>3. ASSUME NEW j \in K, NEW k \in K, Before(j, k)
      PROVE  Place(K, j) < Place(K, k)
  <2>1. P(j) \in SUBSET P(k)
    BY <1>3, BeforeOrders
  <2>2. j \in P(k) /\ j \notin P(j)
    BY <1>3, BeforeOrders
  <2>3. IsFiniteSet(P(k))
    <3>1. P(k) \in SUBSET K
      OBVIOUS
    <3> QED
      BY <3>1, FS_Subset
  <2>4. /\ Cardinality(P(j)) <= Cardinality(P(k))
        /\ Cardinality(P(k)) = Cardinality(P(j)) => P(k) = P(j)
    BY <2>1, <2>3, FS_Subset
  <2>5. Place(K, j) = Cardinality(P(j)) /\ Place(K, k) = Cardinality(P(k))
    BY DEF Place
  <2> HIDE DEF P, c
  <2>6. Place(K, j) \in Nat /\ Place(K, k) \in Nat
    BY <1>1, <1>2
  <2> QED
    BY <2>2, <2>4, <2>5, <2>6
<1>4. \A j, k \in K : Before(j, k) <=> Place(K, j) < Place(K, k)
  <2> SUFFICES ASSUME NEW j \in K, NEW k \in K, Place(K, j) < Place(K, k)
               PROVE  Before(j, k)
    BY <1>3
  <2>1. j # k /\ ~Before(k, j)
    <3> HIDE DEF c
    <3> QED
      BY <1>1, <1>2, <1>3
  <2> QED
    BY <2>1, BeforeOrders
<1>5. \A j, k \in K : Place(K, j) = Place(K, k) => j = k
  <2> SUFFICES ASSUME NEW j \in K, NEW k \in K, Place(K, j) = Place(K, k), j # k
               PROVE  FALSE
    OBVIOUS
  <2>1. Before(j, k) \/ Before(k, j)
    BY BeforeOrders
  <2>2. Place(K, j) \in Nat /\ Place(K, k) \in Nat
    <3> HIDE DEF c
    <3> QED
      BY <1>1, <1>2
  <2> QED
    BY <2>1, <2>2, <1>3
<1>6. \A i \in 0..(c - 1) : \E k \in K : Place(K, k) = i
  <2> DEFINE R == 0..(c - 1)
             f == [k \in K |-> Place(K, k)]
  <2>1. f \in Injection(K, R)
    <3>1. f \in [K -> R]
      BY <1>2
    <3>2. \A j, k \in K : f[j] = f[k] => j = k
      BY <1>5
    <3> QED
      BY <3>1, <3>2 DEF Injection, IsInjective
  <2>2. IsFiniteSet(R) /\ Cardinality(R) = c
    <3> HIDE DEF c
    <3>1. c - 1 \in Int /\ (IF 0 > c - 1 THEN 0 ELSE c - 1 - 0 + 1) = c
      BY <1>1
    <3> QED
      BY <3>1, FS_Interval
  <2>3. f \in Surjection(K, R)
    <3> HIDE DEF f, R
    <3> QED
      BY <2>1, <2>2, FS_Injection
  <2>4. \A i \in R : \E k \in K : f[k] = i
    BY <2>3 DEF Surjection
  <2> QED
    BY <2>4
<1> QED
  BY <1>1, <1>2, <1>4, <1>5, <1>6

\* Sorted lists all names, each once and in their order.
LEMMA SortedNames ==
    ASSUME NEW K, IsFiniteSet(K), K \subseteq Text
    PROVE  /\ Cardinality(K) \in Nat
           /\ Sorted(K) \in Seq(K)
           /\ Len(Sorted(K)) = Cardinality(K)
           /\ DOMAIN Sorted(K) = 1..Cardinality(K)
           /\ \A k \in K : \E i \in 1..Cardinality(K) : Sorted(K)[i] = k
           /\ \A i, j \in 1..Cardinality(K) :
                 i < j <=> Before(Sorted(K)[i], Sorted(K)[j])
<1> DEFINE c == Cardinality(K)
           s == Sorted(K)
<1>1. c \in Nat
  BY Places
<1>2. s = [i \in 1..c |-> CHOOSE k \in K : Place(K, k) = i - 1]
  BY DEF Sorted, Place
<1> HIDE DEF s
<1>3. ASSUME NEW i \in 1..c
      PROVE  s[i] \in K /\ Place(K, s[i]) = i - 1
  <2>1. i - 1 \in 0..(c - 1)
    BY <1>1
  <2>2. \E k \in K : Place(K, k) = i - 1
    BY <2>1, Places
  <2>3. s[i] = CHOOSE k \in K : Place(K, k) = i - 1
    BY <1>2
  <2> QED
    BY <2>2, <2>3
<1>4. s \in [1..c -> K] /\ DOMAIN s = 1..c
  BY <1>2, <1>3
<1>5. s \in Seq(K) /\ Len(s) = c
  <2> HIDE DEF c
  <2> QED
    BY <1>1, <1>4
<1>6. ASSUME NEW k \in K
      PROVE  \E i \in 1..c : s[i] = k
  <2>1. Place(K, k) \in 0..(c - 1)
    BY Places
  <2>2. Place(K, k) + 1 \in 1..c /\ Place(K, k) + 1 - 1 = Place(K, k)
    BY <1>1, <2>1
  <2>3. s[Place(K, k) + 1] = k
    BY <1>3, <2>2, Places
  <2> QED
    BY <2>2, <2>3
<1>7. \A i, j \in 1..c : i < j <=> Before(s[i], s[j])
  <2> TAKE i, j \in 1..c
  <2>1. Before(s[i], s[j]) <=> i - 1 < j - 1
    BY <1>3, Places
  <2> QED
    BY <1>1, <2>1
<1> QED
  BY <1>1, <1>4, <1>5, <1>6, <1>7 DEF s

-----------------------------------------------------------------------------
(* The file.                                                               *)

\* The map of a request, before it is written.
Writable(m) ==
    /\ IsFiniteSet(DOMAIN m)
    /\ \A k \in DOMAIN m : GoodName(k) /\ m[k] \in Text

\* The names that get a line.
Written(m) == {k \in DOMAIN m : m[k] # <<>>}

Header == <<"#", "\n">>

\* WriteEnvFile appends the lines to the header, name by name: f[i] is what it
\* has after i of them.
LEMMA EnvTextLoop ==
    ASSUME NEW m, Writable(m)
    PROVE  \E names \in Seq(Written(m)) : \E f \in [0..Len(names) -> Text] :
              /\ \A k \in Written(m) : \E i \in 1..Len(names) : names[i] = k
              /\ f[0] = Header
              /\ \A i \in 1..Len(names) :
                    f[i] = AppendLine(f[i - 1], EnvLine(names[i], m[names[i]]))
              /\ EnvText(m) = f[Len(names)]
<1> DEFINE K == Written(m)
           names == Sorted(K)
           s == [i \in DOMAIN names |->
                    names[i] \o <<"=">> \o QuoteEnvValue(m[names[i]]) \o <<"\n">>]
           n == Len(names)
<1>1. IsFiniteSet(K) /\ K \subseteq Text
  <2>1. K \in SUBSET DOMAIN m
    BY DEF Written
  <2>2. IsFiniteSet(DOMAIN m)
    BY DEF Writable
  <2> QED
    BY <2>1, <2>2, FS_Subset DEF Writable, GoodName
<1>2. /\ names \in Seq(K) /\ n \in Nat /\ DOMAIN names = 1..n
      /\ \A k \in K : \E i \in 1..n : names[i] = k
  BY <1>1, SortedNames
<1>3. EnvText(m) = Header \o FlattenSeq(s)
  BY DEF EnvText, Header, Written
<1> HIDE DEF K, names
<1>4. \A i \in 1..n : s[i] = EnvLine(names[i], m[names[i]]) \o <<"\n">>
  BY <1>2 DEF EnvLine, SettingLine
<1>5. "\n" \in Char /\ <<"\n">> \in Text /\ Header \in Text
  <2>1. "\n" \in Char /\ "#" \in Char
    BY Symbols
  <2> QED
    BY <2>1 DEF Header, Text
<1>6. \A i \in 1..n : EnvLine(names[i], m[names[i]]) \in Text
  <2> TAKE i \in 1..n
  <2>1. names[i] \in K
    BY <1>2, ElementOfSeq
  <2>2. GoodName(names[i]) /\ m[names[i]] \in Text /\ m[names[i]] # <<>>
    BY <2>1 DEF K, Written, Writable
  <2> QED
    BY <2>2, Quoted, LineParts DEF EnvLine
<1>7. \A i \in 1..n : s[i] \in Text
  <2>1. \A x \in Text : x \o <<"\n">> \in Text
    BY <1>5, Concat
  <2> HIDE DEF s
  <2> QED
    BY <1>4, <1>6, <2>1
<1>8. s \in Seq(Seq(Char)) /\ Len(s) = n
  <2>1. s \in [1..n -> Seq(Char)]
    BY <1>2, <1>7 DEF Text
  <2> HIDE DEF s, n
  <2> QED
    BY <1>2, <2>1
<1> HIDE DEF s
<1>9. PICK g \in [0..n -> Text] : Appends(s, g, n) /\ FlattenSeq(s) = g[n]
  BY <1>8, FlattenLoop DEF Text
<1>10. g[0] = <<>> /\ \A i \in 1..n : g[i] = g[i - 1] \o s[i]
  BY <1>9 DEF Appends
<1> DEFINE f == [i \in 0..n |-> Header \o g[i]]
<1>11. f \in [0..n -> Text]
  BY <1>5, <1>9, Concat
<1>12. f[0] = Header
  <2>1. 0 \in 0..n
    BY <1>2
  <2>2. f[0] = Header \o g[0]
    BY <2>1
  <2> QED
    BY <2>2, <1>5, <1>10, ConcatEmptySeq DEF Text
<1>13. ASSUME NEW i \in 1..n
       PROVE  f[i] = AppendLine(f[i - 1], EnvLine(names[i], m[names[i]]))
  <2>1. i \in 0..n /\ i - 1 \in 0..n
    BY <1>2
  <2>2. g[i] = g[i - 1] \o s[i] /\ g[i - 1] \in Text /\ s[i] \in Text
    BY <1>7, <1>9, <1>10, <2>1
  <2>3. f[i] = Header \o g[i] /\ f[i - 1] = Header \o g[i - 1]
    BY <2>1
  <2> HIDE DEF f
  <2>4. Header \o (g[i - 1] \o s[i]) = (Header \o g[i - 1]) \o s[i]
    <3>1. \A y, z \in Text : Header \o (y \o z) = (Header \o y) \o z
      BY <1>5, Associative
    <3> QED
      BY <2>2, <3>1, Zenon
  <2>5. f[i] = f[i - 1] \o s[i]
    BY <2>2, <2>3, <2>4
  <2> QED
    BY <2>5, <1>4 DEF AppendLine
<1>14. EnvText(m) = f[n]
  <2>1. n \in 0..n
    BY <1>2
  <2> QED
    BY <1>3, <1>9, <2>1
<1> HIDE DEF f
<1> QED
  BY <1>2, <1>11, <1>12, <1>13, <1>14 DEF K

\* What WriteEnvFile writes is a text, whatever the values are.
LEMMA EnvTextType ==
    ASSUME NEW m, Writable(m)
    PROVE  EnvText(m) \in Text
<1>1. PICK names \in Seq(Written(m)) :
         \E f \in [0..Len(names) -> Text] : EnvText(m) = f[Len(names)]
  BY EnvTextLoop
<1>2. Len(names) \in 0..Len(names)
  BY LenProperties
<1> QED
  BY <1>1, <1>2

\* The header sets nothing.
LEMMA ParseHeader ==
    /\ DOMAIN ParseEnvFile(<<>>) = {}
    /\ Header \in Text /\ Closed(Header) /\ DOMAIN ParseEnvFile(Header) = {}
<1>1. <<>> \in Text /\ Len(<<>>) = 0 /\ Closed(<<>>)
  BY DEF Text, Closed
<1>2. DOMAIN ParseEnvFile(<<>>) = {}
  <2>1. LineStarts(<<>>) = {1}
    BY DEF LineStarts
  <2>2. LineAt(<<>>, 1) = <<>>
    <3>1. 1 \in 1..(Len(<<>>) + 1) /\ \A j \in 1..(1 - 1) : <<>>[j] # "\n"
      BY <1>1
    <3>2. LineAt(<<>>, 1) = SubSeq(<<>>, 1, 1 - 1)
      BY <1>1, <3>1, LineTo
    <3> QED
      BY <3>2, SubSeqEmpty
  <2>3. Settings(<<>>) = {}
    BY <2>1, <2>2, EmptyLine DEF Settings, ParsedLine
  <2> QED
    BY <2>3, ParseIs
<1>3. /\ <<"#">> \in Text /\ Len(<<"#">>) = 1 /\ <<"#">>[1] = "#"
      /\ OneLine(<<"#">>)
  <2>1. "#" \in Char /\ "#" # "\n"
    BY Symbols
  <2> QED
    BY <2>1, Single
<1>4. Statement(<<"#">>) = <<>>
  <2>1. Solid("#") /\ <<"#">> # <<>>
    BY <1>1, <1>3 DEF Solid, White
  <2>2. TrimSpace(<<"#">>) = <<"#">>
    BY <1>3, <2>1, Trimmed
  <2>3. IsPrefix(<<"#">>, <<"#">>)
    BY <1>3, <2>1, Beginnings
  <2> QED
    BY <2>2, <2>3 DEF Statement
<1>5. ~IsSetting(<<>>)
  BY EmptyLine
<1>6. Header = AppendLine(<<>>, <<"#">>)
  BY DEF Header, AppendLine
<1>7. Header \in Text /\ Closed(Header)
  BY <1>1, <1>3, <1>6, LinesOfAppend
<1>8. ParseEnvFile(Header) = ParseEnvFile(<<>>)
  BY <1>1, <1>3, <1>4, <1>5, <1>6, ParseAppend
<1> QED
  BY <1>2, <1>7, <1>8

\* Reading what was written (managedenv.go:34-109): if no value has a newline and
\* no name is odd, the file has the names that were written, no other, and a value
\* without backslash and double quote comes back as it was if it has something to
\* quote, and trimmed if not.
THEOREM RoundTrip ==
    ASSUME NEW m, Writable(m), \A k \in DOMAIN m : OneLine(m[k]) /\ ~Odd(k)
    PROVE  /\ DOMAIN ParseEnvFile(EnvText(m)) = Written(m)
           /\ \A k \in Written(m) :
                 Plain(m[k]) => ParseEnvFile(EnvText(m))[k] = Kept(m[k])
<1> DEFINE Value(k) == Unquote(TrimSpace(QuoteEnvValue(m[k])))
<1>0. PICK names \in Seq(Written(m)) : \E f \in [0..Len(names) -> Text] :
         /\ \A k \in Written(m) : \E i \in 1..Len(names) : names[i] = k
         /\ f[0] = Header
         /\ \A i \in 1..Len(names) :
               f[i] = AppendLine(f[i - 1], EnvLine(names[i], m[names[i]]))
         /\ EnvText(m) = f[Len(names)]
  BY EnvTextLoop
<1>1. PICK f \in [0..Len(names) -> Text] :
         /\ \A k \in Written(m) : \E i \in 1..Len(names) : names[i] = k
         /\ f[0] = Header
         /\ \A i \in 1..Len(names) :
               f[i] = AppendLine(f[i - 1], EnvLine(names[i], m[names[i]]))
         /\ EnvText(m) = f[Len(names)]
  BY <1>0
<1>2. Len(names) \in Nat /\ \A i \in 1..Len(names) : names[i] \in Written(m)
  BY LenProperties, ElementOfSeq
<1>3. \A k \in Written(m) : /\ GoodName(k) /\ m[k] \in Text
                            /\ ~Odd(k) /\ OneLine(m[k])
  BY DEF Written, Writable
<1> DEFINE Read(i) == ParseEnvFile(f[i])
           T == {i \in Nat : i <= Len(names) =>
                    /\ Closed(f[i])
                    /\ DOMAIN Read(i) = {names[j] : j \in 1..i}
                    /\ \A j \in 1..i : Read(i)[names[j]] = Value(names[j])}
<1>4. 0 \in T
  <2>1. Closed(f[0]) /\ DOMAIN Read(0) = {}
    BY <1>1, ParseHeader
  <2> HIDE DEF Value, Read
  <2> QED
    BY <2>1
<1>5. ASSUME NEW i \in T
      PROVE  i + 1 \in T
  <2> SUFFICES ASSUME i + 1 <= Len(names)
               PROVE  /\ Closed(f[i + 1])
                      /\ DOMAIN Read(i + 1) = {names[j] : j \in 1..(i + 1)}
                      /\ \A j \in 1..(i + 1) : Read(i + 1)[names[j]] = Value(names[j])
    OBVIOUS
  <2>1. /\ i \in Nat
        /\ Closed(f[i])
        /\ DOMAIN Read(i) = {names[j] : j \in 1..i}
        /\ \A j \in 1..i : Read(i)[names[j]] = Value(names[j])
    BY <1>2
  <2> HIDE DEF T
  <2> DEFINE k == names[i + 1]
             l == EnvLine(k, m[k])
  <2>2. i + 1 \in 1..Len(names) /\ (i + 1) - 1 = i /\ i \in 0..Len(names)
    BY <1>2, <2>1
  <2>3. k \in Written(m) /\ f[i] \in Text
    BY <1>2, <2>2
  <2>4. l \in Text /\ OneLine(l)
    BY <1>3, <2>3, Quoted, LineParts DEF EnvLine
  <2>5. /\ IsSetting(Statement(l))
        /\ NameIn(Statement(l)) = k /\ ValueIn(Statement(l)) = Value(k)
    BY <1>3, <2>3, EnvLineRead
  <2>6. f[i + 1] = AppendLine(f[i], l)
    BY <1>1, <2>2
  <2> HIDE DEF k, l, Value
  <2>7. Closed(f[i + 1])
    BY <2>1, <2>3, <2>4, <2>6, LinesOfAppend
  <2>8. Read(i + 1) = With(Read(i), k, Value(k))
    BY <2>1, <2>3, <2>4, <2>5, <2>6, ParseAppend
  <2> HIDE DEF Read
  <2>9. DOMAIN Read(i + 1) = DOMAIN Read(i) \cup {k}
    BY <2>8 DEF With
  <2>10. 1..(i + 1) = (1..i) \cup {i + 1}
    BY <2>1
  <2>11. DOMAIN Read(i + 1) = {names[j] : j \in 1..(i + 1)}
    <3>1. {names[j] : j \in (1..i) \cup {i + 1}} = {names[j] : j \in 1..i} \cup {names[i + 1]}
      BY Zenon
    <3> QED
      BY <2>1, <2>9, <2>10, <3>1, Zenon DEF k
  <2>12. ASSUME NEW j \in 1..(i + 1)
         PROVE  Read(i + 1)[names[j]] = Value(names[j])
    <3>1. names[j] \in DOMAIN Read(i) \cup {k}
      BY <2>9, <2>11
    <3>2. CASE names[j] = k
      BY <2>8, <3>1, <3>2 DEF With
    <3>3. CASE names[j] # k
      <4>1. j \in 1..i
        BY <2>10, <3>3 DEF k
      <4> QED
        BY <2>1, <2>8, <3>1, <3>3, <4>1 DEF With
    <3> QED
      BY <3>2, <3>3
  <2> QED
    BY <2>7, <2>11, <2>12
<1>6. Len(names) \in T
  <2> HIDE DEF T
  <2> QED
    BY <1>2, <1>4, <1>5, NatInduct
<1>7. /\ DOMAIN Read(Len(names)) = {names[j] : j \in 1..Len(names)}
      /\ \A j \in 1..Len(names) : Read(Len(names))[names[j]] = Value(names[j])
  BY <1>2, <1>6
<1> HIDE DEF Read, Value
<1>8. DOMAIN Read(Len(names)) = Written(m)
  BY <1>1, <1>2, <1>7
<1>9. \A k \in Written(m) : Read(Len(names))[k] = Value(k)
  BY <1>1, <1>7
<1>10. \A k \in Written(m) : Plain(m[k]) => Value(k) = Kept(m[k])
  BY <1>3, Quoted DEF Value
<1> QED
  BY <1>1, <1>8, <1>9, <1>10 DEF Read

-----------------------------------------------------------------------------
(* The requests.                                                           *)

\* What a request holds between its read and its write: the merge of its body
\* into the map that it read, ready to be written.
HeldIsMerge ==
    \A r \in Merged :
        /\ Writable(held[r])
        /\ BreaksLines(r) \/ \A k \in DOMAIN held[r] : OneLine(held[r][k])
        /\ \A k \in DOMAIN body[r] :
              IF body[r][k] = Removed THEN k \notin DOMAIN held[r]
              ELSE k \in DOMAIN held[r] /\ held[r][k] = body[r][k]

\* What it does not set itself is what the admins expect, still: whoever has
\* written in the meantime has left it alone, or nothing is expected any more.
HeldIsKnown ==
    \A r \in Merged \ blind : \A k \in Name \ DOMAIN body[r] :
        known[k] # Unknown => ValueOf(held[r], k) = known[k]

\* Only values that the file can hold as they are are expected.
KnownIsPlain ==
    \A k \in Name : known[k] # Unknown =>
        known[k] \in Text /\ Plain(known[k]) /\ Kept(known[k]) = known[k]

\* Writes that overlap are all marked; any other write starts on an empty file.
WritesAlone == \A r \in Writing \ mixed : Writing = {r} /\ file = <<>>

\* The inductive invariant.
IndInv ==
    /\ TypeOK
    /\ held = [r \in Req |-> held[r]]
    /\ HeldIsMerge
    /\ HeldIsKnown
    /\ KnownIsPlain
    /\ WritesAlone
    /\ PlainValuesKept
    /\ EnvFollowsFile

\* The empty text is plain, and so is not broken.
LEMMA EmptyText == <<>> \in Text /\ OneLine(<<>>) /\ Plain(<<>>)
<1>1. <<>> \in Text /\ DOMAIN <<>> = {}
  BY DEF Text
<1> QED
  BY <1>1, Zenon DEF OneLine, Plain, ToSet

\* A plain value has no newline.
LEMMA PlainOneLine ==
    ASSUME NEW v, Plain(v)
    PROVE  OneLine(v)
BY Zenon DEF Plain, OneLine, ToSet

\* The keys and values of a body.
LEMMA BodyType ==
    ASSUME NEW b \in Body \cup {Nothing}
    PROVE  DOMAIN b \subseteq Name /\ \A k \in DOMAIN b : b[k] \in Text
<1>1. CASE b \in Body
  BY <1>1, BodyAssumption DEF Text
<1>2. CASE b = Nothing
  BY <1>2, EmptyText DEF Nothing, Removed
<1> QED
  BY <1>1, <1>2

\* A merge can be written; keys of the body are as the body says, all others as
\* they were.
LEMMA MergeIs ==
    ASSUME NEW m, Writable(m), \A k \in DOMAIN m : OneLine(m[k]), NEW b \in Body
    PROVE  /\ Writable(Merge(m, b))
           /\ \/ \E n \in DOMAIN b : Contains(b[n], "\n")
              \/ \A k \in DOMAIN Merge(m, b) : OneLine(Merge(m, b)[k])
           /\ \A k \in DOMAIN b :
                 IF b[k] = Removed THEN k \notin DOMAIN Merge(m, b)
                 ELSE k \in DOMAIN Merge(m, b) /\ Merge(m, b)[k] = b[k]
           /\ \A k \in Name \ DOMAIN b : ValueOf(Merge(m, b), k) = ValueOf(m, k)
<1> DEFINE D == {n \in DOMAIN m \cup DOMAIN b : n \in DOMAIN b => b[n] # Removed}
           g == Merge(m, b)
<1>1. DOMAIN b \subseteq Name /\ \A k \in DOMAIN b : b[k] \in Text
  BY BodyType
<1>2. /\ DOMAIN g = D
      /\ \A k \in D : g[k] = IF k \in DOMAIN b THEN b[k] ELSE m[k]
  BY DEF Merge
<1> HIDE DEF g
<1>3. IsFiniteSet(D)
  <2>1. IsFiniteSet(Name)
    <3>1. Name = ({} \cup {<<"K1">>}) \cup {<<"K2">>}
      BY Zenon DEF Name
    <3> QED
      BY <3>1, FS_EmptySet, FS_AddElement
  <2>2. IsFiniteSet(DOMAIN m)
    BY DEF Writable
  <2>3. IsFiniteSet(DOMAIN m \cup Name)
    BY <2>1, <2>2, FS_Union
  <2>4. D \in SUBSET (DOMAIN m \cup Name)
    BY <1>1
  <2> QED
    BY <2>3, <2>4, FS_Subset
<1>4. ASSUME NEW k \in D
      PROVE  GoodName(k) /\ g[k] \in Text
  BY <1>1, <1>2, NamesGood DEF Writable
<1>5. Writable(g)
  BY <1>2, <1>3, <1>4 DEF Writable
<1>6. ASSUME \A n \in DOMAIN b : ~Contains(b[n], "\n"), NEW k \in D
      PROVE  OneLine(g[k])
  <2>1. CASE k \in DOMAIN b
    <3>1. b[k] \in Text /\ ~Contains(b[k], "\n") /\ g[k] = b[k]
      BY <1>1, <1>2, <1>6, <2>1
    <3> QED
      BY <3>1, LenProperties DEF Contains, OneLine, Text
  <2>2. CASE k \notin DOMAIN b
    BY <1>2, <2>2
  <2> QED
    BY <2>1, <2>2
<1>7. \A k \in DOMAIN b : IF b[k] = Removed THEN k \notin DOMAIN g
                          ELSE k \in DOMAIN g /\ g[k] = b[k]
  BY <1>2
<1>8. \A k \in Name \ DOMAIN b : ValueOf(g, k) = ValueOf(m, k)
  BY <1>2 DEF ValueOf
<1> QED
  BY <1>2, <1>5, <1>6, <1>7, <1>8 DEF g

\* Writing over a text leaves a text; over the empty one, what was written.
LEMMA WriteAtStartType ==
    ASSUME NEW t \in Text, file \in Text
    PROVE  /\ WriteAtStart(t) \in Text
           /\ file = <<>> => WriteAtStart(t) = t
<1>1. Len(t) \in Nat /\ Len(file) \in Nat
  BY LenProperties DEF Text
<1>2. SubSeq(file, Len(t) + 1, Len(file)) \in Text
  <2>1. Len(t) + 1 \in Nat \ {0} /\ Len(file) <= Len(file)
    BY <1>1
  <2> QED
    BY <1>1, <2>1, Part
<1>3. WriteAtStart(t) \in Text
  BY <1>2, Concat DEF WriteAtStart
<1>4. ASSUME file = <<>>
      PROVE  WriteAtStart(t) = t
  <2>1. Len(file) = 0
    BY <1>4
  <2>2. SubSeq(file, Len(t) + 1, Len(file)) = <<>>
    BY <1>1, <2>1, SubSeqEmpty
  <2> QED
    BY <2>2, ConcatEmptySeq DEF WriteAtStart, Text
<1> QED
  BY <1>3, <1>4

\* Initially nothing is expected but what is there.
LEMMA InitInv == Init => IndInv
<1> SUFFICES ASSUME Init PROVE IndInv
  OBVIOUS
<1>1. /\ file = <<>> /\ file \in Text
      /\ \A k \in Name : env[k] = <<>> /\ known[k] = <<>>
      /\ stage = [r \in Req |-> "new"]
      /\ Merged = {} /\ Writing = {}
  BY EmptyText DEF Init, Nothing, Removed, Merged, Writing
<1>2. TypeOK
  <2>1. faults \in 0..MaxFaults
    BY FaultAssumption DEF Init
  <2>2. \A k \in Name : env[k] \in Seq(Char) /\ known[k] \in Seq(Char) \cup {Unknown}
    BY <1>1, EmptyText DEF Text
  <2>3. body \in [Req -> Body \cup {Nothing}]
    BY DEF Init
  <2>4. /\ stage \in [Req -> {"new", "refused", "merged", "writing", "written",
                              "done", "failed"}]
        /\ \A r \in Req : stage[r] # "merged"
    BY <1>1
  <2>5. blind \cup mixed \subseteq Req /\ stale \in BOOLEAN
    BY DEF Init
  <2> QED
    BY <1>1, <2>1, <2>2, <2>3, <2>4, <2>5 DEF TypeOK, Text
<1>3. held = [r \in Req |-> held[r]]
  BY DEF Init
<1>4. HeldIsMerge /\ HeldIsKnown /\ WritesAlone
  BY <1>1 DEF HeldIsMerge, HeldIsKnown, WritesAlone
<1>5. KnownIsPlain
  BY <1>1, EmptyText, KeptTwice DEF KnownIsPlain
<1>6. PlainValuesKept
  BY <1>1, ParseHeader DEF PlainValuesKept, ValueOf, Removed
<1>7. EnvFollowsFile
  BY <1>1, ParseHeader DEF EnvFollowsFile, ValueOf, Removed
<1> QED
  BY <1>2, <1>3, <1>4, <1>5, <1>6, <1>7 DEF IndInv

\* The stages after a step of r.
LEMMA Stages ==
    ASSUME NEW x, TypeOK, NEW r \in Req, stage' = [stage EXCEPT ![r] = x]
    PROVE  /\ stage'[r] = x
           /\ \A q \in Req \ {r} : stage'[q] = stage[q]
           /\ Merged' = IF x \in {"merged", "writing"} THEN Merged \cup {r} ELSE Merged \ {r}
           /\ Writing' = IF x = "writing" THEN Writing \cup {r} ELSE Writing \ {r}
           /\ x \in {"new", "refused", "merged", "writing", "written", "done", "failed"}
                 => stage' \in [Req -> {"new", "refused", "merged", "writing", "written",
                                        "done", "failed"}]
BY DEF TypeOK, Merged, Writing

\* The locals after requests R are over.
LEMMA Forgotten ==
    ASSUME NEW R, IndInv, Forget(R)
    PROVE  /\ body' \in [Req -> Body \cup {Nothing}]
           /\ held' = [r \in Req |-> held'[r]]
           /\ \A r \in Req \ R : body'[r] = body[r] /\ held'[r] = held[r]
           /\ blind' = blind \ R /\ mixed' = mixed \ R
BY DEF IndInv, TypeOK, Forget

\* A refused request changes nothing.
LEMMA RefuseInv ==
    ASSUME IndInv, NEW r \in Req, Refuse(r)
    PROVE  IndInv'
<1> USE DEF IndInv
<1>1. /\ stage[r] = "new" /\ stage' = [stage EXCEPT ![r] = "refused"]
      /\ UNCHANGED <<file, env, body, held, faults, stale, known, blind, mixed>>
  BY DEF Refuse
<1>2. /\ stage'[r] = "refused" /\ \A q \in Req \ {r} : stage'[q] = stage[q]
      /\ Merged' = Merged \ {r} /\ Writing' = Writing \ {r}
      /\ stage' \in [Req -> {"new", "refused", "merged", "writing", "written",
                             "done", "failed"}]
  BY <1>1, Stages
<1>3. Merged' = Merged /\ Writing' = Writing
  BY <1>1, <1>2 DEF Merged, Writing
<1>4. TypeOK'
  BY <1>1, <1>2 DEF TypeOK
<1>5. HeldIsMerge' /\ HeldIsKnown' /\ KnownIsPlain' /\ WritesAlone' /\ PlainValuesKept'
  BY <1>1, <1>3 DEF HeldIsMerge, HeldIsKnown, KnownIsPlain, WritesAlone, PlainValuesKept,
                    BreaksLines
<1>6. EnvFollowsFile'
  BY <1>1, <1>2 DEF EnvFollowsFile, ValueOf
<1> QED
  BY <1>1, <1>4, <1>5, <1>6

\* A request that reads while nobody writes gets what is expected; one that reads
\* a truncated file is marked.
LEMMA ReadMergeInv ==
    ASSUME IndInv, NEW r \in Req, ReadMerge(r)
    PROVE  IndInv'
<1> USE DEF IndInv
<1>1. PICK b \in Body :
         /\ body' = [body EXCEPT ![r] = b]
         /\ held' = [held EXCEPT ![r] = Merge(ParseEnvFile(file), b)]
  BY DEF ReadMerge
<1>2. /\ stage[r] = "new" /\ stage' = [stage EXCEPT ![r] = "merged"]
      /\ blind' = IF Writing = {} THEN blind ELSE blind \cup {r}
      /\ UNCHANGED <<file, env, faults, stale, known, mixed>>
  BY DEF ReadMerge
<1>3. /\ stage'[r] = "merged" /\ \A q \in Req \ {r} : stage'[q] = stage[q]
      /\ Merged' = Merged \cup {r} /\ Writing' = Writing \ {r}
      /\ stage' \in [Req -> {"new", "refused", "merged", "writing", "written",
                             "done", "failed"}]
  BY <1>2, Stages
<1>4. Writing' = Writing /\ r \notin Merged
  BY <1>2, <1>3 DEF Merged, Writing
<1> DEFINE m == ParseEnvFile(file)
           g == Merge(m, b)
<1>5. /\ body' \in [Req -> Body \cup {Nothing}] /\ body'[r] = b
      /\ held' = [q \in Req |-> held'[q]] /\ held'[r] = g
      /\ \A q \in Req \ {r} : body'[q] = body[q] /\ held'[q] = held[q]
  <2> HIDE DEF g
  <2>1. held' = [held EXCEPT ![r] = g]
    BY <1>1 DEF g
  <2>2. body \in [Req -> Body \cup {Nothing}]
    BY DEF TypeOK
  <2>3. held'[r] = g /\ held' = [q \in Req |-> held'[q]]
        /\ \A q \in Req \ {r} : held'[q] = held[q]
    BY <2>1
  <2> QED
    BY <1>1, <2>2, <2>3
<1>6. Writable(m) /\ \A k \in DOMAIN m : OneLine(m[k])
  <2>1. file \in Text
    BY DEF TypeOK, Text
  <2> QED
    BY <2>1, ParseType DEF Writable
<1> HIDE DEF m
<1>7. /\ Writable(g)
      /\ \/ \E n \in DOMAIN b : Contains(b[n], "\n")
         \/ \A k \in DOMAIN g : OneLine(g[k])
      /\ \A k \in DOMAIN b : IF b[k] = Removed THEN k \notin DOMAIN g
                             ELSE k \in DOMAIN g /\ g[k] = b[k]
      /\ \A k \in Name \ DOMAIN b : ValueOf(g, k) = ValueOf(m, k)
  BY <1>6, MergeIs
<1> HIDE DEF g
<1>8. HeldIsMerge'
  <2> SUFFICES ASSUME NEW q \in Merged'
               PROVE  (/\ Writable(held[q])
                       /\ BreaksLines(q) \/ \A k \in DOMAIN held[q] : OneLine(held[q][k])
                       /\ \A k \in DOMAIN body[q] :
                             IF body[q][k] = Removed THEN k \notin DOMAIN held[q]
                             ELSE k \in DOMAIN held[q] /\ held[q][k] = body[q][k])'
    BY DEF HeldIsMerge
  <2>1. CASE q = r
    BY <1>5, <1>7, <2>1 DEF BreaksLines
  <2>2. CASE q # r
    <3>1. q \in Merged /\ q \in Req \ {r}
      BY <1>3, <2>2 DEF Merged
    <3>2. body'[q] = body[q] /\ held'[q] = held[q]
      BY <1>5, <3>1
    <3> QED
      BY <3>1, <3>2 DEF HeldIsMerge, BreaksLines
  <2> QED
    BY <2>1, <2>2
<1>9. HeldIsKnown'
  <2> SUFFICES ASSUME NEW q \in Merged', q \notin blind', NEW k \in Name \ DOMAIN body'[q],
                      known[k] # Unknown
               PROVE  ValueOf(held'[q], k) = known[k]
    BY <1>2 DEF HeldIsKnown, ValueOf
  <2>1. CASE q = r
    <3>1. Writing = {}
      BY <1>2, <2>1
    <3>2. ValueOf(m, k) = known[k]
      BY <3>1 DEF PlainValuesKept, m
    <3> QED
      BY <1>5, <1>7, <2>1, <3>2
  <2>2. CASE q # r
    <3>1. q \in Merged /\ q \in Req \ {r} /\ q \notin blind
      BY <1>2, <1>3, <2>2 DEF Merged
    <3>2. body'[q] = body[q] /\ held'[q] = held[q]
      BY <1>5, <3>1
    <3> QED
      BY <3>1, <3>2 DEF HeldIsKnown
  <2> QED
    BY <2>1, <2>2
<1>10. KnownIsPlain' /\ WritesAlone' /\ PlainValuesKept'
  BY <1>2, <1>4 DEF KnownIsPlain, WritesAlone, PlainValuesKept
<1>11. EnvFollowsFile'
  BY <1>2, <1>3 DEF EnvFollowsFile, ValueOf
<1>12. TypeOK'
  <2>1. \A q \in Req : stage'[q] = "merged" =>
           \A k \in DOMAIN body'[q] : body'[q][k] = Removed => k \notin DOMAIN held'[q]
    BY <1>8 DEF HeldIsMerge, Merged
  <2>2. (blind \cup mixed)' \subseteq Req
    BY <1>2 DEF TypeOK
  <2> QED
    BY <1>2, <1>3, <1>5, <2>1, <2>2 DEF TypeOK
<1> QED
  BY <1>5, <1>8, <1>9, <1>10, <1>11, <1>12

\* The first of several writers, and every one that joins, is marked.
LEMMA BeginWriteInv ==
    ASSUME IndInv, NEW r \in Req, BeginWrite(r)
    PROVE  IndInv'
<1> USE DEF IndInv
<1>1. /\ stage[r] = "merged" /\ stage' = [stage EXCEPT ![r] = "writing"]
      /\ file' = <<>>
      /\ mixed' = IF Writing = {} THEN mixed ELSE mixed \cup Writing \cup {r}
      /\ UNCHANGED <<env, body, held, faults, stale, known, blind>>
  BY DEF BeginWrite
<1>2. /\ stage'[r] = "writing" /\ \A q \in Req \ {r} : stage'[q] = stage[q]
      /\ Merged' = Merged \cup {r} /\ Writing' = Writing \cup {r}
      /\ stage' \in [Req -> {"new", "refused", "merged", "writing", "written",
                             "done", "failed"}]
  BY <1>1, Stages
<1>3. Merged' = Merged
  BY <1>1, <1>2 DEF Merged
<1>4. HeldIsMerge' /\ HeldIsKnown' /\ KnownIsPlain'
  BY <1>1, <1>3 DEF HeldIsMerge, HeldIsKnown, KnownIsPlain, BreaksLines
<1>5. WritesAlone'
  <2> SUFFICES ASSUME NEW q \in Writing', q \notin mixed'
               PROVE  Writing' = {q} /\ file' = <<>>
    BY DEF WritesAlone
  <2>1. Writing = {}
    BY <1>1, <1>2
  <2> QED
    BY <1>1, <1>2, <2>1
<1>6. PlainValuesKept' /\ EnvFollowsFile'
  BY <1>2 DEF PlainValuesKept, EnvFollowsFile
<1>7. TypeOK'
  <2>1. \A q \in Req : stage'[q] = "merged" => stage[q] = "merged"
    BY <1>1, <1>2
  <2>2. (blind \cup mixed)' \subseteq Req
    BY <1>1 DEF TypeOK, Writing
  <2> QED
    BY <1>1, <1>2, <2>1, <2>2, EmptyText DEF TypeOK, Text
<1> QED
  BY <1>1, <1>4, <1>5, <1>6, <1>7

\* After a write that nobody disturbed the file says what was written: of the keys
\* of the body what the admin set, of all others what was expected before.
LEMMA EndWriteInv ==
    ASSUME IndInv, NEW r \in Req, EndWrite(r)
    PROVE  IndInv'
<1> USE DEF IndInv
<1>1. /\ stage[r] = "writing" /\ stage' = [stage EXCEPT ![r] = "written"]
      /\ file' = WriteAtStart(EnvText(held[r]))
      /\ known' = [k \in Name |-> Expect(r, k)]
      /\ UNCHANGED <<env, body, held, faults, stale, blind, mixed>>
  BY DEF EndWrite
<1>2. /\ stage'[r] = "written" /\ \A q \in Req \ {r} : stage'[q] = stage[q]
      /\ Merged' = Merged \ {r} /\ Writing' = Writing \ {r}
      /\ stage' \in [Req -> {"new", "refused", "merged", "writing", "written",
                             "done", "failed"}]
  BY <1>1, Stages
<1>3. r \in Writing /\ r \in Merged
  BY <1>1 DEF Writing, Merged
<1>4. Writable(held[r]) /\ EnvText(held[r]) \in Text
  BY <1>3, EnvTextType DEF HeldIsMerge
<1>5. file' \in Text
  BY <1>1, <1>4, WriteAtStartType DEF TypeOK, Text
<1>6. body[r] \in Body \cup {Nothing}
  BY DEF TypeOK
<1>7. ASSUME NEW k \in Name, known'[k] # Unknown
      PROVE  /\ r \notin mixed /\ ~BreaksLines(r) /\ ~HoldsOddName(r)
             /\ known'[k] \in Text /\ Plain(known'[k]) /\ Kept(known'[k]) = known'[k]
             /\ Plain(ValueOf(held[r], k)) /\ Kept(ValueOf(held[r], k)) = known'[k]
             /\ k \notin DOMAIN body[r] => known'[k] = known[k]
             /\ k \in DOMAIN body[r] => Merged = {r}
  <2>1. known'[k] = Expect(r, k)
    BY <1>1
  <2>2. r \notin mixed /\ ~BreaksLines(r) /\ ~HoldsOddName(r)
    BY <1>7, <2>1 DEF Expect
  <2>3. CASE k \in DOMAIN body[r]
    <3>1. Merged = {r} /\ Plain(body[r][k]) /\ known'[k] = Kept(body[r][k])
      BY <1>7, <2>1, <2>2, <2>3 DEF Expect
    <3>2. body[r][k] \in Text
      BY <1>6, <2>3, BodyType
    <3>3. ValueOf(held[r], k) = body[r][k]
      BY <1>3, <2>3 DEF HeldIsMerge, ValueOf
    <3> QED
      BY <2>2, <2>3, <3>1, <3>2, <3>3, KeptTwice
  <2>4. CASE k \notin DOMAIN body[r]
    <3>1. r \notin blind /\ known'[k] = known[k]
      BY <1>7, <2>1, <2>2, <2>4 DEF Expect
    <3>2. ValueOf(held[r], k) = known[k]
      BY <1>3, <1>7, <2>4, <3>1 DEF HeldIsKnown
    <3> QED
      BY <1>7, <2>2, <2>4, <3>1, <3>2 DEF KnownIsPlain
  <2> QED
    BY <2>3, <2>4
<1>8. PlainValuesKept'
  <2> SUFFICES ASSUME NEW k \in Name, known'[k] # Unknown
               PROVE  ValueOf(ParseEnvFile(file'), k) = known'[k]
    BY DEF PlainValuesKept, ValueOf
  <2>1. file = <<>>
    BY <1>3, <1>7 DEF WritesAlone
  <2>2. file' = EnvText(held[r])
    BY <1>1, <1>4, <2>1, WriteAtStartType DEF TypeOK, Text
  <2>3. \A n \in DOMAIN held[r] : OneLine(held[r][n]) /\ ~Odd(n)
    BY <1>3, <1>7 DEF HeldIsMerge, HoldsOddName
  <2>4. /\ DOMAIN ParseEnvFile(file') = Written(held[r])
        /\ \A n \in Written(held[r]) :
              Plain(held[r][n]) => ParseEnvFile(file')[n] = Kept(held[r][n])
    BY <1>4, <2>2, <2>3, RoundTrip
  <2>5. Plain(ValueOf(held[r], k)) /\ Kept(ValueOf(held[r], k)) = known'[k]
    BY <1>7
  <2>6. CASE k \in Written(held[r])
    BY <2>4, <2>5, <2>6 DEF Written, ValueOf
  <2>7. CASE k \notin Written(held[r])
    BY <2>4, <2>5, <2>7, EmptyText, KeptTwice DEF Written, ValueOf, Removed
  <2> QED
    BY <2>6, <2>7
<1>9. HeldIsMerge'
  BY <1>1, <1>2 DEF HeldIsMerge, BreaksLines
<1>10. HeldIsKnown'
  <2> SUFFICES ASSUME NEW q \in Merged', q \notin blind', NEW k \in Name \ DOMAIN body'[q],
                      known'[k] # Unknown
               PROVE  ValueOf(held'[q], k) = known'[k]
    BY DEF HeldIsKnown, ValueOf
  <2>1. q \in Merged /\ q # r /\ q \notin blind /\ k \notin DOMAIN body[q]
    BY <1>1, <1>2
  <2>2. known'[k] = known[k]
    BY <1>7, <2>1
  <2> QED
    BY <1>1, <2>1, <2>2 DEF HeldIsKnown
<1>11. KnownIsPlain'
  BY <1>7 DEF KnownIsPlain
<1>12. WritesAlone'
  BY <1>1, <1>2, <1>3 DEF WritesAlone
<1>13. EnvFollowsFile'
  BY <1>2 DEF EnvFollowsFile
<1>14. TypeOK'
  <2>1. \A k \in Name : known'[k] \in Seq(Char) \cup {Unknown}
    BY <1>7 DEF Text
  <2>2. \A q \in Req : stage'[q] = "merged" => stage[q] = "merged"
    BY <1>1, <1>2
  <2> QED
    BY <1>1, <1>2, <1>5, <2>1, <2>2 DEF TypeOK, Text
<1> QED
  BY <1>1, <1>8, <1>9, <1>10, <1>11, <1>12, <1>13, <1>14

\* A write that fails ends every expectation.
LEMMA FailWriteInv ==
    ASSUME IndInv, NEW r \in Req, FailWrite(r)
    PROVE  IndInv'
<1> USE DEF IndInv
<1>1. /\ stage[r] = "writing" /\ stage' = [stage EXCEPT ![r] = "failed"]
      /\ faults < MaxFaults /\ faults' = faults + 1
      /\ stale' = TRUE /\ \A k \in Name : known'[k] = Unknown
      /\ Forget({r})
      /\ UNCHANGED env
  BY DEF FailWrite
<1>2. PICK n \in 0..(Len(EnvText(held[r])) - 1) :
         file' = WriteAtStart(SubSeq(EnvText(held[r]), 1, n))
  BY DEF FailWrite
<1>3. /\ stage'[r] = "failed" /\ \A q \in Req \ {r} : stage'[q] = stage[q]
      /\ Merged' = Merged \ {r} /\ Writing' = Writing \ {r}
      /\ stage' \in [Req -> {"new", "refused", "merged", "writing", "written",
                             "done", "failed"}]
  BY <1>1, Stages
<1>4. r \in Writing /\ r \in Merged
  BY <1>1 DEF Writing, Merged
<1>5. /\ body' \in [Req -> Body \cup {Nothing}]
      /\ held' = [q \in Req |-> held'[q]]
      /\ \A q \in Req \ {r} : body'[q] = body[q] /\ held'[q] = held[q]
      /\ blind' = blind \ {r} /\ mixed' = mixed \ {r}
  BY <1>1, Forgotten
<1>6. file' \in Text
  <2> DEFINE t == EnvText(held[r])
  <2>1. t \in Text
    BY <1>4, EnvTextType DEF HeldIsMerge
  <2>2. Len(t) \in Nat
    BY <2>1, LenProperties DEF Text
  <2> HIDE DEF t
  <2>3. n \in Nat /\ n <= Len(t)
    BY <2>2 DEF t
  <2>4. SubSeq(t, 1, n) \in Text
    <3>1. \A x \in Text : \A i \in Nat \ {0} : \A j \in Nat :
             j <= Len(x) => SubSeq(x, i, j) \in Text
      BY Part
    <3>2. 1 \in Nat \ {0}
      OBVIOUS
    <3> QED
      BY <2>1, <2>3, <3>1, <3>2, Zenon
  <2> QED
    BY <1>2, <2>4, WriteAtStartType DEF TypeOK, Text, t
<1>7. \A q \in Merged' : q \in Merged /\ q \in Req \ {r}
  BY <1>3 DEF Merged
<1>8. HeldIsMerge'
  <2> SUFFICES ASSUME NEW q \in Merged'
               PROVE  (/\ Writable(held[q])
                       /\ BreaksLines(q) \/ \A k \in DOMAIN held[q] : OneLine(held[q][k])
                       /\ \A k \in DOMAIN body[q] :
                             IF body[q][k] = Removed THEN k \notin DOMAIN held[q]
                             ELSE k \in DOMAIN held[q] /\ held[q][k] = body[q][k])'
    BY DEF HeldIsMerge
  <2>1. q \in Merged /\ body'[q] = body[q] /\ held'[q] = held[q]
    BY <1>5, <1>7
  <2> QED
    BY <2>1 DEF HeldIsMerge, BreaksLines
<1>9. HeldIsKnown' /\ KnownIsPlain' /\ PlainValuesKept' /\ EnvFollowsFile'
  BY <1>1 DEF HeldIsKnown, KnownIsPlain, PlainValuesKept, EnvFollowsFile
<1>10. WritesAlone'
  BY <1>3, <1>4, <1>5 DEF WritesAlone
<1>11. TypeOK'
  <2>1. \A q \in Req : stage'[q] = "merged" =>
           stage[q] = "merged" /\ body'[q] = body[q] /\ held'[q] = held[q]
    BY <1>3, <1>5
  <2>2. (blind \cup mixed)' \subseteq Req
    BY <1>5 DEF TypeOK
  <2>3. faults' \in 0..MaxFaults
    BY <1>1, FaultAssumption DEF TypeOK
  <2> QED
    BY <1>1, <1>3, <1>5, <1>6, <2>1, <2>2, <2>3 DEF TypeOK, Text
<1> QED
  BY <1>5, <1>8, <1>9, <1>10, <1>11

\* Applying the file gives the process what it says.
LEMMA ApplyInv ==
    ASSUME IndInv, NEW r \in Req, Apply(r)
    PROVE  IndInv'
<1> USE DEF IndInv
<1>1. /\ stage[r] = "written" /\ stage' = [stage EXCEPT ![r] = "done"]
      /\ env' = SetAll(ParseEnvFile(file), env) /\ stale' = FALSE
      /\ Forget({r})
      /\ UNCHANGED <<file, faults, known>>
  BY DEF Apply
<1>2. /\ stage'[r] = "done" /\ \A q \in Req \ {r} : stage'[q] = stage[q]
      /\ Merged' = Merged \ {r} /\ Writing' = Writing \ {r}
      /\ stage' \in [Req -> {"new", "refused", "merged", "writing", "written",
                             "done", "failed"}]
  BY <1>1, Stages
<1>3. Merged' = Merged /\ Writing' = Writing /\ \A q \in Merged : q \in Req \ {r}
  BY <1>1, <1>2 DEF Merged, Writing
<1>4. /\ body' \in [Req -> Body \cup {Nothing}]
      /\ held' = [q \in Req |-> held'[q]]
      /\ \A q \in Req \ {r} : body'[q] = body[q] /\ held'[q] = held[q]
      /\ blind' = blind \ {r} /\ mixed' = mixed \ {r}
  BY <1>1, Forgotten
<1>5. HeldIsMerge'
  BY <1>3, <1>4 DEF HeldIsMerge, BreaksLines
<1>6. HeldIsKnown' /\ KnownIsPlain' /\ PlainValuesKept'
  BY <1>1, <1>3, <1>4 DEF HeldIsKnown, KnownIsPlain, PlainValuesKept, ValueOf
<1>7. WritesAlone'
  <2>1. r \notin Writing
    BY <1>1 DEF Writing
  <2> QED
    BY <1>1, <1>3, <1>4, <2>1 DEF WritesAlone
<1>8. \A k \in Name : env'[k] = IF k \in DOMAIN ParseEnvFile(file)
                                      /\ Settable(ParseEnvFile(file)[k])
                                THEN ParseEnvFile(file)[k] ELSE env[k]
  BY <1>1 DEF SetAll
<1>9. EnvFollowsFile'
  BY <1>1, <1>8 DEF EnvFollowsFile, ValueOf
<1>10. TypeOK'
  <2>1. \A q \in Req : stage'[q] = "merged" =>
           stage[q] = "merged" /\ body'[q] = body[q] /\ held'[q] = held[q]
    BY <1>2, <1>4
  <2>2. (blind \cup mixed)' \subseteq Req
    BY <1>4 DEF TypeOK
  <2>3. \A k \in Name : env'[k] \in Text
    BY <1>8, ParseType DEF TypeOK, Text
  <2> QED
    BY <1>1, <1>2, <1>4, <2>1, <2>2, <2>3 DEF TypeOK, Text
<1> QED
  BY <1>4, <1>5, <1>6, <1>7, <1>9, <1>10

\* A restart loses the requests, and what is expected if one of them was writing.
LEMMA RestartInv ==
    ASSUME IndInv, Restart
    PROVE  IndInv'
<1> USE DEF IndInv
<1> DEFINE R == {r \in Req : stage[r] \in {"merged", "writing", "written"}}
<1>1. /\ faults < MaxFaults /\ faults' = faults + 1
      /\ \A k \in Name : env'[k] = IF k \in DOMAIN ParseEnvFile(file)
                                         /\ Settable(ParseEnvFile(file)[k])
                                   THEN ParseEnvFile(file)[k] ELSE Removed
      /\ stale' = FALSE
      /\ stage' = [r \in Req |-> IF stage[r] \in {"merged", "writing", "written"}
                                 THEN "failed" ELSE stage[r]]
      /\ known' = IF Writing = {} THEN known ELSE [k \in Name |-> Unknown]
      /\ Forget(R)
      /\ UNCHANGED file
  BY DEF Restart, SetAll, Nothing
<1> HIDE DEF R
<1>2. /\ body' \in [Req -> Body \cup {Nothing}]
      /\ held' = [q \in Req |-> held'[q]]
      /\ blind' = blind \ R /\ mixed' = mixed \ R
  BY <1>1, Forgotten
<1>3. /\ stage' \in [Req -> {"new", "refused", "merged", "writing", "written",
                             "done", "failed"}]
      /\ \A q \in Req : stage'[q] \notin {"merged", "writing", "written"}
  BY <1>1 DEF TypeOK
<1>4. Merged' = {} /\ Writing' = {}
  BY <1>3 DEF Merged, Writing
<1>5. HeldIsMerge' /\ HeldIsKnown' /\ WritesAlone'
  BY <1>4 DEF HeldIsMerge, HeldIsKnown, WritesAlone
<1>6. ASSUME NEW k \in Name, known'[k] # Unknown
      PROVE  Writing = {} /\ known'[k] = known[k]
  BY <1>1, <1>6
<1>7. KnownIsPlain'
  BY <1>6 DEF KnownIsPlain
<1>8. PlainValuesKept'
  BY <1>1, <1>6 DEF PlainValuesKept, ValueOf
<1>9. EnvFollowsFile'
  BY <1>1 DEF EnvFollowsFile, ValueOf
<1>10. TypeOK'
  <2>1. faults' \in 0..MaxFaults
    BY <1>1, FaultAssumption DEF TypeOK
  <2>2. \A k \in Name : env'[k] \in Text
    BY <1>1, ParseType, EmptyText DEF ValueOf, Removed, TypeOK, Text
  <2>3. \A k \in Name : known'[k] \in Seq(Char) \cup {Unknown}
    BY <1>1 DEF TypeOK
  <2>4. (blind \cup mixed)' \subseteq Req
    BY <1>2 DEF TypeOK
  <2> QED
    BY <1>1, <1>2, <1>3, <2>1, <2>2, <2>3, <2>4 DEF TypeOK, Text
<1> QED
  BY <1>2, <1>5, <1>7, <1>8, <1>9, <1>10

\* Every step keeps the inductive invariant.
LEMMA NextInv == IndInv /\ [Next]_vars => IndInv'
<1> SUFFICES ASSUME IndInv, [Next]_vars
             PROVE  IndInv'
  OBVIOUS
<1>1. CASE Next
  BY <1>1, RefuseInv, ReadMergeInv, BeginWriteInv, EndWriteInv, FailWriteInv, ApplyInv,
     RestartInv DEF Next
<1>2. CASE UNCHANGED vars
  BY <1>2 DEF vars, IndInv, TypeOK, HeldIsMerge, HeldIsKnown, KnownIsPlain, WritesAlone,
              PlainValuesKept, EnvFollowsFile, Merged, Writing, BreaksLines, ValueOf
<1> QED
  BY <1>1, <1>2

\* The inductive invariant holds in every reachable state.
THEOREM Inductive == Spec => []IndInv
BY InitInv, NextInv, PTL DEF Spec

\* The types are kept, for any number of requests and any bodies; and a request
\* never holds a key that its body removes (handler_admin_env.go:136-158).
THEOREM TypeCorrect == Spec => []TypeOK
<1>1. IndInv => TypeOK
  BY DEF IndInv
<1> QED
  BY <1>1, Inductive, PTL

\* Between writes the file says what the admins expect, through overlapping
\* requests, failed writes and restarts: of a plain value what Kept leaves of it
\* (handler_admin_env.go:116-162, managedenv.go:46-109).
THEOREM ValuesKept == Spec => []PlainValuesKept
<1>1. IndInv => PlainValuesKept
  BY DEF IndInv
<1> QED
  BY <1>1, Inductive, PTL

\* When no write is unanswered and the last did not fail, the process has each
\* value of the file that os.Setenv takes, plain or not, whatever overlapped, tore
\* the file or died before (handler_admin_env.go:163, config.go:52-55).
THEOREM EnvFollows == Spec => []EnvFollowsFile
<1>1. IndInv => EnvFollowsFile
  BY DEF IndInv
<1> QED
  BY <1>1, Inductive, PTL

\* A write that overlaps no other, of values without a newline under names that
\* are not odd, can be read back: the keys that were held, no other, and of the
\* values that need no escape what Kept leaves of them (managedenv.go:46-109,
\* handler_admin_env.go:136-162).
THEOREM WritesAreFaithful == Spec => WritesWhatItHolds
<1> DEFINE Faithful(r) ==
        \A k \in Name :
            /\ k \in DOMAIN ParseEnvFile(file') <=> ValueOf(held[r], k) # Removed
            /\ Plain(ValueOf(held[r], k)) =>
                  ValueOf(ParseEnvFile(file'), k) = Kept(ValueOf(held[r], k))
           Step ==
        \A r \in Req :
            /\ stage[r] = "writing" /\ stage'[r] = "written"
            /\ r \notin mixed /\ ~BreaksLines(r) /\ ~HoldsOddName(r)
            => Faithful(r)
<1>1. ASSUME IndInv, NEW r \in Req, EndWrite(r),
             r \notin mixed, ~BreaksLines(r), ~HoldsOddName(r)
      PROVE  Faithful(r)
  <2>1. stage[r] = "writing" /\ file' = WriteAtStart(EnvText(held[r]))
    BY <1>1 DEF EndWrite
  <2>2. r \in Writing /\ r \in Merged
    BY <2>1 DEF Writing, Merged
  <2>3. Writable(held[r]) /\ EnvText(held[r]) \in Text
    BY <1>1, <2>2, EnvTextType DEF IndInv, HeldIsMerge
  <2>4. file = <<>>
    BY <1>1, <2>2 DEF IndInv, WritesAlone
  <2>5. file' = EnvText(held[r])
    BY <1>1, <2>1, <2>3, <2>4, WriteAtStartType DEF IndInv, TypeOK, Text
  <2>6. \A n \in DOMAIN held[r] : OneLine(held[r][n]) /\ ~Odd(n)
    BY <1>1, <2>2 DEF IndInv, HeldIsMerge, HoldsOddName
  <2>7. /\ DOMAIN ParseEnvFile(file') = Written(held[r])
        /\ \A n \in Written(held[r]) :
              Plain(held[r][n]) => ParseEnvFile(file')[n] = Kept(held[r][n])
    BY <2>3, <2>5, <2>6, RoundTrip
  <2>8. Kept(<<>>) = <<>>
    BY EmptyText, KeptTwice
  <2> QED
    BY <2>7, <2>8 DEF Written, ValueOf, Removed
<1>2. ASSUME NEW r \in Req, NEW q \in Req, IndInv,
             Refuse(q) \/ ReadMerge(q) \/ BeginWrite(q) \/ FailWrite(q) \/ Apply(q),
             stage[r] = "writing"
      PROVE  stage'[r] # "written"
  BY <1>2 DEF Refuse, ReadMerge, BeginWrite, FailWrite, Apply, IndInv, TypeOK
<1>3. ASSUME NEW r \in Req, NEW q \in Req, IndInv, EndWrite(q), stage[r] = "writing",
             stage'[r] = "written"
      PROVE  q = r
  BY <1>3 DEF EndWrite, IndInv, TypeOK
<1>4. ASSUME NEW r \in Req, Restart, stage[r] = "writing" PROVE stage'[r] # "written"
  BY <1>4 DEF Restart
<1>5. IndInv /\ [Next]_vars => [Step]_vars
  <2> HIDE DEF Faithful
  <2> SUFFICES ASSUME IndInv, [Next]_vars, NEW r \in Req, stage[r] = "writing",
                      stage'[r] = "written",
                      r \notin mixed, ~BreaksLines(r), ~HoldsOddName(r)
               PROVE  Faithful(r)
    OBVIOUS
  <2>1. stage' # stage
    OBVIOUS
  <2>2. Next
    BY <2>1 DEF vars
  <2>3. EndWrite(r)
    BY <1>2, <1>3, <1>4, <2>2 DEF Next
  <2> QED
    BY <1>1, <2>3
<1>6. QED
  BY <1>5, Inductive, PTL DEF Spec, WritesWhatItHolds
=============================================================================
