------------------------- MODULE ReadCommandsProofs -------------------------
(***************************************************************************)
(* What holds of the conversions of texts for every text, of the ranking   *)
(* for every graph, and where every command is and what its view holds.    *)
(*                                                                         *)
(* A fact about a loop over the characters of a text is shown by taking    *)
(* the shortest text without it (AllTexts), one about a list in order from *)
(* the places of its members being the numbers of those before them        *)
(* (OrderedLists).                                                         *)
(***************************************************************************)
EXTENDS ReadCommands, StoreCallsProofs

----------------------------------------------------------------------------
(* Loops over the characters of a text. *)

\* f gives the states of a loop before each character of s, and after the last.
Scans(f, n, move, start, s) ==
    f = [i \in 0..n |-> IF i = 0 THEN start ELSE move[f[i - 1]][s[i]]]

LEMMA ScansExists ==
  ASSUME NEW move, NEW start, NEW s, NEW n \in Nat
  PROVE  \E f : Scans(f, n, move, start, s)
  <1> DEFINE T == {m \in Nat : ~ \E f : Scans(f, m, move, start, s)}
  <1> SUFFICES ASSUME T # {}
               PROVE  FALSE
    OBVIOUS
  <1>1. PICK m \in T : \A k \in T : m <= k
    <2>1. T \subseteq Nat
      OBVIOUS
    <2> HIDE DEF T
    <2> QED
      BY <2>1, LeastNumber
  <1>2. m \in Nat /\ m # 0
    <2>1. Scans([i \in 0..0 |-> start], 0, move, start, s)
      BY DEF Scans
    <2> QED
      BY <1>1, <2>1
  <1>3. PICK f : Scans(f, m - 1, move, start, s)
    BY <1>1, <1>2
  <1> DEFINE g == [i \in 0..m |-> IF i < m THEN f[i] ELSE move[f[m - 1]][s[m]]]
  <1>4. /\ g = [i \in 0..m |-> g[i]]
        /\ \A i \in 0..(m - 1) : g[i] = f[i]
        /\ g[m] = move[f[m - 1]][s[m]]
    BY <1>2
  <1>5. \A i \in 0..(m - 1) : f[i] = IF i = 0 THEN start ELSE move[f[i - 1]][s[i]]
    BY <1>2, <1>3 DEF Scans
  <1> HIDE DEF g
  <1>6. \A i \in 0..m : g[i] = IF i = 0 THEN start ELSE move[g[i - 1]][s[i]]
    <2>1. ASSUME NEW i \in 0..(m - 1)
          PROVE  g[i] = IF i = 0 THEN start ELSE move[g[i - 1]][s[i]]
      <3>1. i # 0 => i - 1 \in 0..(m - 1)
        BY <1>2
      <3> QED
        BY <1>4, <1>5, <3>1
    <2>2. m - 1 \in 0..(m - 1) /\ g[m] = move[g[m - 1]][s[m]]
      <3>1. m - 1 \in 0..(m - 1)
        BY <1>2
      <3> QED
        BY <1>4, <3>1
    <2>3. \A i \in 0..m : i \in 0..(m - 1) \/ (i = m /\ i # 0)
      BY <1>2
    <2> QED
      BY <2>1, <2>2, <2>3
  <1>7. Scans(g, m, move, start, s)
    BY <1>4, <1>6 DEF Scans
  <1> QED
    BY <1>1, <1>7

\* The states of two texts that begin alike are alike.
LEMMA ScansAgree ==
  ASSUME NEW move, NEW start, NEW s, NEW t, NEW n \in Nat, NEW m \in Nat, n <= m,
         \A i \in 1..n : s[i] = t[i],
         NEW f, Scans(f, n, move, start, s), NEW g, Scans(g, m, move, start, t)
  PROVE  f[n] = g[n]
  <1> DEFINE T == {i \in 0..n : f[i] # g[i]}
  <1> SUFFICES ASSUME T # {}
               PROVE  FALSE
    OBVIOUS
  <1>1. PICK k \in T : \A i \in T : k <= i
    <2>1. T \subseteq Nat
      OBVIOUS
    <2> HIDE DEF T
    <2> QED
      BY <2>1, LeastNumber
  <1>2. k \in 0..n /\ f[k] # g[k] /\ k \in 0..m
    BY <1>1
  <1>3. /\ f[k] = IF k = 0 THEN start ELSE move[f[k - 1]][s[k]]
        /\ g[k] = IF k = 0 THEN start ELSE move[g[k - 1]][t[k]]
    BY <1>2 DEF Scans
  <1>4. k # 0
    BY <1>2, <1>3
  <1>5. k - 1 \in 0..n /\ ~(k <= k - 1)
    BY <1>2, <1>4
  <1>6. f[k - 1] = g[k - 1]
    BY <1>1, <1>5
  <1> QED
    BY <1>2, <1>3, <1>4, <1>6

LEMMA ScanDefined ==
  ASSUME NEW move, NEW start, NEW s, Len(s) \in Nat
  PROVE  \E f : Scans(f, Len(s), move, start, s) /\ Scan(move, start, s) = f[Len(s)]
  <1> DEFINE n == Len(s)
             f == CHOOSE f : Scans(f, n, move, start, s)
  <1>1. Scan(move, start, s) = f[n]
    BY DEF Scan, Scans
  <1>2. \E h : Scans(h, n, move, start, s)
    BY ScansExists
  <1>3. Scans(f, n, move, start, s)
    <2> HIDE DEF n
    <2> QED
      BY <1>2
  <1> QED
    BY <1>1, <1>3

\* A loop over nothing, and one more character.
LEMMA ScanEmpty ==
  ASSUME NEW move, NEW start
  PROVE  Scan(move, start, <<>>) = start
  <1>1. Len(<<>>) = 0
    OBVIOUS
  <1>2. PICK f : Scans(f, 0, move, start, <<>>) /\ Scan(move, start, <<>>) = f[0]
    BY <1>1, ScanDefined
  <1> QED
    BY <1>2 DEF Scans

LEMMA ScanAppend ==
  ASSUME NEW C, NEW move, NEW start, NEW s \in Seq(C), NEW c \in C
  PROVE  Scan(move, start, Append(s, c)) = move[Scan(move, start, s)][c]
  <1> DEFINE n == Len(s)
             t == Append(s, c)
  <1>1. n \in Nat /\ Len(t) = n + 1 /\ t[n + 1] = c /\ \A i \in 1..n : s[i] = t[i]
    OBVIOUS
  <1>2. PICK f : Scans(f, n, move, start, s) /\ Scan(move, start, s) = f[n]
    BY <1>1, ScanDefined
  <1>3. PICK g : Scans(g, n + 1, move, start, t) /\ Scan(move, start, t) = g[n + 1]
    <2>1. Len(t) \in Nat
      BY <1>1
    <2> HIDE DEF n, t
    <2> QED
      BY <1>1, <2>1, ScanDefined
  <1> HIDE DEF n, t
  <1>4. n + 1 \in Nat /\ n <= n + 1
    BY <1>1
  <1>5. f[n] = g[n]
    BY <1>1, <1>2, <1>3, <1>4, ScansAgree
  <1>6. n + 1 \in 0..(n + 1) /\ n + 1 # 0 /\ (n + 1) - 1 = n
    BY <1>1
  <1>7. g[n + 1] = move[g[n]][t[n + 1]]
    BY <1>3, <1>6 DEF Scans
  <1> QED
    BY <1>1, <1>2, <1>3, <1>5, <1>7 DEF t

\* What holds of the empty text, and of a text with one more character if it
\* holds of the text, holds of all: T is any set of texts.
LEMMA AllTexts ==
  ASSUME NEW C, NEW T, <<>> \in T, \A s \in T \cap Seq(C), c \in C : Append(s, c) \in T
  PROVE  Seq(C) \subseteq T
  <1> DEFINE Bad == {n \in Nat : \E s \in Seq(C) : Len(s) = n /\ s \notin T}
  <1> SUFFICES ASSUME Bad # {}
               PROVE  FALSE
    <2>1. ASSUME NEW s \in Seq(C), Bad = {}
          PROVE  s \in T
      BY <2>1
    <2> QED
      BY <2>1
  <1>1. PICK n \in Bad : \A k \in Bad : n <= k
    <2>1. Bad \subseteq Nat
      OBVIOUS
    <2> HIDE DEF Bad
    <2> QED
      BY <2>1, LeastNumber
  <1>2. PICK s \in Seq(C) : Len(s) = n /\ s \notin T
    BY <1>1
  <1>3. s # <<>>
    BY <1>2, Zenon
  <1>4. PICK r \in Seq(C), c \in C : s = Append(r, c)
    BY <1>3, SequenceEmptyOrAppend
  <1>5. Len(r) \in Nat /\ Len(s) = Len(r) + 1
    BY <1>4
  <1>6. Len(r) \in Nat /\ ~(n <= Len(r))
    BY <1>2, <1>5
  <1>7. r \in T
    BY <1>1, <1>4, <1>6
  <1> QED
    BY <1>2, <1>4, <1>7
----------------------------------------------------------------------------
(* Trimming. *)

\* s without the characters of P at its ends runs from the a-th to the b-th.
Keeps(s, P, a, b) ==
    /\ a \in 1..Len(s) /\ s[a] \notin P
    /\ b \in 1..Len(s) /\ s[b] \notin P
    /\ \A j \in 1..Len(s) : s[j] \notin P => a <= j /\ j <= b

LEMMA TrimmedIs ==
  ASSUME NEW C, NEW s \in Seq(C), NEW P, NEW a, NEW b, Keeps(s, P, a, b)
  PROVE  Trimmed(s, P) = SubSeq(s, a, b)
  <1> DEFINE kept  == {i \in DOMAIN s : s[i] \notin P}
             first == CHOOSE i \in kept : \A j \in kept : i <= j
             last  == CHOOSE i \in kept : \A j \in kept : i >= j
  <1>1. Len(s) \in Nat /\ DOMAIN s = 1..Len(s)
    OBVIOUS
  <1>2. a \in kept /\ b \in kept /\ \A j \in kept : j \in Int /\ a <= j /\ j <= b
    BY <1>1 DEF Keeps
  <1>3. first = a
    <2> HIDE DEF kept
    <2>1. first \in kept /\ first <= a
      BY <1>2
    <2> HIDE DEF first
    <2> QED
      BY <1>2, <2>1
  <1>4. last = b
    <2> HIDE DEF kept
    <2>1. last \in kept /\ last >= b
      BY <1>2
    <2> HIDE DEF last
    <2> QED
      BY <1>2, <2>1
  <1>5. Trimmed(s, P) = SubSeq(s, first, last)
    BY <1>2 DEF Trimmed
  <1> HIDE DEF first, last
  <1> QED
    BY <1>3, <1>4, <1>5

\* Nothing is trimmed from a text whose ends stay.
LEMMA TrimmedNothing ==
  ASSUME NEW C, NEW s \in Seq(C), s # <<>>, NEW P, s[1] \notin P, s[Len(s)] \notin P
  PROVE  Trimmed(s, P) = s
  <1>1. Len(s) \in Nat /\ Len(s) # 0
    BY EmptySeq
  <1>2. Keeps(s, P, 1, Len(s))
    BY <1>1 DEF Keeps
  <1> QED
    BY <1>2, TrimmedIs, SubSeqFull

\* Everything is trimmed, or there are a first and a last character to stay.
LEMMA TrimmedCases ==
  ASSUME NEW C, NEW s \in Seq(C), NEW P
  PROVE  \/ Trimmed(s, P) = <<>> /\ \A i \in 1..Len(s) : s[i] \in P
         \/ \E a, b \in 1..Len(s) : /\ Keeps(s, P, a, b) /\ a <= b
                                    /\ Trimmed(s, P) = SubSeq(s, a, b)
  <1> DEFINE kept == {i \in DOMAIN s : s[i] \notin P}
             left == {Len(s) - i : i \in kept}
  <1>1. Len(s) \in Nat /\ DOMAIN s = 1..Len(s)
    OBVIOUS
  <1>2. CASE kept = {}
    <2>1. Trimmed(s, P) = <<>>
      BY <1>2 DEF Trimmed
    <2> QED
      BY <1>1, <1>2, <2>1
  <1>3. CASE kept # {}
    <2>1. kept \subseteq Nat /\ left \subseteq Nat /\ left # {}
      BY <1>1, <1>3
    <2>2. PICK a \in kept : \A j \in kept : a <= j
      <3> HIDE DEF kept
      <3> QED
        BY <1>3, <2>1, LeastNumber
    <2>3. PICK m \in left : \A k \in left : m <= k
      <3> HIDE DEF left
      <3> QED
        BY <2>1, LeastNumber
    <2>4. PICK b \in kept : m = Len(s) - b
      BY <2>3
    <2>5. \A j \in kept : j <= b
      <3> SUFFICES ASSUME NEW j \in kept
                   PROVE  j <= b
        OBVIOUS
      <3>1. Len(s) - b <= Len(s) - j
        BY <2>3, <2>4
      <3> QED
        BY <1>1, <2>1, <3>1
    <2>6. Keeps(s, P, a, b) /\ a \in 1..Len(s) /\ b \in 1..Len(s) /\ a <= b
      BY <1>1, <2>2, <2>5 DEF Keeps
    <2> HIDE DEF kept, left
    <2>7. Trimmed(s, P) = SubSeq(s, a, b)
      BY <2>6, TrimmedIs
    <2> QED
      BY <2>6, <2>7
  <1> QED
    BY <1>2, <1>3

----------------------------------------------------------------------------
(* The scalars of the frontmatter. *)

\* What has been read back from a text.
Unread(text) == IF text.held THEN Append(text.out, Backslash) ELSE text.out

UnescapeStates == [out : Seq(Chars), held : BOOLEAN]

LEMMA SpecialCharacters == {Backslash, DoubleQuote} \subseteq Chars
  BY TextsAssumption

LEMMA EscapeOne ==
  ASSUME NEW ch \in Chars, NEW s \in Seq(Chars), NEW c \in Chars, Escaped(s, ch) \in Seq(Chars)
  PROVE  Escaped(Append(s, c), ch) = IF c = ch THEN Append(Append(Escaped(s, ch), Backslash), c)
                                     ELSE Append(Escaped(s, ch), c)
  <1> DEFINE e == Escaped(s, ch)
  <1>1. Escaped(Append(s, c), ch) = EscapeStep(ch)[e][c]
    BY ScanAppend DEF Escaped
  <1>2. EscapeStep(ch)[e][c] = e \o (IF c = ch THEN <<Backslash, c>> ELSE <<c>>)
    BY DEF EscapeStep
  <1> HIDE DEF e
  <1>3. e \o <<Backslash, c>> = Append(Append(e, Backslash), c) /\ e \o <<c>> = Append(e, c)
    <2>1. e \in Seq(Chars)
      BY DEF e
    <2> QED
      BY <2>1, SpecialCharacters
  <1> QED
    BY <1>1, <1>2, <1>3 DEF e

LEMMA EscapedIsText ==
  ASSUME NEW ch \in Chars, NEW s \in Seq(Chars)
  PROVE  Escaped(s, ch) \in Seq(Chars)
  <1> DEFINE T == {t \in Seq(Chars) : Escaped(t, ch) \in Seq(Chars)}
  <1>1. <<>> \in T
    <2>1. Escaped(<<>>, ch) = <<>>
      BY ScanEmpty DEF Escaped
    <2> QED
      BY <2>1, EmptySeq
  <1>2. ASSUME NEW t \in T \cap Seq(Chars), NEW c \in Chars
        PROVE  Append(t, c) \in T
    <2> DEFINE e == Escaped(t, ch)
    <2>1. e \in Seq(Chars) /\ t \in Seq(Chars)
      OBVIOUS
    <2>2. Escaped(Append(t, c), ch) = IF c = ch THEN Append(Append(e, Backslash), c)
                                      ELSE Append(e, c)
      BY <2>1, EscapeOne
    <2> HIDE DEF e
    <2>3. /\ Append(Append(e, Backslash), c) \in Seq(Chars) /\ Append(e, c) \in Seq(Chars)
          /\ Append(t, c) \in Seq(Chars)
      BY <2>1, SpecialCharacters
    <2>4. Escaped(Append(t, c), ch) \in Seq(Chars)
      BY <2>2, <2>3
    <2> QED
      BY <2>3, <2>4
  <1> HIDE DEF T
  <1>3. Seq(Chars) \subseteq T
    BY <1>1, <1>2, AllTexts
  <1> QED
    BY <1>3 DEF T

UnescapeState(s, ch) == Scan(UnescapeStep(ch), [out |-> <<>>, held |-> FALSE], s)

LEMMA UnescapeOne ==
  ASSUME NEW ch \in Chars, NEW s \in Seq(Chars), NEW c \in Chars,
         UnescapeState(s, ch) \in UnescapeStates
  PROVE  LET before == UnescapeState(s, ch)
             after  == UnescapeState(Append(s, c), ch)
         IN  /\ after \in UnescapeStates
             /\ before.held => after = IF c = ch
                                       THEN [out |-> Append(before.out, c), held |-> FALSE]
                                       ELSE IF c = Backslash
                                       THEN [out |-> Append(before.out, c), held |-> TRUE]
                                       ELSE [out |-> Append(Append(before.out, Backslash), c),
                                             held |-> FALSE]
             /\ ~before.held => after = IF c = Backslash
                                        THEN [out |-> before.out, held |-> TRUE]
                                        ELSE [out |-> Append(before.out, c), held |-> FALSE]
  <1> DEFINE before == UnescapeState(s, ch)
             after  == UnescapeState(Append(s, c), ch)
  <1>1. after = UnescapeStep(ch)[before][c]
    BY ScanAppend DEF UnescapeState
  <1> HIDE DEF before, after
  <1>2. PICK o \in Seq(Chars), h \in BOOLEAN : before = [out |-> o, held |-> h]
    BY DEF UnescapeStates, before
  <1>3. after = IF h THEN IF c = ch THEN [out |-> Append(o, c), held |-> FALSE]
                          ELSE IF c = Backslash THEN [out |-> Append(o, c), held |-> TRUE]
                          ELSE [out |-> o \o <<Backslash, c>>, held |-> FALSE]
                ELSE IF c = Backslash THEN [out |-> o, held |-> TRUE]
                ELSE [out |-> Append(o, c), held |-> FALSE]
    <2>1. before \in [out : Seq(Chars), held : BOOLEAN] /\ before.held = h /\ before.out = o
      BY <1>2
    <2>2. after = IF before.held
                  THEN IF c = ch THEN [out |-> Append(before.out, c), held |-> FALSE]
                       ELSE IF c = Backslash THEN [out |-> Append(before.out, c), held |-> TRUE]
                       ELSE [out |-> before.out \o <<Backslash, c>>, held |-> FALSE]
                  ELSE IF c = Backslash THEN [out |-> before.out, held |-> TRUE]
                  ELSE [out |-> Append(before.out, c), held |-> FALSE]
      BY <1>1, <2>1, Zenon DEF UnescapeStep
    <2> QED
      BY <2>1, <2>2
  <1>4. o \o <<Backslash, c>> = Append(Append(o, Backslash), c)
    BY SpecialCharacters
  <1>5. /\ Append(o, c) \in Seq(Chars) /\ Append(o, Backslash) \in Seq(Chars)
        /\ Append(Append(o, Backslash), c) \in Seq(Chars)
    BY SpecialCharacters
  <1>6. before.held = h /\ before.out = o
    BY <1>2
  <1>7. after \in UnescapeStates
    BY <1>3, <1>4, <1>5 DEF UnescapeStates
  <1> QED
    BY <1>3, <1>4, <1>6, <1>7 DEF before, after

\* Of what Escaped wrote, Unescaped has read back just the text, whether or not
\* it holds a backslash.
LEMMA ReadsBack ==
  ASSUME NEW ch \in {Backslash, DoubleQuote}, NEW s \in Seq(Chars)
  PROVE  Unescaped(Escaped(s, ch), ch) = s
  <1> DEFINE State(t) == UnescapeState(Escaped(t, ch), ch)
             T == {t \in Seq(Chars) : State(t) \in UnescapeStates /\ Unread(State(t)) = t}
  <1>1. ch \in Chars /\ Backslash \in Chars /\ DoubleQuote # Backslash
    BY SpecialCharacters DEF Backslash, DoubleQuote
  <1>2. <<>> \in T
    <2>1. Escaped(<<>>, ch) = <<>>
      BY ScanEmpty DEF Escaped
    <2>2. UnescapeState(<<>>, ch) = [out |-> <<>>, held |-> FALSE]
      BY ScanEmpty DEF UnescapeState
    <2>3. State(<<>>) = [out |-> <<>>, held |-> FALSE]
      BY <2>1, <2>2
    <2>4. [out |-> <<>>, held |-> FALSE] \in UnescapeStates
      BY EmptySeq DEF UnescapeStates
    <2>5. Unread([out |-> <<>>, held |-> FALSE]) = <<>>
      BY DEF Unread
    <2>6. <<>> \in Seq(Chars)
      BY EmptySeq
    <2> HIDE DEF State
    <2> QED
      BY <2>3, <2>4, <2>5, <2>6
  <1>3. ASSUME NEW t \in T \cap Seq(Chars), NEW c \in Chars
        PROVE  Append(t, c) \in T
    <2> DEFINE e  == Escaped(t, ch)
               u  == UnescapeState(e, ch)
               u1 == UnescapeState(Append(e, c), ch)
               m  == UnescapeState(Append(e, Backslash), ch)
               u2 == UnescapeState(Append(Append(e, Backslash), c), ch)
    <2>1. e \in Seq(Chars) /\ Append(e, Backslash) \in Seq(Chars)
      BY <1>1, EscapedIsText
    <2>2. u \in UnescapeStates /\ Unread(u) = t
      OBVIOUS
    <2>3. CASE c = ch
      <3>1. State(Append(t, c)) = u2
        BY <1>1, <2>1, <2>3, EscapeOne
      <3>2. /\ m \in UnescapeStates
            /\ u.held  => m = [out |-> Append(u.out, Backslash), held |-> ch # Backslash]
            /\ ~u.held => m = [out |-> u.out, held |-> TRUE]
        BY <1>1, <2>1, <2>2, UnescapeOne
      <3>3. /\ u2 \in UnescapeStates
            /\ m.held  => u2 = [out |-> Append(m.out, c), held |-> FALSE]
            /\ ~m.held => u2 = IF c = Backslash THEN [out |-> m.out, held |-> TRUE]
                               ELSE [out |-> Append(m.out, c), held |-> FALSE]
        BY <1>1, <2>1, <2>3, <3>2, UnescapeOne
      <3> HIDE DEF u, m, u2
      <3>4. m.out = t
        <4>1. u.held => m.out = Append(u.out, Backslash)
          BY <3>2
        <4>2. ~u.held => m.out = u.out
          BY <3>2
        <4> QED
          BY <2>2, <4>1, <4>2 DEF Unread
      <3>5. Unread(u2) = Append(t, c)
        <4>1. CASE m.held
          BY <3>3, <3>4, <4>1 DEF Unread
        <4>2. CASE ~m.held
          <5>1. ch = Backslash
            BY <3>2, <4>2, <2>2 DEF UnescapeStates
          <5> QED
            BY <2>3, <3>3, <3>4, <4>2, <5>1 DEF Unread
        <4> QED
          BY <4>1, <4>2
      <3> QED
        BY <3>1, <3>3, <3>5
    <2>4. CASE c # ch
      <3>1. State(Append(t, c)) = u1
        BY <1>1, <2>1, <2>4, EscapeOne
      <3>2. /\ u1 \in UnescapeStates
            /\ u.held  => u1 = IF c = Backslash THEN [out |-> Append(u.out, c), held |-> TRUE]
                               ELSE [out |-> Append(Append(u.out, Backslash), c), held |-> FALSE]
            /\ ~u.held => u1 = IF c = Backslash THEN [out |-> u.out, held |-> TRUE]
                               ELSE [out |-> Append(u.out, c), held |-> FALSE]
        BY <1>1, <2>1, <2>2, <2>4, UnescapeOne
      <3> HIDE DEF u, u1
      <3>3. Unread(u1) = Append(t, c)
        <4>1. CASE u.held
          <5>1. t = Append(u.out, Backslash)
            BY <2>2, <4>1 DEF Unread
          <5>2. CASE c = Backslash
            <6>1. u1.held /\ u1.out = Append(u.out, Backslash)
              BY <3>2, <4>1, <5>2
            <6> QED
              BY <5>1, <5>2, <6>1, Zenon DEF Unread
          <5>3. CASE c # Backslash
            <6>1. ~u1.held /\ u1.out = Append(Append(u.out, Backslash), c)
              BY <3>2, <4>1, <5>3
            <6> QED
              BY <5>1, <6>1, Zenon DEF Unread
          <5> QED
            BY <5>2, <5>3
        <4>2. CASE ~u.held
          BY <2>2, <3>2, <4>2 DEF Unread
        <4> QED
          BY <4>1, <4>2
      <3> QED
        BY <3>1, <3>2, <3>3
    <2> QED
      BY <2>3, <2>4
  <1> HIDE DEF T
  <1>4. Seq(Chars) \subseteq T
    BY <1>2, <1>3, AllTexts
  <1>5. Unread(State(s)) = s
    BY <1>4 DEF T
  <1> QED
    BY <1>5 DEF Unescaped, UnescapeState, Unread

LEMMA QuotedReadsBack ==
  ASSUME NEW s \in Seq(Chars)
  PROVE  Unquote(Quote(s)) = s
  <1> DEFINE e == Escaped(Escaped(s, Backslash), DoubleQuote)
             q == <<DoubleQuote>> \o e \o <<DoubleQuote>>
  <1>1. Quote(s) = q
    BY DEF Quote
  <1>2. Escaped(s, Backslash) \in Seq(Chars) /\ e \in Seq(Chars)
    BY SpecialCharacters, EscapedIsText
  <1>3. Unescaped(Unescaped(e, DoubleQuote), Backslash) = s
    BY <1>2, ReadsBack
  <1> HIDE DEF e
  <1>4. /\ q \in Seq(Chars) /\ Len(q) = Len(e) + 2 /\ Len(e) \in Nat
        /\ q[1] = DoubleQuote /\ q[Len(q)] = DoubleQuote
        /\ \A i \in 1..Len(e) : q[i + 1] = e[i]
    BY <1>2, SpecialCharacters
  <1> HIDE DEF q
  <1>5. Trimmed(q, Blanks) = q
    <2>1. DoubleQuote \notin Blanks
      BY TextsAssumption
    <2>2. q # <<>>
      BY <1>4, EmptySeq
    <2> QED
      BY <1>4, <2>1, <2>2, TrimmedNothing
  <1>6. SubSeq(q, 2, Len(q) - 1) = e
    <2> DEFINE m == SubSeq(q, 2, Len(q) - 1)
    <2>1. /\ m \in Seq(Chars) /\ Len(m) = Len(e)
          /\ \A i \in 1..Len(e) : m[i] = q[i + 1]
      BY <1>4
    <2> HIDE DEF m
    <2>2. \A i \in 1..Len(m) : m[i] = e[i]
      BY <1>4, <2>1
    <2>3. m = e
      BY <1>2, <2>1, <2>2, SeqEqual
    <2> QED
      BY <2>3 DEF m
  <1>7. Len(q) >= 2 /\ Last(q) = DoubleQuote
    BY <1>4 DEF Last
  <1> QED
    BY <1>1, <1>3, <1>4, <1>5, <1>6, <1>7 DEF Unquote
----------------------------------------------------------------------------
(* Stored names. *)

Puncts == Connectors \cup {":"}
Ink    == Alphanumerics \cup Puncts

\* A text in which no two connectors or separators meet, as normalize_key
\* leaves it.
Regular(t) ==
    /\ t \in Seq(Ink)
    /\ \A i \in 1..(Len(t) - 1) : t[i] \in Alphanumerics \/ t[i + 1] \in Alphanumerics

\* It ends where a connector may follow.
Extensible(t) == t = <<>> \/ t[Len(t)] \in Alphanumerics

Whole(key) ==
    /\ key \in KeyStates
    /\ Regular(key.out)
    /\ key.last = "plain" <=> Extensible(key.out)

LEMMA InkChars ==
  /\ Ink \subseteq Chars /\ Alphanumerics \subseteq Chars /\ Blanks \subseteq Chars
  /\ "-" \in Connectors /\ Connectors \subseteq Ink /\ ":" \in Ink /\ ":" \in Chars
  /\ \A c \in Alphanumerics : c \notin Blanks /\ c \notin Connectors /\ c # ":" /\ c \notin Puncts
  /\ \A c \in Blanks : c \notin Connectors /\ c # ":" /\ c \notin Puncts
  /\ \A c \in Connectors : c # ":"
  /\ \A c \in Ink : c \notin Blanks /\ (c \in Alphanumerics \/ c \in Puncts)
  BY TextsAssumption DEF Ink, Puncts, Connectors

LEMMA RegularIsText ==
  ASSUME NEW t, Regular(t)
  PROVE  t \in Seq(Chars) /\ t \in Seq(Ink) /\ Len(t) \in Nat
  <1>1. t \in Seq(Ink)
    BY DEF Regular
  <1>2. t \in Seq(Chars)
    BY <1>1, InkChars, SeqMonotonic
  <1> QED
    BY <1>1, <1>2

LEMMA RegularAppend ==
  ASSUME NEW t, Regular(t), NEW c \in Ink, Extensible(t) \/ c \in Alphanumerics
  PROVE  /\ Regular(Append(t, c))
         /\ Extensible(Append(t, c)) <=> c \in Alphanumerics
  <1> DEFINE u == Append(t, c)
  <1>1. t \in Seq(Ink) /\ Len(t) \in Nat
    BY RegularIsText
  <1>2. /\ u \in Seq(Ink) /\ u # <<>> /\ Len(u) = Len(t) + 1
        /\ \A i \in 1..Len(t) : u[i] = t[i]
        /\ u[Len(t) + 1] = c
    BY <1>1, AppendProperties
  <1> HIDE DEF u
  <1>3. ASSUME NEW i \in 1..(Len(u) - 1)
        PROVE  u[i] \in Alphanumerics \/ u[i + 1] \in Alphanumerics
    <2>1. CASE i = Len(t)
      <3>1. t # <<>>
        BY <1>1, <2>1, <1>2, EmptySeq
      <3> QED
        BY <1>1, <1>2, <2>1, <3>1 DEF Extensible
    <2>2. CASE i # Len(t)
      <3>1. i \in 1..(Len(t) - 1) /\ i \in 1..Len(t) /\ i + 1 \in 1..Len(t)
        BY <1>1, <1>2, <2>2
      <3> QED
        BY <1>2, <3>1 DEF Regular
    <2> QED
      BY <2>1, <2>2
  <1>4. Regular(u)
    BY <1>2, <1>3 DEF Regular
  <1>5. Extensible(u) <=> c \in Alphanumerics
    BY <1>2 DEF Extensible
  <1> QED
    BY <1>4, <1>5 DEF u

LEMMA RegularPart ==
  ASSUME NEW t, Regular(t), NEW a \in Nat \ {0}, NEW b \in Nat, b <= Len(t)
  PROVE  /\ Regular(SubSeq(t, a, b))
         /\ Len(SubSeq(t, a, b)) = IF a <= b THEN b - a + 1 ELSE 0
         /\ \A i \in 1..(b - a + 1) : SubSeq(t, a, b)[i] = t[a + i - 1]
  <1> DEFINE u == SubSeq(t, a, b)
  <1>1. t \in Seq(Ink) /\ Len(t) \in Nat /\ \A i \in a..b : t[i] \in Ink
    BY RegularIsText
  <1>2. /\ u \in Seq(Ink)
        /\ Len(u) = IF a <= b THEN b - a + 1 ELSE 0
        /\ \A i \in 1..(b - a + 1) : u[i] = t[a + i - 1]
    BY <1>1, SubSeqProperties
  <1> HIDE DEF u
  <1>3. ASSUME NEW i \in 1..(Len(u) - 1)
        PROVE  u[i] \in Alphanumerics \/ u[i + 1] \in Alphanumerics
    <2>1. /\ i \in 1..(b - a + 1) /\ i + 1 \in 1..(b - a + 1)
          /\ a + i - 1 \in 1..(Len(t) - 1) /\ a + (i + 1) - 1 = (a + i - 1) + 1
      BY <1>1, <1>2
    <2> QED
      BY <1>2, <2>1 DEF Regular
  <1>4. Regular(u)
    BY <1>2, <1>3 DEF Regular
  <1> QED
    BY <1>2, <1>4 DEF u

\* What a separator leaves of the name so far: not the connector at its end.
Base(key) == IF key.last = "plain" THEN key.out ELSE Front(key.out)

LEMMA BaseIsReady ==
  ASSUME NEW key, Whole(key)
  PROVE  /\ Regular(Base(key)) /\ Extensible(Base(key))
         /\ key.last = "plain" => Base(key) = key.out
         /\ key.last # "plain" => /\ key.out # <<>>
                                  /\ key.out[Len(key.out)] \in Puncts
                                  /\ key.out = Append(Base(key), key.out[Len(key.out)])
  <1> DEFINE t == key.out
             f == Front(t)
  <1>1. Regular(t) /\ t \in Seq(Ink) /\ Len(t) \in Nat
    BY RegularIsText DEF Whole
  <1>2. CASE key.last = "plain"
    BY <1>1, <1>2 DEF Whole, Base
  <1>3. CASE key.last # "plain"
    <2>1. t # <<>> /\ t[Len(t)] \notin Alphanumerics
      BY <1>3 DEF Whole, Extensible
    <2>2. Len(t) # 0
      BY <1>1, <2>1, EmptySeq
    <2>3. t[Len(t)] \in Ink
      BY <1>1, <2>2, ElementOfSeq
    <2>4. t[Len(t)] \in Puncts
      BY <2>1, <2>3, InkChars
    <2>5. f = SubSeq(t, 1, Len(t) - 1)
      BY DEF Front
    <2>6. /\ Regular(f) /\ Len(f) = Len(t) - 1
          /\ \A i \in 1..(Len(t) - 1) : f[i] = t[i]
      <3>1. Len(t) - 1 \in Nat /\ Len(t) - 1 <= Len(t) /\ (Len(t) - 1) - 1 + 1 = Len(t) - 1
        BY <1>1, <2>2
      <3>2. /\ Regular(f) /\ Len(f) = IF 1 <= Len(t) - 1 THEN (Len(t) - 1) - 1 + 1 ELSE 0
            /\ \A i \in 1..((Len(t) - 1) - 1 + 1) : f[i] = t[1 + i - 1]
        <4> HIDE DEF t, f
        <4> QED
          BY <1>1, <2>5, <3>1, RegularPart
      <3> HIDE DEF t, f
      <3>3. Len(f) = Len(t) - 1
        <4>1. Len(f) = IF 1 <= Len(t) - 1 THEN (Len(t) - 1) - 1 + 1 ELSE 0
          BY <3>2
        <4>2. \A n \in Nat : n = IF 1 <= n THEN n - 1 + 1 ELSE 0
          OBVIOUS
        <4> QED
          BY <3>1, <4>1, <4>2
      <3>4. \A i \in 1..(Len(t) - 1) : 1 + i - 1 = i
        OBVIOUS
      <3> QED
        BY <3>1, <3>2, <3>3, <3>4
    <2> HIDE DEF f, t
    <2>7. Extensible(f)
      <3>1. f = <<>> \/ Len(f) # 0
        BY <2>6, RegularIsText, EmptySeq
      <3>2. ASSUME Len(f) # 0
            PROVE  f[Len(f)] \in Alphanumerics
        <4>1. /\ Len(t) - 1 \in 1..(Len(t) - 1) /\ (Len(t) - 1) + 1 = Len(t)
          BY <1>1, <2>6, <3>2, <2>2
        <4>2. t[Len(t) - 1] \in Alphanumerics
          BY <1>1, <2>1, <4>1 DEF Regular
        <4> QED
          BY <2>6, <4>1, <4>2
      <3> QED
        BY <3>1, <3>2 DEF Extensible
    <2>8. t = Append(f, t[Len(t)])
      <3> DEFINE u == Append(f, t[Len(t)])
      <3>1. f \in Seq(Ink)
        BY <2>6, RegularIsText
      <3>2. /\ u \in Seq(Ink) /\ Len(u) = Len(f) + 1 /\ u[Len(f) + 1] = t[Len(t)]
            /\ \A i \in 1..Len(f) : u[i] = f[i]
        BY <2>3, <3>1, AppendProperties
      <3> HIDE DEF u
      <3>3. Len(u) = Len(t) /\ Len(f) + 1 = Len(t)
        BY <1>1, <2>6, <3>2
      <3>4. \A i \in 1..Len(t) : i \in 1..Len(f) \/ i = Len(f) + 1
        BY <1>1, <3>3
      <3>5. \A i \in 1..Len(t) : u[i] = t[i]
        BY <2>6, <3>2, <3>3, <3>4
      <3>6. u = t
        BY <1>1, <3>2, <3>3, <3>5, SeqEqual
      <3> QED
        BY <3>6 DEF u
    <2>9. Base(key) = f
      BY <1>3 DEF Base, f, t
    <2> QED
      BY <1>3, <2>1, <2>4, <2>6, <2>7, <2>8, <2>9 DEF t
  <1> QED
    BY <1>2, <1>3

KeyState(s) == Scan(KeyStep, [out |-> <<>>, last |-> "plain"], s)

\* What normalize_key does with one more character.
LEMMA KeyOne ==
  ASSUME NEW s \in Seq(Chars), NEW c \in Chars, KeyState(s) \in KeyStates
  PROVE  LET key == KeyState(s)
         IN  KeyState(Append(s, c)) =
               IF c \in Alphanumerics THEN [out |-> Append(key.out, c), last |-> "plain"]
               ELSE IF c = ":" THEN [out |-> Append(Base(key), ":"), last |-> "separator"]
               ELSE IF c \in Connectors \cup Blanks /\ key.last = "plain"
               THEN [out |-> Append(key.out, IF c \in Blanks THEN "-" ELSE c), last |-> "connector"]
               ELSE key
  <1> DEFINE key == KeyState(s)
  <1>1. KeyState(Append(s, c)) = KeyStep[key][c]
    BY ScanAppend DEF KeyState
  <1> HIDE DEF key
  <1>2. key \in KeyStates
    BY DEF key
  <1> QED
    BY <1>1, <1>2, Zenon DEF KeyStep, Base, key

LEMMA WholeOne ==
  ASSUME NEW s \in Seq(Chars), NEW c \in Chars, Whole(KeyState(s))
  PROVE  Whole(KeyState(Append(s, c)))
  <1> DEFINE key  == KeyState(s)
             next == KeyState(Append(s, c))
             put  == IF c \in Blanks THEN "-" ELSE c
  <1>1. Whole(key) /\ key \in KeyStates /\ Regular(key.out)
    BY DEF Whole
  <1>2. next = IF c \in Alphanumerics THEN [out |-> Append(key.out, c), last |-> "plain"]
               ELSE IF c = ":" THEN [out |-> Append(Base(key), ":"), last |-> "separator"]
               ELSE IF c \in Connectors \cup Blanks /\ key.last = "plain"
               THEN [out |-> Append(key.out, put), last |-> "connector"]
               ELSE key
    BY <1>1, KeyOne
  <1> SUFFICES Whole(next)
    OBVIOUS
  <1> HIDE DEF key, next
  <1>3. ASSUME NEW t, Regular(t), NEW last \in {"plain", "connector", "separator"},
               last = "plain" <=> Extensible(t), next = [out |-> t, last |-> last]
        PROVE  Whole(next)
    <2>1. t \in Seq(Chars)
      BY <1>3, RegularIsText
    <2>2. next \in KeyStates /\ next.out = t /\ next.last = last
      BY <1>3, <2>1 DEF KeyStates
    <2> QED
      BY <1>3, <2>2 DEF Whole
  <1>4. CASE c \in Alphanumerics
    <2>1. c \in Ink
      BY <1>4 DEF Ink
    <2>2. Regular(Append(key.out, c)) /\ Extensible(Append(key.out, c))
      BY <1>1, <1>4, <2>1, RegularAppend
    <2>3. next = [out |-> Append(key.out, c), last |-> "plain"]
      BY <1>2, <1>4
    <2> QED
      BY <1>3, <2>2, <2>3, Zenon
  <1>5. CASE c = ":"
    <2>1. Regular(Base(key)) /\ Extensible(Base(key))
      BY <1>1, BaseIsReady
    <2>2. Regular(Append(Base(key), ":")) /\ ~Extensible(Append(Base(key), ":"))
      BY <2>1, InkChars, RegularAppend
    <2>3. next = [out |-> Append(Base(key), ":"), last |-> "separator"]
      BY <1>2, <1>5, InkChars, Zenon
    <2>4. "separator" \in {"plain", "connector", "separator"} /\ "separator" # "plain"
      OBVIOUS
    <2> QED
      BY <1>3, <2>2, <2>3, <2>4, Zenon
  <1>6. CASE c \in Connectors \cup Blanks /\ key.last = "plain"
    <2>1. put \in Ink /\ put \notin Alphanumerics /\ c \notin Alphanumerics /\ c # ":"
      BY <1>6, InkChars
    <2>2. Extensible(key.out)
      BY <1>1, <1>6 DEF Whole
    <2> HIDE DEF put
    <2>3. Regular(Append(key.out, put)) /\ ~Extensible(Append(key.out, put))
      BY <1>1, <2>1, <2>2, RegularAppend
    <2>4. next = [out |-> Append(key.out, put), last |-> "connector"]
      BY <1>2, <1>6, <2>1, Zenon
    <2>5. "connector" \in {"plain", "connector", "separator"} /\ "connector" # "plain"
      OBVIOUS
    <2> QED
      BY <1>3, <2>3, <2>4, <2>5, Zenon
  <1>7. CASE c \notin Alphanumerics /\ c # ":" /\ ~(c \in Connectors \cup Blanks /\ key.last = "plain")
    <2>1. next = key
      BY <1>2, <1>7, Zenon
    <2> QED
      BY <1>1, <2>1, Zenon
  <1> QED
    BY <1>4, <1>5, <1>6, <1>7, Zenon

LEMMA KeysWhole ==
  ASSUME NEW s \in Seq(Chars)
  PROVE  Whole(KeyState(s))
  <1> DEFINE T == {t \in Seq(Chars) : Whole(KeyState(t))}
  <1>1. <<>> \in T
    <2>1. KeyState(<<>>) = [out |-> <<>>, last |-> "plain"]
      BY ScanEmpty DEF KeyState
    <2>2. <<>> \in Seq(Chars) /\ <<>> \in Seq(Ink) /\ Len(<<>>) = 0
      BY EmptySeq
    <2>3. [out |-> <<>>, last |-> "plain"] \in KeyStates
      BY <2>2 DEF KeyStates
    <2>4. Regular(<<>>) /\ Extensible(<<>>)
      BY <2>2 DEF Regular, Extensible
    <2>5. Whole([out |-> <<>>, last |-> "plain"])
      BY <2>3, <2>4 DEF Whole
    <2> QED
      BY <2>1, <2>2, <2>5
  <1>2. ASSUME NEW t \in T \cap Seq(Chars), NEW c \in Chars
        PROVE  Append(t, c) \in T
    <2>1. Append(t, c) \in Seq(Chars)
      OBVIOUS
    <2> QED
      BY <2>1, WholeOne
  <1> HIDE DEF T
  <1>3. Seq(Chars) \subseteq T
    BY <1>1, <1>2, AllTexts
  <1> QED
    BY <1>3 DEF T
\* What normalize_key wrote it writes again.
LEMMA RegularStays ==
  ASSUME NEW s, Regular(s)
  PROVE  KeyState(s).out = s
  <1> DEFINE T == {t \in Seq(Ink) : Regular(t) => KeyState(t).out = t}
  <1>1. <<>> \in T
    <2>1. KeyState(<<>>) = [out |-> <<>>, last |-> "plain"]
      BY ScanEmpty DEF KeyState
    <2> QED
      BY <2>1, EmptySeq
  <1>2. ASSUME NEW t \in T \cap Seq(Ink), NEW c \in Ink
        PROVE  Append(t, c) \in T
    <2> DEFINE u    == Append(t, c)
               key  == KeyState(t)
               next == KeyState(u)
    <2>1. /\ u \in Seq(Ink) /\ Len(u) = Len(t) + 1 /\ Len(t) \in Nat /\ t \in Seq(Ink)
          /\ u[Len(t) + 1] = c /\ \A i \in 1..Len(t) : u[i] = t[i]
      BY AppendProperties
    <2> SUFFICES ASSUME Regular(u)
                 PROVE  next.out = u
      BY <2>1
    <2>2. Regular(t)
      <3> HIDE DEF u
      <3>1. ASSUME NEW i \in 1..(Len(t) - 1)
            PROVE  t[i] \in Alphanumerics \/ t[i + 1] \in Alphanumerics
        <4>1. i \in 1..(Len(u) - 1) /\ i \in 1..Len(t) /\ i + 1 \in 1..Len(t)
          BY <2>1
        <4> QED
          BY <2>1, <4>1 DEF Regular
      <3> QED
        BY <2>1, <3>1 DEF Regular
    <2>3. key.out = t
      BY <2>2
    <2>4. t \in Seq(Chars) /\ c \in Chars
      BY <2>2, RegularIsText, InkChars
    <2>5. Whole(key) /\ key \in KeyStates
      BY <2>4, KeysWhole DEF Whole
    <2>6. next = IF c \in Alphanumerics THEN [out |-> Append(key.out, c), last |-> "plain"]
                 ELSE IF c = ":" THEN [out |-> Append(Base(key), ":"), last |-> "separator"]
                 ELSE IF c \in Connectors \cup Blanks /\ key.last = "plain"
                 THEN [out |-> Append(key.out, IF c \in Blanks THEN "-" ELSE c),
                       last |-> "connector"]
                 ELSE key
      BY <2>4, <2>5, KeyOne
    <2> HIDE DEF key, next
    <2>7. CASE c \in Alphanumerics
      BY <2>3, <2>6, <2>7
    <2>8. CASE c \notin Alphanumerics
      <3>1. Extensible(t)
        <4> HIDE DEF u
        <4>1. ASSUME t # <<>>
              PROVE  t[Len(t)] \in Alphanumerics
          <5>1. Len(t) # 0
            BY <2>1, <4>1, EmptySeq
          <5>2. Len(t) \in 1..(Len(u) - 1) /\ Len(t) \in 1..Len(t)
            BY <2>1, <5>1
          <5>3. u[Len(t)] \in Alphanumerics \/ u[Len(t) + 1] \in Alphanumerics
            BY <5>2 DEF Regular
          <5> QED
            BY <2>1, <2>8, <5>2, <5>3
        <4> QED
          BY <4>1 DEF Extensible
      <3>2. key.last = "plain" /\ Base(key) = t
        BY <2>3, <2>5, <3>1 DEF Whole, Base
      <3>3. c \notin Blanks /\ (c \in Connectors \/ c = ":")
        BY <2>8, InkChars DEF Puncts
      <3> QED
        BY <2>3, <2>6, <2>8, <3>2, <3>3
    <2> QED
      BY <2>7, <2>8
  <1> HIDE DEF T
  <1>3. Seq(Ink) \subseteq T
    BY <1>1, <1>2, AllTexts
  <1>4. s \in Seq(Ink)
    BY RegularIsText
  <1> QED
    BY <1>3, <1>4 DEF T

\* A name once normalized: empty, or from an alphanumeric character to another.
LEMMA NormalShape ==
  ASSUME NEW t, Regular(t)
  PROVE  LET n == Trimmed(t, Puncts)
         IN  /\ Regular(n)
             /\ n # <<>> => n[1] \in Alphanumerics /\ n[Len(n)] \in Alphanumerics
  <1> DEFINE n == Trimmed(t, Puncts)
  <1> SUFFICES Regular(n) /\ (n # <<>> => n[1] \in Alphanumerics /\ n[Len(n)] \in Alphanumerics)
    OBVIOUS
  <1>1. t \in Seq(Ink) /\ Len(t) \in Nat
    BY RegularIsText
  <1>2. CASE n = <<>>
    <2>1. Regular(<<>>)
      BY EmptySeq DEF Regular
    <2> QED
      BY <1>2, <2>1
  <1>3. ASSUME NEW a \in 1..Len(t), NEW b \in 1..Len(t), Keeps(t, Puncts, a, b), a <= b,
               n = SubSeq(t, a, b)
        PROVE  Regular(n) /\ n[1] \in Alphanumerics /\ n[Len(n)] \in Alphanumerics
    <2>1. t[a] \in Alphanumerics /\ t[b] \in Alphanumerics
      BY <1>1, <1>3, ElementOfSeq, InkChars DEF Keeps
    <2>2. a \in Nat \ {0} /\ b \in Nat /\ b <= Len(t)
      BY <1>1
    <2> HIDE DEF n
    <2>3. /\ Regular(n) /\ Len(n) = b - a + 1
          /\ \A i \in 1..(b - a + 1) : n[i] = t[a + i - 1]
      BY <1>3, <2>2, RegularPart
    <2>4. 1 \in 1..(b - a + 1) /\ b - a + 1 \in 1..(b - a + 1) /\ a + 1 - 1 = a
          /\ a + (b - a + 1) - 1 = b
      BY <1>3, <2>2
    <2> QED
      BY <2>1, <2>3, <2>4
  <1>4. n = <<>> \/ \E a, b \in 1..Len(t) : /\ Keeps(t, Puncts, a, b) /\ a <= b
                                            /\ n = SubSeq(t, a, b)
    BY <1>1, TrimmedCases
  <1> HIDE DEF n
  <1> QED
    BY <1>2, <1>3, <1>4

LEMMA TrimmedIsText ==
  ASSUME NEW C, NEW s \in Seq(C), NEW P
  PROVE  Trimmed(s, P) \in Seq(C)
  <1>1. ASSUME NEW a \in 1..Len(s), NEW b \in 1..Len(s)
        PROVE  SubSeq(s, a, b) \in Seq(C)
    <2>1. a \in Int /\ b \in Int /\ \A i \in a..b : s[i] \in C
      BY ElementOfSeq
    <2> QED
      BY <2>1, SubSeqProperties
  <1>2. <<>> \in Seq(C)
    BY EmptySeq
  <1> QED
    BY <1>1, <1>2, TrimmedCases

\* Normalizing twice is normalizing once, whatever the text.
LEMMA NormalTwice ==
  ASSUME NEW s \in Seq(Chars)
  PROVE  NormalizeKey(NormalizeKey(s)) = NormalizeKey(s)
  <1> DEFINE t == KeyState(Trimmed(s, Blanks)).out
             n == Trimmed(t, Puncts)
  <1>1. NormalizeKey(s) = n
    BY DEF NormalizeKey, KeyState, Puncts
  <1>2. Regular(t)
    BY TrimmedIsText, KeysWhole DEF Whole
  <1> HIDE DEF t
  <1>3. Regular(n) /\ (n # <<>> => n[1] \in Alphanumerics /\ n[Len(n)] \in Alphanumerics)
    BY <1>2, NormalShape
  <1> HIDE DEF n
  <1>4. \A P : P \cap Alphanumerics = {} => Trimmed(n, P) = n
    <2> SUFFICES ASSUME NEW P, P \cap Alphanumerics = {}
                 PROVE  Trimmed(n, P) = n
      OBVIOUS
    <2>1. CASE n # <<>>
      BY <1>3, <2>1, RegularIsText, TrimmedNothing
    <2>2. CASE n = <<>>
      <3>1. n \in Seq(Chars) /\ 1..Len(n) = {}
        BY <2>2, EmptySeq
      <3>2. Trimmed(n, P) = <<>> \/ \E a, b \in 1..Len(n) : Keeps(n, P, a, b)
        BY <3>1, TrimmedCases
      <3> QED
        BY <2>2, <3>1, <3>2
    <2> QED
      BY <2>1, <2>2
  <1>5. Trimmed(n, Blanks) = n /\ Trimmed(n, Puncts) = n
    BY <1>4, InkChars
  <1>6. KeyState(n).out = n
    BY <1>3, RegularStays
  <1>7. NormalizeKey(n) = Trimmed(KeyState(Trimmed(n, Blanks)).out, Puncts)
    BY DEF NormalizeKey, KeyState, Puncts
  <1> QED
    BY <1>1, <1>5, <1>6, <1>7
\* Parts of a text with one more character.
LEMMA PartOfLonger ==
  ASSUME NEW C, NEW s \in Seq(C), NEW c \in C, NEW a \in 1..Len(s), NEW b \in a..Len(s)
  PROVE  /\ SubSeq(Append(s, c), a, b) = SubSeq(s, a, b)
         /\ SubSeq(Append(s, c), a, Len(s) + 1) = Append(SubSeq(s, a, Len(s)), c)
  <1> DEFINE t == Append(s, c)
             x == SubSeq(s, a, b)
             y == SubSeq(t, a, b)
             r == SubSeq(s, a, Len(s))
             u == Append(r, c)
             v == SubSeq(t, a, Len(s) + 1)
  <1>1. /\ a \in Int /\ b \in Int /\ Len(s) \in Nat /\ a <= b /\ b <= Len(s) /\ 1 <= a
        /\ Len(s) \in Int /\ Len(s) + 1 \in Int
    OBVIOUS
  <1>2. /\ t \in Seq(C) /\ Len(t) = Len(s) + 1 /\ t[Len(s) + 1] = c
        /\ \A i \in 1..Len(s) : t[i] = s[i]
    BY AppendProperties
  <1>3. /\ \A i \in a..b : s[i] \in C /\ t[i] \in C
        /\ \A i \in a..Len(s) : s[i] \in C
        /\ \A i \in a..(Len(s) + 1) : t[i] \in C
    <2> HIDE DEF t
    <2> QED
      BY <1>1, <1>2, ElementOfSeq
  <1> HIDE DEF t
  <1>4. /\ x \in Seq(C) /\ Len(x) = b - a + 1 /\ \A i \in 1..(b - a + 1) : x[i] = s[a + i - 1]
    BY <1>1, <1>3, SubSeqProperties
  <1>5. /\ y \in Seq(C) /\ Len(y) = b - a + 1 /\ \A i \in 1..(b - a + 1) : y[i] = t[a + i - 1]
    BY <1>1, <1>3, SubSeqProperties
  <1>6. /\ r \in Seq(C) /\ Len(r) = Len(s) - a + 1
        /\ \A i \in 1..(Len(s) - a + 1) : r[i] = s[a + i - 1]
    BY <1>1, <1>3, SubSeqProperties
  <1>7. /\ v \in Seq(C) /\ Len(v) = Len(s) + 1 - a + 1
        /\ \A i \in 1..(Len(s) + 1 - a + 1) : v[i] = t[a + i - 1]
    BY <1>1, <1>3, SubSeqProperties
  <1> HIDE DEF r
  <1>8. u \in Seq(C) /\ Len(u) = Len(r) + 1 /\ u[Len(r) + 1] = c /\ \A i \in 1..Len(r) : u[i] = r[i]
    <2>1. r \in Seq(C)
      BY <1>6
    <2> QED
      BY <2>1, AppendProperties
  <1> HIDE DEF x, y, u, v
  <1>9. x = y
    <2>1. ASSUME NEW i \in 1..Len(x)
          PROVE  x[i] = y[i]
      <3>1. i \in 1..(b - a + 1) /\ a + i - 1 \in 1..Len(s)
        BY <1>1, <1>4
      <3> QED
        BY <1>2, <1>4, <1>5, <3>1
    <2> QED
      BY <1>4, <1>5, <2>1, SeqEqual
  <1>10. u = v
    <2>1. ASSUME NEW i \in 1..Len(u)
          PROVE  u[i] = v[i]
      <3>1. CASE i = Len(r) + 1
        <4>1. i \in 1..(Len(s) + 1 - a + 1) /\ a + i - 1 = Len(s) + 1
          BY <1>1, <1>6, <1>8, <3>1
        <4> QED
          BY <1>2, <1>7, <1>8, <3>1, <4>1
      <3>2. CASE i # Len(r) + 1
        <4>1. /\ i \in 1..(Len(s) + 1 - a + 1) /\ i \in 1..(Len(s) - a + 1) /\ i \in 1..Len(r)
              /\ a + i - 1 \in 1..Len(s)
          BY <1>1, <1>6, <1>8, <3>2
        <4> QED
          BY <1>2, <1>6, <1>7, <1>8, <4>1
      <3> QED
        BY <3>1, <3>2
    <2>2. Len(u) = Len(v)
      BY <1>1, <1>6, <1>7, <1>8
    <2> QED
      BY <1>7, <1>8, <2>1, <2>2, SeqEqual
  <1> QED
    BY <1>9, <1>10 DEF x, y, u, v, r, t

LEMMA KeepsLonger ==
  ASSUME NEW C, NEW s \in Seq(C), NEW c \in C, NEW P, NEW a, NEW b, Keeps(s, P, a, b)
  PROVE  Keeps(Append(s, c), P, a, IF c \in P THEN b ELSE Len(s) + 1)
  <1> DEFINE t == Append(s, c)
  <1>1. /\ Len(s) \in Nat /\ Len(t) = Len(s) + 1 /\ t[Len(s) + 1] = c
        /\ \A i \in 1..Len(s) : t[i] = s[i]
    BY AppendProperties
  <1> HIDE DEF t
  <1>2. \A i \in 1..Len(t) : i \in 1..Len(s) \/ i = Len(s) + 1
    BY <1>1
  <1>3. a \in 1..Len(t) /\ b \in 1..Len(t) /\ Len(s) + 1 \in 1..Len(t) /\ a <= Len(s) + 1
    BY <1>1 DEF Keeps
  <1>4. t[a] \notin P /\ t[b] \notin P
    BY <1>1 DEF Keeps
  <1>5. CASE c \in P
    <2>1. \A j \in 1..Len(t) : t[j] \notin P => a <= j /\ j <= b
      BY <1>1, <1>2, <1>5 DEF Keeps
    <2>2. Keeps(t, P, a, b)
      BY <1>3, <1>4, <2>1 DEF Keeps
    <2> QED
      BY <1>5, <2>2 DEF t
  <1>6. CASE c \notin P
    <2>1. \A j \in 1..Len(t) : t[j] \notin P => a <= j /\ j <= Len(s) + 1
      BY <1>1, <1>2, <1>3 DEF Keeps
    <2>2. Keeps(t, P, a, Len(s) + 1)
      BY <1>1, <1>3, <1>4, <1>6, <2>1 DEF Keeps
    <2> QED
      BY <1>6, <2>2 DEF t
  <1> QED
    BY <1>5, <1>6

\* Blanks at the end add nothing that a separator would leave.
LEMMA BlanksPass ==
  ASSUME NEW s \in Seq(Chars), NEW z \in Seq(Blanks)
  PROVE  s \o z \in Seq(Chars) /\ Base(KeyState(s \o z)) = Base(KeyState(s))
  <1> DEFINE T == {y \in Seq(Blanks) : /\ s \o y \in Seq(Chars)
                                       /\ Base(KeyState(s \o y)) = Base(KeyState(s))}
  <1>1. <<>> \in T
    <2>1. s \o <<>> = s
      BY ConcatEmptySeq
    <2>2. <<>> \in Seq(Blanks)
      BY EmptySeq
    <2> QED
      BY <2>1, <2>2
  <1>2. ASSUME NEW y \in T \cap Seq(Blanks), NEW c \in Blanks
        PROVE  Append(y, c) \in T
    <2> DEFINE t    == s \o y
               key  == KeyState(t)
               next == KeyState(Append(t, c))
    <2>1. y \in Seq(Blanks) /\ y \in Seq(Chars) /\ t \in Seq(Chars) /\ c \in Chars
      BY InkChars, SeqMonotonic
    <2>2. /\ s \o Append(y, c) = Append(t, c) /\ Append(t, c) \in Seq(Chars)
          /\ Append(y, c) \in Seq(Blanks)
      BY <2>1
    <2>3. Base(key) = Base(KeyState(s))
      OBVIOUS
    <2> HIDE DEF t
    <2>4. Whole(key) /\ key \in KeyStates
      BY <2>1, KeysWhole DEF Whole
    <2>5. next = IF key.last = "plain" THEN [out |-> Append(key.out, "-"), last |-> "connector"]
                 ELSE key
      <3>1. c \notin Alphanumerics /\ c # ":" /\ c \in Connectors \cup Blanks
        BY InkChars
      <3>2. next = IF c \in Alphanumerics THEN [out |-> Append(key.out, c), last |-> "plain"]
                   ELSE IF c = ":" THEN [out |-> Append(Base(key), ":"), last |-> "separator"]
                   ELSE IF c \in Connectors \cup Blanks /\ key.last = "plain"
                   THEN [out |-> Append(key.out, IF c \in Blanks THEN "-" ELSE c),
                         last |-> "connector"]
                   ELSE key
        BY <2>1, <2>4, KeyOne
      <3> HIDE DEF key, next
      <3> QED
        BY <3>1, <3>2
    <2>6. Whole(next)
      BY <2>1, <2>2, KeysWhole
    <2> HIDE DEF key, next
    <2>7. Base(next) = Base(key)
      <3>1. CASE key.last = "plain"
        <4>1. next.out = Append(key.out, "-") /\ next.last # "plain"
          BY <2>5, <3>1
        <4>2. next.out = Append(Base(next), next.out[Len(next.out)])
          BY <2>6, <4>1, BaseIsReady
        <4>3. Regular(Base(next)) /\ Regular(key.out) /\ Base(key) = key.out
          BY <2>4, <2>6, <3>1, BaseIsReady
        <4>4. Base(next) \in Seq(Chars) /\ key.out \in Seq(Chars)
          BY <4>3, RegularIsText
        <4>5. next.out[Len(next.out)] = "-"
          BY <4>1, <4>4, InkChars, AppendProperties
        <4>6. "-" \in Chars
          BY InkChars
        <4>7. Append(key.out, "-") = Append(Base(next), "-")
          BY <4>1, <4>2, <4>5
        <4>8. key.out = Base(next)
          <5>1. ASSUME NEW u \in Seq(Chars), NEW v \in Seq(Chars), Append(u, "-") = Append(v, "-")
                PROVE  u = v
            BY <4>6, <5>1, AppendInjective
          <5> QED
            BY <4>4, <4>7, <5>1
        <4> QED
          BY <4>3, <4>8
      <3>2. CASE key.last # "plain"
        BY <2>5, <3>2
      <3> QED
        BY <3>1, <3>2
    <2>8. Base(KeyState(s \o Append(y, c))) = Base(KeyState(s))
      BY <2>2, <2>3, <2>7 DEF next
    <2> QED
      BY <2>2, <2>8
  <1> HIDE DEF T
  <1>3. Seq(Blanks) \subseteq T
    BY <1>1, <1>2, AllTexts
  <1> QED
    BY <1>3 DEF T
\* A child of a name is that name, a separator and the child's suffix.
LEMMA NormalChild ==
  ASSUME NEW s \in Seq(Chars), NEW c \in Alphanumerics, NormalizeKey(s) # <<>>
  PROVE  NormalizeKey(s \o <<":", c>>) = NormalizeKey(s) \o <<":", c>>
  <1> DEFINE n   == NormalizeKey(s)
             s1  == Append(s, ":")
             s2  == Append(s1, c)
             u   == Trimmed(s, Blanks)
             key == KeyState(u)
             b   == Base(key)
             b1  == Append(b, ":")
             b2  == Append(b1, c)
  <1>1. /\ c \in Chars /\ ":" \in Chars /\ c \notin Blanks /\ ":" \notin Blanks /\ c \notin Puncts
        /\ ":" \in Puncts /\ c \in Ink /\ ":" \in Ink
    BY InkChars DEF Puncts, Ink
  <1>2. s \o <<":", c>> = s2 /\ Len(s) \in Nat
    BY <1>1
  <1>3. s1 \in Seq(Chars) /\ Len(s1) = Len(s) + 1 /\ s2 \in Seq(Chars) /\ Len(s2) = Len(s) + 2
    BY <1>1
  <1>4. n = Trimmed(key.out, Puncts)
    BY DEF NormalizeKey, KeyState, Puncts
  <1>5. u \in Seq(Chars)
    BY TrimmedIsText
  <1>6. Whole(key) /\ Regular(key.out) /\ Regular(b) /\ Extensible(b)
    BY <1>5, KeysWhole, BaseIsReady DEF Whole
  \* The text without its blanks.
  <1>7. PICK i \in 1..Len(s), j \in 1..Len(s) : /\ Keeps(s, Blanks, i, j) /\ i <= j
                                                /\ u = SubSeq(s, i, j)
    <2>1. ASSUME u = <<>>
          PROVE  FALSE
      <3>1. key = [out |-> <<>>, last |-> "plain"]
        BY <2>1, ScanEmpty DEF KeyState
      <3>2. key.out = <<>>
        BY <3>1
      <3>3. <<>> \in Seq(Chars) /\ 1..Len(<<>>) = {}
        BY EmptySeq
      <3>4. \/ Trimmed(<<>>, Puncts) = <<>>
            \/ \E x, y \in 1..Len(<<>>) : Keeps(<<>>, Puncts, x, y)
        BY <3>3, TrimmedCases
      <3> QED
        BY <1>4, <3>2, <3>3, <3>4
    <2> HIDE DEF u
    <2>2. \/ u = <<>>
          \/ \E x, y \in 1..Len(s) : /\ Keeps(s, Blanks, x, y) /\ x <= y
                                     /\ u = SubSeq(s, x, y)
      BY TrimmedCases DEF u
    <2> QED
      BY <2>1, <2>2
  <1> DEFINE z == SubSeq(s, j + 1, Len(s))
  <1>8. z \in Seq(Blanks)
    <2>1. j + 1 \in Int /\ Len(s) \in Int /\ \A m \in (j + 1)..Len(s) : s[m] \in Blanks
      BY <1>2, <1>7 DEF Keeps
    <2> QED
      BY <2>1, SubSeqProperties
  <1>9. SubSeq(s, i, Len(s)) = u \o z
    <2>1. i \in 1..(Len(s) + 1) /\ j \in (i - 1)..Len(s) /\ Len(s) \in j..Len(s)
      BY <1>2, <1>7
    <2>2. SubSeq(s, i, j) \o SubSeq(s, j + 1, Len(s)) = SubSeq(s, i, Len(s))
      BY <2>1, ConcatAdjacentSubSeq
    <2> QED
      BY <1>7, <2>2
  <1>10. Trimmed(s2, Blanks) = Append(Append(u \o z, ":"), c)
    <2>1. Keeps(s1, Blanks, i, Len(s) + 1)
      BY <1>1, <1>7, KeepsLonger
    <2>2. Keeps(s2, Blanks, i, Len(s) + 2)
      <3>1. Keeps(s2, Blanks, i, Len(s1) + 1)
        BY <1>1, <1>3, <2>1, KeepsLonger
      <3>2. Len(s1) + 1 = Len(s) + 2
        BY <1>2, <1>3
      <3> QED
        BY <3>1, <3>2
    <2>3. Trimmed(s2, Blanks) = SubSeq(s2, i, Len(s) + 2)
      BY <1>3, <2>2, TrimmedIs
    <2>4. i \in 1..Len(s) /\ Len(s) \in i..Len(s) /\ i \in 1..Len(s1) /\ Len(s1) \in i..Len(s1)
      BY <1>2, <1>3, <1>7
    <2>5. SubSeq(s1, i, Len(s) + 1) = Append(u \o z, ":")
      BY <1>1, <1>9, <2>4, PartOfLonger
    <2>6. SubSeq(s2, i, Len(s1) + 1) = Append(SubSeq(s1, i, Len(s1)), c)
      BY <1>1, <1>3, <2>4, PartOfLonger
    <2>7. Len(s1) + 1 = Len(s) + 2 /\ Len(s1) = Len(s) + 1
      BY <1>2, <1>3
    <2>8. SubSeq(s2, i, Len(s) + 2) = Append(SubSeq(s1, i, Len(s) + 1), c)
      BY <2>6, <2>7, Zenon
    <2> QED
      BY <2>3, <2>5, <2>8, Zenon
  \* What is made of it.
  <1>11. KeyState(Append(Append(u \o z, ":"), c)).out = b2
    <2> DEFINE v  == u \o z
               k0 == KeyState(v)
               v1 == Append(v, ":")
               k1 == KeyState(v1)
    <2>1. v \in Seq(Chars) /\ Base(k0) = b
      BY <1>5, <1>8, BlanksPass
    <2> HIDE DEF v, b
    <2>2. v1 \in Seq(Chars)
      BY <1>1, <2>1
    <2>3. k0 \in KeyStates /\ k1 \in KeyStates
      BY <2>1, <2>2, KeysWhole DEF Whole
    <2>4. k1 = [out |-> Append(Base(k0), ":"), last |-> "separator"]
      <3>1. ":" \notin Alphanumerics
        BY InkChars
      <3> QED
        BY <1>1, <2>1, <2>3, <3>1, KeyOne
    <2>5. KeyState(Append(v1, c)) = [out |-> Append(k1.out, c), last |-> "plain"]
      <3> HIDE DEF v1
      <3> QED
        BY <1>1, <2>2, <2>3, KeyOne
    <2>6. k1.out = Append(b, ":")
      <3> HIDE DEF k0, k1
      <3> QED
        BY <2>1, <2>4
    <2>7. KeyState(Append(v1, c)).out = Append(k1.out, c)
      <3> HIDE DEF k1, v1
      <3> QED
        BY <2>5
    <2> QED
      BY <2>6, <2>7 DEF v
  \* The name is what is left of b.
  <1>12. b \in Seq(Chars) /\ Len(b) \in Nat
    BY <1>6, RegularIsText
  <1>13. PICK m \in 1..Len(b) : Keeps(b, Puncts, m, Len(b)) /\ n = SubSeq(b, m, Len(b))
    <2> HIDE DEF key, n
    <2>1. b # <<>>
      <3>1. ASSUME b = <<>>
            PROVE  FALSE
        <4>1. \A x \in 1..Len(key.out) : key.out[x] \in Puncts
          <5>1. CASE key.last = "plain"
            <6>1. key.out = <<>>
              BY <1>6, <3>1, <5>1, BaseIsReady
            <6>2. 1..Len(<<>>) = {}
              BY EmptySeq
            <6> QED
              BY <6>1, <6>2
          <5>2. CASE key.last # "plain"
            <6> DEFINE p == key.out[Len(key.out)]
            <6>1. p \in Puncts /\ key.out = Append(<<>>, p)
              BY <1>6, <3>1, <5>2, BaseIsReady
            <6> HIDE DEF p
            <6>2. key.out = <<p>>
              BY <6>1
            <6>3. Len(key.out) = 1 /\ key.out[1] = p
              BY <6>2
            <6> QED
              BY <6>1, <6>3
          <5> QED
            BY <5>1, <5>2
        <4>2. key.out \in Seq(Chars)
          BY <1>6, RegularIsText
        <4>3. \/ n = <<>>
              \/ \E x, y \in 1..Len(key.out) : Keeps(key.out, Puncts, x, y)
          BY <1>4, <4>2, TrimmedCases
        <4>4. n # <<>>
          BY DEF n
        <4> QED
          BY <4>1, <4>3, <4>4 DEF Keeps
      <3> QED
        BY <3>1
    <2> HIDE DEF b
    <2>2. Len(b) \in 1..Len(b) /\ b[Len(b)] \notin Puncts
      <3>1. Len(b) # 0
        BY <1>12, <2>1, EmptySeq
      <3>2. b[Len(b)] \in Alphanumerics
        BY <1>6, <2>1 DEF Extensible
      <3> QED
        BY <1>12, <3>1, <3>2, InkChars
    <2>3. PICK m \in 1..Len(b), l \in 1..Len(b) : Keeps(b, Puncts, m, l)
      <3>1. \/ \A x \in 1..Len(b) : b[x] \in Puncts
            \/ \E m, l \in 1..Len(b) : Keeps(b, Puncts, m, l)
        BY <1>12, TrimmedCases
      <3> QED
        BY <2>2, <3>1
    <2>4. l = Len(b)
      <3>1. Len(b) <= l /\ l <= Len(b)
        BY <1>12, <2>2, <2>3 DEF Keeps
      <3> QED
        BY <1>12, <3>1
    <2>5. n = SubSeq(b, m, Len(b))
      <3>1. CASE key.last = "plain"
        <4>1. b = key.out
          BY <1>6, <3>1, BaseIsReady DEF b
        <4> QED
          BY <1>4, <1>12, <2>3, <2>4, <4>1, TrimmedIs
      <3>2. CASE key.last # "plain"
        <4> DEFINE p == key.out[Len(key.out)]
        <4>1. p \in Puncts /\ key.out = Append(b, p)
          BY <1>6, <3>2, BaseIsReady DEF b
        <4>2. p \in Chars /\ key.out \in Seq(Chars)
          BY <1>6, <4>1, RegularIsText, InkChars DEF Puncts, Ink
        <4> HIDE DEF p
        <4>3. Keeps(key.out, Puncts, m, Len(b))
          BY <1>12, <2>3, <2>4, <4>1, <4>2, KeepsLonger
        <4>4. n = SubSeq(key.out, m, Len(b))
          BY <1>4, <4>2, <4>3, TrimmedIs
        <4>5. m \in 1..Len(b) /\ Len(b) \in m..Len(b)
          BY <1>12, <2>3
        <4> QED
          BY <1>12, <4>1, <4>2, <4>4, <4>5, PartOfLonger
      <3> QED
        BY <3>1, <3>2
    <2> QED
      BY <2>3, <2>4, <2>5
  <1> HIDE DEF b
  <1>14. b1 \in Seq(Chars) /\ Len(b1) = Len(b) + 1 /\ b2 \in Seq(Chars)
    BY <1>1, <1>12
  <1>15. Trimmed(b2, Puncts) = Append(Append(n, ":"), c)
    <2> HIDE DEF n
    <2>1. Keeps(b1, Puncts, m, Len(b))
      BY <1>1, <1>12, <1>13, KeepsLonger
    <2>2. Keeps(b2, Puncts, m, Len(b1) + 1)
      BY <1>1, <1>14, <2>1, KeepsLonger
    <2>3. Trimmed(b2, Puncts) = SubSeq(b2, m, Len(b1) + 1)
      BY <1>14, <2>2, TrimmedIs
    <2>4. m \in 1..Len(b) /\ Len(b) \in m..Len(b) /\ m \in 1..Len(b1) /\ Len(b1) \in m..Len(b1)
      BY <1>12, <1>13, <1>14
    <2>5. SubSeq(b1, m, Len(b) + 1) = Append(n, ":")
      BY <1>1, <1>12, <1>13, <2>4, PartOfLonger
    <2>6. SubSeq(b2, m, Len(b1) + 1) = Append(SubSeq(b1, m, Len(b1)), c)
      BY <1>1, <1>14, <2>4, PartOfLonger
    <2> QED
      BY <1>14, <2>3, <2>5, <2>6
  <1>16. NormalizeKey(s2) = Trimmed(KeyState(Trimmed(s2, Blanks)).out, Puncts)
    BY DEF NormalizeKey, KeyState, Puncts
  <1>17. NormalizeKey(s2) = Append(Append(n, ":"), c)
    BY <1>10, <1>11, <1>15, <1>16
  <1>18. Append(Append(n, ":"), c) = n \o <<":", c>>
    <2>1. n \in Seq(Chars)
      <3>1. key.out \in Seq(Chars)
        BY <1>6, RegularIsText
      <3> HIDE DEF n, key
      <3> QED
        BY <1>4, <3>1, TrimmedIsText
    <2> HIDE DEF n
    <2> QED
      BY <1>1, <2>1
  <1> QED
    BY <1>2, <1>17, <1>18

----------------------------------------------------------------------------
(* Lists in an order. *)

\* before[x] are the members of S that come before x, in a strict total order.
StrictOrder(S, before) ==
    /\ before = [x \in S |-> before[x]]
    /\ \A x \in S : before[x] \subseteq S /\ x \notin before[x]
    /\ \A x, y \in S : x # y => x \in before[y] \/ y \in before[x]
    /\ \A x, y \in S : y \in before[x] => before[y] \subseteq before[x]

\* Ordered lists every member once, each after those that come before it.
LEMMA OrderedLists ==
  ASSUME NEW S, IsFiniteSet(S), NEW before, StrictOrder(S, before)
  PROVE  LET order == Ordered(before)
             n     == Cardinality(S)
         IN  /\ n \in Nat
             /\ order \in Seq(S) /\ Len(order) = n /\ DOMAIN order = 1..n
             /\ \A i \in 1..n : order[i] \in S
             /\ \A x \in S : \E i \in 1..n : order[i] = x
             /\ \A i, j \in 1..n : i < j => order[i] \in before[order[j]]
  <1> DEFINE order == Ordered(before)
             n     == Cardinality(S)
             P(x)  == Cardinality(before[x])
             f     == [x \in S |-> P(x) + 1]
  <1>1. n \in Nat
    BY FS_CardinalityType
  <1>2. \A x \in S : before[x] \in SUBSET S /\ x \notin before[x]
    BY DEF StrictOrder
  <1>3. \A x \in S : IsFiniteSet(before[x]) /\ P(x) \in Nat /\ P(x) < n
    <2> TAKE x \in S
    <2>1. IsFiniteSet(before[x])
      BY <1>2, FS_Subset
    <2>2. P(x) \in Nat /\ P(x) <= n
      BY <1>2, <2>1, FS_Subset, FS_CardinalityType
    <2>3. P(x) # n
      <3>1. Cardinality(S) = Cardinality(before[x]) => S = before[x]
        BY <1>2, FS_Subset
      <3> QED
        BY <1>2, <3>1
    <2> QED
      BY <1>1, <2>1, <2>2, <2>3
  <1>4. \A x, y \in S : y \in before[x] => P(y) < P(x)
    <2> TAKE x, y \in S
    <2> HAVE y \in before[x]
    <2>1. before[y] \in SUBSET before[x] /\ y \notin before[y]
      BY DEF StrictOrder
    <2>2. P(y) <= P(x) /\ P(y) # P(x)
      BY <1>3, <2>1, FS_Subset
    <2> QED
      BY <1>3, <2>2
  <1> HIDE DEF P
  <1>5. \A x, y \in S : P(x) = P(y) => x = y
    <2> TAKE x, y \in S
    <2>1. x # y => P(x) < P(y) \/ P(y) < P(x)
      BY <1>4 DEF StrictOrder
    <2> QED
      BY <1>3, <2>1
  <1>6. \A i \in 1..n : \E x \in S : P(x) = i - 1
    <2>1. f \in Injection(S, 1..n)
      <3>1. f \in [S -> 1..n]
        BY <1>1, <1>3
      <3>2. \A x, y \in S : f[x] = f[y] => x = y
        BY <1>3, <1>5
      <3> QED
        BY <3>1, <3>2 DEF Injection, IsInjective
    <2>2. IsFiniteSet(1..n) /\ Cardinality(1..n) = n
      <3>1. 1 \in Int /\ n \in Int
        BY <1>1
      <3>2. IsFiniteSet(1..n) /\ Cardinality(1..n) = IF 1 > n THEN 0 ELSE n - 1 + 1
        BY <3>1, FS_Interval
      <3>3. n = IF 1 > n THEN 0 ELSE n - 1 + 1
        BY <1>1
      <3> QED
        BY <3>2, <3>3
    <2>3. f \in Surjection(S, 1..n)
      <3> HIDE DEF f
      <3> QED
        BY <2>1, <2>2, FS_Injection
    <2>4. \A i \in 1..n : \E x \in S : f[x] = i
      BY <2>3 DEF Surjection
    <2> SUFFICES ASSUME NEW i \in 1..n
                 PROVE  \E x \in S : P(x) = i - 1
      OBVIOUS
    <2>5. PICK x \in S : f[x] = i
      BY <2>4
    <2>6. P(x) + 1 = i /\ P(x) \in Nat
      BY <1>3, <2>5
    <2>7. P(x) = i - 1
      BY <2>6
    <2> QED
      BY <2>7
  <1>7. DOMAIN before = S
    <2>1. before = [x \in S |-> before[x]]
      BY DEF StrictOrder
    <2> QED
      BY <2>1, Zenon
  <1>8. order = [i \in 1..n |-> CHOOSE x \in S : P(x) = i - 1]
    BY <1>7 DEF Ordered, P
  <1>9. \A i \in 1..n : order[i] \in S /\ P(order[i]) = i - 1
    <2> TAKE i \in 1..n
    <2>1. order[i] = CHOOSE x \in S : P(x) = i - 1
      BY <1>8
    <2> HIDE DEF order
    <2> QED
      BY <1>6, <2>1
  <1>10. order \in Seq(S) /\ Len(order) = n /\ DOMAIN order = 1..n
    <2>1. order \in [1..n -> S]
      <3> HIDE DEF order
      <3>1. DOMAIN order = 1..n /\ order = [i \in 1..n |-> order[i]]
        BY <1>8
      <3> QED
        BY <1>9, <3>1
    <2> HIDE DEF order, n
    <2> QED
      BY <1>1, <2>1
  <1> HIDE DEF order, n
  <1>11. \A x \in S : \E i \in 1..n : order[i] = x
    <2> TAKE x \in S
    <2>1. P(x) + 1 \in 1..n /\ (P(x) + 1) - 1 = P(x)
      BY <1>1, <1>3
    <2>2. order[P(x) + 1] \in S /\ P(order[P(x) + 1]) = P(x)
      BY <1>9, <2>1
    <2> QED
      BY <1>5, <2>1, <2>2
  <1>12. \A i, j \in 1..n : i < j => order[i] \in before[order[j]]
    <2> TAKE i, j \in 1..n
    <2> HAVE i < j
    <2>1. P(order[i]) = i - 1 /\ P(order[j]) = j - 1 /\ order[i] \in S /\ order[j] \in S
      BY <1>9
    <2>2. order[i] # order[j] /\ ~(P(order[j]) < P(order[i]))
      BY <2>1
    <2> QED
      BY <1>4, <2>1, <2>2 DEF StrictOrder
  <1> QED
    BY <1>1, <1>9, <1>10, <1>11, <1>12 DEF order, n

\* The order of numbers attached to the members of S, a different one to each.
LEMMA NumbersOrder ==
  ASSUME NEW S, NEW key, \A x \in S : key[x] \in Int,
         \A x, y \in S : key[x] = key[y] => x = y
  PROVE  StrictOrder(S, [x \in S |-> {y \in S : key[y] < key[x]}])
  <1> DEFINE before == [x \in S |-> {y \in S : key[y] < key[x]}]
  <1>1. \A x, y \in S : y \in before[x] <=> key[y] < key[x]
    OBVIOUS
  <1>2. before = [x \in S |-> before[x]] /\ \A x \in S : before[x] \subseteq S
    OBVIOUS
  <1> HIDE DEF before
  <1>3. \A x \in S : x \notin before[x]
    BY <1>1
  <1>4. \A x, y \in S : x # y => x \in before[y] \/ y \in before[x]
    BY <1>1
  <1>5. \A x, y \in S : y \in before[x] => before[y] \subseteq before[x]
    BY <1>1, <1>2
  <1>6. StrictOrder(S, before)
    BY <1>2, <1>3, <1>4, <1>5 DEF StrictOrder
  <1> QED
    BY <1>6 DEF before

\* One number decides, of equal ones the rank of the name.
LEMMA NamesOrder ==
  ASSUME NEW S, S \subseteq Names, NEW key, \A x \in S : key[x] \in Int, NEW before,
         before = [x \in S |-> before[x]], \A x \in S : before[x] \subseteq S,
         \A x, y \in S : y \in before[x] <=>
           key[y] < key[x] \/ (key[y] = key[x] /\ NameRank[y] < NameRank[x])
  PROVE  StrictOrder(S, before)
  <1>1. /\ \A x \in S : NameRank[x] \in Nat
        /\ \A x, y \in S : NameRank[x] = NameRank[y] => x = y
    BY NamesAssumption
  <1>2. \A x \in S : x \notin before[x]
    BY <1>1
  <1>3. \A x, y \in S : x # y => x \in before[y] \/ y \in before[x]
    <2> TAKE x, y \in S
    <2>1. key[x] < key[y] \/ key[y] < key[x] \/ key[x] = key[y]
      OBVIOUS
    <2>2. x # y => NameRank[x] < NameRank[y] \/ NameRank[y] < NameRank[x]
      BY <1>1
    <2> QED
      BY <2>1, <2>2
  <1>4. \A x, y, z \in S : z \in before[y] /\ y \in before[x] => z \in before[x]
    <2> TAKE x, y, z \in S
    <2> HAVE z \in before[y] /\ y \in before[x]
    <2>1. /\ key[z] < key[y] \/ (key[z] = key[y] /\ NameRank[z] < NameRank[y])
          /\ key[y] < key[x] \/ (key[y] = key[x] /\ NameRank[y] < NameRank[x])
      OBVIOUS
    <2>2. /\ key[x] \in Int /\ key[y] \in Int /\ key[z] \in Int
          /\ NameRank[x] \in Int /\ NameRank[y] \in Int /\ NameRank[z] \in Int
      BY <1>1
    <2>3. key[z] < key[x] \/ (key[z] = key[x] /\ NameRank[z] < NameRank[x])
      BY <2>1, <2>2
    <2> QED
      BY <2>3
  <1>5. \A x, y \in S : y \in before[x] => before[y] \subseteq before[x]
    BY <1>4
  <1> QED
    BY <1>2, <1>3, <1>5 DEF StrictOrder

----------------------------------------------------------------------------
(* What the queries return. *)

LEMMA PrefixIsList ==
  ASSUME NEW C, NEW s \in Seq(C), NEW n \in Nat
  PROVE  Prefix(s, n) \in Seq(C)
  <1> DEFINE m == IF n < Len(s) THEN n ELSE Len(s)
  <1>1. Len(s) \in Nat
    OBVIOUS
  <1>2. m \in Nat /\ m <= Len(s)
    BY <1>1
  <1> HIDE DEF m
  <1>3. \A i \in 1..m : s[i] \in C
    BY <1>1, <1>2, ElementOfSeq
  <1>4. 1 \in Int /\ m \in Int
    BY <1>2
  <1>5. SubSeq(s, 1, m) \in Seq(C)
    BY <1>3, <1>4, SubSeqProperties
  <1> QED
    BY <1>5 DEF Prefix, m

LEMMA ByNameList ==
  ASSUME NEW S, S \subseteq Names
  PROVE  ByName(S) \in Seq(S) /\ Len(ByName(S)) = Cardinality(S)
  <1>1. \A x \in S : NameRank[x] \in Int
    BY NamesAssumption
  <1>2. \A x, y \in S : NameRank[x] = NameRank[y] => x = y
    BY NamesAssumption
  <1>3. StrictOrder(S, [n \in S |-> {m \in S : NameRank[m] < NameRank[n]}])
    BY <1>1, <1>2, NumbersOrder
  <1>4. IsFiniteSet(S)
    BY NamesAssumption, FS_Subset
  <1> QED
    BY <1>3, <1>4, OrderedLists DEF ByName

\* Picked takes elements of s at the places, each in the place's turn.
LEMMA PickedList ==
  ASSUME NEW C, NEW s \in Seq(C), NEW places \in SUBSET (DOMAIN s)
  PROVE  /\ Picked(s, places) \in Seq(C)
         /\ Len(Picked(s, places)) = Cardinality(places)
         /\ \A i \in 1..Len(Picked(s, places)) : \E j \in places : Picked(s, places)[i] = s[j]
         /\ \A j \in places : \E i \in 1..Len(Picked(s, places)) : Picked(s, places)[i] = s[j]
  <1> DEFINE before == [i \in places |-> {j \in places : j < i}]
             order  == Ordered(before)
             n      == Cardinality(places)
             picked == Picked(s, places)
             id     == [i \in places |-> i]
  <1>1. Len(s) \in Nat /\ DOMAIN s = 1..Len(s) /\ places \subseteq Int
    OBVIOUS
  <1>2. IsFiniteSet(places)
    <2>1. IsFiniteSet(1..Len(s))
      BY <1>1, FS_Interval
    <2> QED
      BY <1>1, <2>1, FS_Subset
  <1>3. StrictOrder(places, before)
    <2>1. \A x \in places : id[x] = x
      OBVIOUS
    <2>2. (\A x \in places : id[x] \in Int) /\ \A x, y \in places : id[x] = id[y] => x = y
      BY <1>1, <2>1
    <2>3. StrictOrder(places, [x \in places |-> {y \in places : id[y] < id[x]}])
      <3> HIDE DEF id
      <3> QED
        BY <2>2, NumbersOrder
    <2>4. [x \in places |-> {y \in places : id[y] < id[x]}] = before
      BY <2>1
    <2> QED
      BY <2>3, <2>4
  <1> HIDE DEF before
  <1>4. /\ n \in Nat /\ DOMAIN order = 1..n
        /\ \A i \in 1..n : order[i] \in places
        /\ \A j \in places : \E i \in 1..n : order[i] = j
    BY <1>2, <1>3, OrderedLists
  <1>5. picked = [i \in 1..n |-> s[order[i]]]
    BY <1>4 DEF Picked, before
  <1> HIDE DEF order, picked, n
  <1>6. \A i \in 1..n : picked[i] = s[order[i]] /\ s[order[i]] \in C
    BY <1>1, <1>4, <1>5, ElementOfSeq
  <1>7. picked \in [1..n -> C]
    BY <1>5, <1>6
  <1>8. picked \in Seq(C) /\ Len(picked) = n
    BY <1>4, <1>7
  <1>9. \A i \in 1..n : \E j \in places : picked[i] = s[j]
    BY <1>4, <1>6
  <1>10. \A j \in places : \E i \in 1..n : picked[i] = s[j]
    BY <1>4, <1>6
  <1> QED
    BY <1>8, <1>9, <1>10 DEF picked, n

LEMMA SelectedRowsList ==
  ASSUME NEW d, NEW names \in Seq(Names)
  PROVE  SelectedRows(d, names) \in Seq(Live(d))
  <1> DEFINE places == {i \in DOMAIN names : /\ names[i] \in Live(d)
                                             /\ \A j \in DOMAIN names : names[j] = names[i] => j <= i}
             rows == SelectedRows(d, names)
  <1>1. rows = Picked(names, places)
    BY DEF SelectedRows
  <1>2. places \in SUBSET (DOMAIN names) /\ \A j \in places : names[j] \in Live(d)
    OBVIOUS
  <1> HIDE DEF rows, places
  <1>3. rows \in Seq(Names) /\ \A i \in 1..Len(rows) : \E j \in places : rows[i] = names[j]
    BY <1>1, <1>2, PickedList
  <1>4. \A i \in 1..Len(rows) : rows[i] \in Live(d)
    BY <1>2, <1>3
  <1>5. rows \in Seq(Live(d))
    BY <1>3, <1>4
  <1> QED
    BY <1>5 DEF rows

\* The rows of an entity's observations.
LEMMA ObsRows ==
  ASSUME NEW d, Consistent(d), NEW n
  PROVE  /\ IsFiniteSet(ObsOf(d, n)) /\ Cardinality(ObsOf(d, n)) \in Nat
         /\ ObsOf(d, n) \subseteq Observations
         /\ \A o \in ObsOf(d, n) : o.id \in Int
         /\ \A o, p \in ObsOf(d, n) : o.id = p.id => o = p
  <1>1. d \in Databases /\ IdsUnique(d) /\ d.obs \subseteq Observations /\ IsFiniteSet(d.obs)
    BY Columns, ObsFinite DEF Consistent
  <1>2. ObsOf(d, n) \in SUBSET d.obs
    BY DEF ObsOf
  <1>3. IsFiniteSet(ObsOf(d, n)) /\ Cardinality(ObsOf(d, n)) \in Nat
    BY <1>1, <1>2, FS_Subset, FS_CardinalityType
  <1>4. \A o \in d.obs : o.id \in Int
    BY <1>1 DEF Observations
  <1> QED
    BY <1>1, <1>2, <1>3, <1>4 DEF IdsUnique

LEMMA RecentList ==
  ASSUME NEW d, Consistent(d), NEW n, NEW limit \in Nat
  PROVE  RecentObservations(d, n, limit) \in Seq(Observations)
  <1> DEFINE rows   == ObsOf(d, n)
             before == [o \in rows |-> {p \in rows : p.id > o.id}]
             newest == Ordered(before)
             part   == IF limit = 0 THEN newest ELSE Prefix(newest, limit)
             key    == [o \in rows |-> 0 - o.id]
  <1>1. /\ IsFiniteSet(rows) /\ rows \subseteq Observations /\ \A o \in rows : o.id \in Int
        /\ \A o, p \in rows : o.id = p.id => o = p
    BY ObsRows
  <1> HIDE DEF rows
  <1>2. StrictOrder(rows, before)
    <2>1. \A o \in rows : key[o] = 0 - o.id
      OBVIOUS
    <2>2. (\A o \in rows : key[o] \in Int) /\ \A o, p \in rows : key[o] = key[p] => o = p
      BY <1>1, <2>1
    <2>3. \A o, p \in rows : key[p] < key[o] <=> p.id > o.id
      BY <1>1, <2>1
    <2>4. StrictOrder(rows, [o \in rows |-> {p \in rows : key[p] < key[o]}])
      <3> HIDE DEF key
      <3> QED
        BY <2>2, NumbersOrder
    <2>5. [o \in rows |-> {p \in rows : key[p] < key[o]}] = before
      <3> HIDE DEF key
      <3> QED
        BY <2>3
    <2> QED
      BY <2>4, <2>5
  <1> HIDE DEF before
  <1>3. newest \in Seq(rows)
    BY <1>1, <1>2, OrderedLists
  <1>4. newest \in Seq(Observations)
    <2> HIDE DEF newest
    <2> QED
      BY <1>1, <1>3, SeqMonotonic
  <1> HIDE DEF newest
  <1>5. part \in Seq(Observations)
    BY <1>4, PrefixIsList
  <1>6. RecentObservations(d, n, limit) = Reverse(part)
    BY DEF RecentObservations, newest, before, rows
  <1> HIDE DEF part
  <1>7. Reverse(part) \in Seq(Observations)
    <2>1. Len(part) \in Nat
      BY <1>5
    <2>2. \A i \in 1..Len(part) : Len(part) - i + 1 \in 1..Len(part)
      BY <2>1
    <2>3. \A i \in 1..Len(part) : part[Len(part) - i + 1] \in Observations
      BY <1>5, <2>2, ElementOfSeq
    <2>4. Reverse(part) \in [1..Len(part) -> Observations]
      BY <2>3 DEF Reverse
    <2> QED
      BY <2>1, <2>4
  <1> QED
    BY <1>6, <1>7

LEMMA NeighboursAreNames ==
  ASSUME NEW d \in Databases, NEW names, NEW kinds
  PROVE  Neighbours(d, names, kinds) \subseteq Names
  <1>1. d.rel \subseteq Names \X Names \X RelTypes
    BY Columns
  <1> QED
    BY <1>1 DEF Neighbours

LEMMA AnyOrder ==
  ASSUME NEW S, S \subseteq Names, NEW s \in SetToSeqs(S)
  PROVE  s \in Seq(Names)
  <1>1. Cardinality(S) \in Nat
    BY NamesAssumption, FS_Subset, FS_CardinalityType
  <1>2. s \in [1..Cardinality(S) -> S]
    BY DEF SetToSeqs
  <1>3. s \in [1..Cardinality(S) -> Names]
    BY <1>2
  <1> QED
    BY <1>1, <1>3

LEMMA RankedPathsAreLists ==
  ASSUME NEW d \in Databases, NEW path \in 1..3, NEW term, NEW widened, NEW pool \in Nat,
         NEW ranked \in RankedPaths(d, path, term, widened, pool)
  PROVE  ranked \in Seq(Names)
  <1>1. d.obs \subseteq Observations /\ d.truthFts \subseteq Names \X Keys \X Values
    BY Columns
  <1>2. ObservationHits(d, term, widened) \subseteq Names
    BY <1>1 DEF ObservationHits, Observations
  <1>3. TruthHits(d, term, widened) \subseteq Names
    BY <1>1 DEF TruthHits
  <1>4. NameHits(d, term, widened) \subseteq Names
    BY DEF NameHits, Live
  <1>5. ByName(NameHits(d, term, widened)) \in Seq(Names)
    BY <1>4, ByNameList, SeqMonotonic
  <1>6. path = 1 \/ path = 2 \/ path = 3
    OBVIOUS
  <1>7. CASE path = 1
    <2>1. PICK order \in SetToSeqs(ObservationHits(d, term, widened)) : ranked = Prefix(order, pool)
      BY <1>7 DEF RankedPaths
    <2> QED
      BY <1>2, <2>1, AnyOrder, PrefixIsList
  <1>8. CASE path = 2
    <2>1. PICK order \in SetToSeqs(TruthHits(d, term, widened)) : ranked = Prefix(order, pool)
      BY <1>8 DEF RankedPaths
    <2> QED
      BY <1>3, <2>1, AnyOrder, PrefixIsList
  <1>9. CASE path = 3
    <2>1. ranked = Prefix(ByName(NameHits(d, term, widened)), pool)
      BY <1>9 DEF RankedPaths
    <2> QED
      BY <1>5, <2>1, PrefixIsList
  <1> QED
    BY <1>6, <1>7, <1>8, <1>9

LEMMA FusedList ==
  ASSUME NEW paths \in Seq(Seq(Names)), Len(paths) = 3
  PROVE  Fused(paths) \in Seq(Names)
  <1> DEFINE names == UNION {ToSet(paths[i]) : i \in 1..3}
             Rank(path, n) == CHOOSE i \in DOMAIN path : path[i] = n
             Points(path, n) == IF n \in ToSet(path) THEN Scale \div (Damping + Rank(path, n)) ELSE 0
             score == [n \in names |->
                         Points(paths[1], n) + Points(paths[2], n) + Points(paths[3], n)]
             before == [n \in names |-> {m \in names :
                          \/ score[m] > score[n]
                          \/ (score[m] = score[n] /\ NameRank[m] < NameRank[n])}]
             key == [n \in names |-> 0 - score[n]]
  <1>1. \A i \in 1..3 : paths[i] \in Seq(Names)
    BY ElementOfSeq
  <1>2. \A path \in Seq(Names) : ToSet(path) \subseteq Names
    BY ElementOfSeq DEF ToSet
  <1>3. names \subseteq Names
    BY <1>1, <1>2
  <1>4. \A path \in Seq(Names) : \A n : Points(path, n) \in Int
    <2> TAKE path \in Seq(Names)
    <2> TAKE n
    <2>1. CASE n \in ToSet(path)
      <3> DEFINE r == Rank(path, n)
      <3>1. r \in DOMAIN path
        BY <2>1 DEF ToSet
      <3>2. DOMAIN path = 1..Len(path) /\ Len(path) \in Nat
        OBVIOUS
      <3>3. r \in Nat /\ r # 0 /\ Damping \in Nat /\ Scale \in Nat
        <4> HIDE DEF r
        <4> QED
          BY <3>1, <3>2, QueriesAssumption
      <3>4. Points(path, n) = Scale \div (Damping + r)
        BY <2>1
      <3> HIDE DEF Points, r
      <3>5. Damping + r \in Nat \ {0}
        BY <3>3
      <3>6. \A k \in Nat \ {0} : Scale \div k \in Int
        BY <3>3
      <3> QED
        BY <3>4, <3>5, <3>6
    <2>2. CASE n \notin ToSet(path)
      BY <2>2
    <2> QED
      BY <2>1, <2>2
  <1> HIDE DEF Points
  <1>5. \A n \in names : score[n] \in Int
    <2> TAKE n \in names
    <2>1. Points(paths[1], n) \in Int /\ Points(paths[2], n) \in Int /\ Points(paths[3], n) \in Int
      BY <1>1, <1>4
    <2>2. score[n] = Points(paths[1], n) + Points(paths[2], n) + Points(paths[3], n)
      OBVIOUS
    <2> QED
      BY <2>1, <2>2
  <1>6. Fused(paths) = Ordered(before)
    BY DEF Fused, Points
  <1> HIDE DEF score, names
  <1>7. StrictOrder(names, before)
    <2>1. before = [n \in names |-> before[n]] /\ \A n \in names : before[n] \subseteq names
      OBVIOUS
    <2>2. \A n, m \in names : m \in before[n] <=>
            score[m] > score[n] \/ (score[m] = score[n] /\ NameRank[m] < NameRank[n])
      OBVIOUS
    <2>3. \A n \in names : key[n] = 0 - score[n]
      OBVIOUS
    <2> HIDE DEF before, key
    <2>4. \A n \in names : key[n] \in Int
      BY <1>5, <2>3
    <2>5. \A n, m \in names : m \in before[n] <=>
            key[m] < key[n] \/ (key[m] = key[n] /\ NameRank[m] < NameRank[n])
      <3> TAKE n, m \in names
      <3>1. /\ score[m] > score[n] <=> key[m] < key[n]
            /\ score[m] = score[n] <=> key[m] = key[n]
        BY <1>5, <2>3
      <3> QED
        BY <2>2, <3>1
    <2> QED
      BY <1>3, <2>1, <2>4, <2>5, NamesOrder
  <1> HIDE DEF before
  <1>8. IsFiniteSet(names)
    BY <1>3, NamesAssumption, FS_Subset
  <1>9. Ordered(before) \in Seq(names)
    BY <1>7, <1>8, OrderedLists
  <1> QED
    BY <1>3, <1>6, <1>9, SeqMonotonic

LEMMA FilteredLists ==
  ASSUME NEW names \in Seq(Names), NEW eligible, eligible \subseteq Names
  PROVE  Filtered(names, eligible) \subseteq Seq(Names)
  <1> DEFINE places == {i \in DOMAIN names : names[i] \in eligible}
  <1>1. CASE names = <<>>
    <2>1. Filtered(names, eligible) = SetToSeqs(eligible)
      BY <1>1 DEF Filtered
    <2> QED
      BY <2>1, AnyOrder
  <1>2. CASE names # <<>>
    <2>1. Filtered(names, eligible) = {Picked(names, places)}
      BY <1>2 DEF Filtered
    <2>2. places \in SUBSET (DOMAIN names)
      OBVIOUS
    <2> HIDE DEF places
    <2>3. Picked(names, places) \in Seq(Names)
      BY <2>2, PickedList
    <2> QED
      BY <2>1, <2>3
  <1> QED
    BY <1>1, <1>2

----------------------------------------------------------------------------
(* Where a command is, and what its view holds there. *)

\* Between its steps a command is where its kind of command goes, at a row if it
\* reads rows, at a topic if it writes topics.
Placed(st, c, v, time) ==
    /\ st = "idle" <=> c = NoCommand
    /\ st = "idle" => v = NoView
    /\ v.today <= time
    /\ st = "write" => c.name = "write"
    /\ st = "search" => c.name = "search" /\ Len(v.paths) < 3
    /\ st = "filter" => c.name = "search"
    /\ st \in {"count", "observations", "truths"} => v.left # <<>>
    /\ st = "stats" => Len(v.counts) < 3
    /\ st \in {"topics", "put"} => c.name = "compact" /\ Len(v.counts) = 1
    /\ st = "put" => v.entities # <<>> /\ Head(v.entities).type # "task"

FilesGood(f, time) ==
    /\ f = [s \in Slugs |-> f[s]]
    /\ \A s \in Slugs : Parsed(f[s]) =>
         f[s].compacted \in 0..time /\ f[s].type \in Types \ {"task"}

ReadInv ==
    /\ Consistent(db)
    /\ now \in Nat /\ started \in Nat
    /\ FilesGood(files, now)
    /\ step \in [Workers -> Steps]
    /\ cmd \in [Workers -> Commands \cup {NoCommand}]
    /\ view \in [Workers -> Views]
    /\ answer = [w \in Workers |-> answer[w]]
    /\ \A w \in Workers : answer[w].verdict \in Verdicts
    /\ alone \in [Workers -> BOOLEAN]
    /\ \A w \in Workers : Placed(step[w], cmd[w], view[w], now)

LEMMA ViewColumns ==
  ASSUME NEW v \in Views
  PROVE  /\ v.names \in Seq(Names) /\ v.paths \in Seq(Seq(Names)) /\ v.widened \in BOOLEAN
         /\ v.left \in Seq(Names \X Types) /\ v.count \in Nat /\ v.recent \in Seq(Observations)
         /\ v.entities \in Seq(EntityOutputs) /\ v.relations \subseteq Names \X Names \X RelTypes
         /\ v.counts \in Seq(Nat) /\ v.today \in Nat
  BY DEF Views

LEMMA ViewNames ==
  ASSUME NEW v \in Views, NEW names \in Seq(Names)
  PROVE  [v EXCEPT !.names = names] \in Views
  BY DEF Views

LEMMA ViewPaths ==
  ASSUME NEW v \in Views, NEW paths \in Seq(Seq(Names))
  PROVE  [v EXCEPT !.paths = paths] \in Views
  BY DEF Views

LEMMA ViewLeft ==
  ASSUME NEW v \in Views, NEW left \in Seq(Names \X Types)
  PROVE  [v EXCEPT !.left = left] \in Views
  BY DEF Views

LEMMA ViewCount ==
  ASSUME NEW v \in Views, NEW count \in Nat
  PROVE  [v EXCEPT !.count = count] \in Views
  BY DEF Views

LEMMA ViewRecent ==
  ASSUME NEW v \in Views, NEW recent \in Seq(Observations)
  PROVE  [v EXCEPT !.recent = recent] \in Views
  BY DEF Views

LEMMA ViewEntities ==
  ASSUME NEW v \in Views, NEW entities \in Seq(EntityOutputs)
  PROVE  [v EXCEPT !.entities = entities] \in Views
  BY DEF Views

LEMMA ViewRelations ==
  ASSUME NEW v \in Views, NEW relations \in SUBSET (Names \X Names \X RelTypes)
  PROVE  [v EXCEPT !.relations = relations] \in Views
  BY DEF Views

LEMMA ViewCounts ==
  ASSUME NEW v \in Views, NEW counts \in Seq(Nat)
  PROVE  [v EXCEPT !.counts = counts] \in Views
  BY DEF Views

\* Several columns at once.
LEMMA ViewWidened ==
  ASSUME NEW v \in Views
  PROVE  [v EXCEPT !.paths = <<>>, !.widened = TRUE] \in Views
  BY EmptySeq DEF Views

LEMMA ViewFused ==
  ASSUME NEW v \in Views, NEW names \in Seq(Names)
  PROVE  [v EXCEPT !.paths = <<>>, !.names = names] \in Views
  BY EmptySeq DEF Views

LEMMA ViewRow ==
  ASSUME NEW v \in Views, NEW left \in Seq(Names \X Types), NEW entities \in Seq(EntityOutputs)
  PROVE  [v EXCEPT !.left = left, !.count = 0, !.recent = <<>>, !.entities = entities] \in Views
  BY EmptySeq DEF Views

LEMMA ViewToday ==
  ASSUME NEW v \in Views, NEW time \in Nat, NEW counts \in Seq(Nat)
  PROVE  [v EXCEPT !.today = time, !.counts = counts] \in Views
  BY DEF Views

LEMMA NoViewIsView == NoView \in Views
  BY EmptySeq DEF NoView, Views

\* One command has taken a step: everything else stays.
LEMMA Moves ==
  ASSUME ReadInv, NEW w \in Workers, NEW st \in Steps, NEW c \in Commands \cup {NoCommand},
         NEW v \in Views, Placed(st, c, v, now),
         step' = [step EXCEPT ![w] = st], cmd' = [cmd EXCEPT ![w] = c],
         view' = [view EXCEPT ![w] = v],
         answer' = answer \/ \E a : answer' = [answer EXCEPT ![w] = a] /\ a.verdict \in Verdicts,
         Consistent(db'), now' = now, FilesGood(files', now), started' \in Nat,
         alone' \in [Workers -> BOOLEAN]
  PROVE  ReadInv'
  <1>1. /\ step' \in [Workers -> Steps]
        /\ cmd' \in [Workers -> Commands \cup {NoCommand}]
        /\ view' \in [Workers -> Views]
    BY DEF ReadInv
  <1>2. answer' = [x \in Workers |-> answer'[x]] /\ \A x \in Workers : answer'[x].verdict \in Verdicts
    <2>1. CASE answer' = answer
      BY <2>1 DEF ReadInv
    <2>2. ASSUME NEW a, answer' = [answer EXCEPT ![w] = a], a.verdict \in Verdicts
          PROVE  /\ answer' = [x \in Workers |-> answer'[x]]
                 /\ \A x \in Workers : answer'[x].verdict \in Verdicts
      BY <2>2 DEF ReadInv
    <2> QED
      BY <2>1, <2>2
  <1>3. ASSUME NEW x \in Workers
        PROVE  Placed(step'[x], cmd'[x], view'[x], now')
    <2>1. CASE x = w
      <3>1. step'[x] = st /\ cmd'[x] = c /\ view'[x] = v
        BY <2>1 DEF ReadInv
      <3> QED
        BY <3>1
    <2>2. CASE x # w
      <3>1. step'[x] = step[x] /\ cmd'[x] = cmd[x] /\ view'[x] = view[x]
        BY <2>2 DEF ReadInv
      <3> QED
        BY <3>1 DEF ReadInv
    <2> QED
      BY <2>1, <2>2
  <1>4. now' \in Nat /\ FilesGood(files', now')
    BY DEF ReadInv
  <1> QED
    BY <1>1, <1>2, <1>3, <1>4 DEF ReadInv

LEMMA Sees ==
  ASSUME ReadInv, NEW w \in Workers, NEW v \in Views, NEW where \in Steps,
         Placed(where, cmd[w], v, now), See(w, v, where), alone' \in [Workers -> BOOLEAN]
  PROVE  ReadInv'
  <1>1. /\ step' = [step EXCEPT ![w] = where] /\ view' = [view EXCEPT ![w] = v]
        /\ cmd' = cmd /\ answer' = answer /\ db' = db /\ now' = now /\ files' = files
        /\ started' = started
    BY DEF See, Goto
  <1>2. cmd' = [cmd EXCEPT ![w] = cmd[w]] /\ cmd[w] \in Commands \cup {NoCommand}
    BY <1>1 DEF ReadInv
  <1>3. Consistent(db') /\ FilesGood(files', now) /\ started' \in Nat
    BY <1>1 DEF ReadInv
  <1> QED
    BY <1>1, <1>2, <1>3, Moves

LEMMA NothingPlaced ==
  ASSUME now \in Nat
  PROVE  Placed("idle", NoCommand, NoView, now)
  BY DEF Placed, NoView

LEMMA Over ==
  ASSUME ReadInv, NEW w \in Workers, NEW v, NEW verdict \in Verdicts, End(w, verdict, v),
         Consistent(db'), now' = now, FilesGood(files', now), started' = started,
         alone' \in [Workers -> BOOLEAN]
  PROVE  ReadInv'
  <1>1. /\ step' = [step EXCEPT ![w] = "idle"] /\ view' = [view EXCEPT ![w] = NoView]
        /\ cmd' = [cmd EXCEPT ![w] = NoCommand]
    BY DEF End, Goto
  <1>2. \E a : answer' = [answer EXCEPT ![w] = a] /\ a.verdict \in Verdicts
    <2> DEFINE a == [verdict |-> verdict, entities |-> v.entities, relations |-> v.relations,
                     counts |-> v.counts]
    <2>1. answer' = [answer EXCEPT ![w] = a]
      BY DEF End
    <2>2. a.verdict \in Verdicts
      OBVIOUS
    <2> HIDE DEF a
    <2> QED
      BY <2>1, <2>2
  <1>3. Placed("idle", NoCommand, NoView, now) /\ "idle" \in Steps /\ started' \in Nat
    BY NothingPlaced DEF ReadInv, Steps
  <1> QED
    BY <1>1, <1>2, <1>3, NoViewIsView, Moves

----------------------------------------------------------------------------
(* The steps of a command. *)

LEMMA CommandKinds ==
  ASSUME NEW c \in Commands
  PROVE  /\ CommandLine(c) /\ c # NoCommand
         /\ c.name \in {"write", "show", "board", "search", "graph", "list", "stats", "compact"}
         /\ c.name = "write" => /\ c.request.op \in Operations \ {"sweep"}
                                /\ c.request.items \in Seq(ItemsOf(c.request.op))
                                /\ c.echo \in Seq(Spellings)
         /\ c.name = "show" => c.names \in Seq(Spellings) /\ c.limit \in Nat
         /\ c.name = "board" => c.epic \in Spellings
         /\ c.name = "search" => c.limit \in Nat
  <1>1. CommandLine(c)
    BY CommandLinesAssumption
  <1>2. c.name = "write" => /\ WellFormed(c.request) /\ c.request.op # "sweep"
                            /\ c.echo \in Seq(Spellings)
    BY <1>1 DEF CommandLine
  <1>3. c.name = "show" => c.names \in Seq(Spellings) /\ c.limit \in Nat
    BY <1>1 DEF CommandLine
  <1>4. c.name = "board" => c.epic \in Spellings
    BY <1>1 DEF CommandLine
  <1>5. c.name = "search" => c.limit \in Nat
    BY <1>1 DEF CommandLine
  <1>6. c.name \in {"write", "show", "board", "search", "graph", "list", "stats", "compact"}
    BY <1>1 DEF CommandLine
  <1>7. c # NoCommand
    BY <1>6 DEF NoCommand
  <1> QED
    BY <1>1, <1>2, <1>3, <1>4, <1>5, <1>6, <1>7 DEF WellFormed

\* The command of a worker that is at work.
LEMMA AtWork ==
  ASSUME ReadInv, NEW w \in Workers, step[w] # "idle"
  PROVE  /\ cmd[w] \in Commands /\ view[w] \in Views
         /\ Placed(step[w], cmd[w], view[w], now) /\ step[w] \in Steps
  BY DEF ReadInv, Placed

LEMMA StoredNames ==
  ASSUME NEW names \in Seq(Spellings)
  PROVE  Stored(names) \in Seq(Names)
  <1>1. \A x \in Spellings : Norm[x] \in Names
    BY OpsAssumption
  <1>2. Len(names) \in Nat /\ DOMAIN names = 1..Len(names) /\ \A i \in 1..Len(names) : names[i] \in Spellings
    BY ElementOfSeq
  <1>3. Stored(names) \in [1..Len(names) -> Names]
    BY <1>1, <1>2 DEF Stored
  <1> QED
    BY <1>2, <1>3

LEMMA NamesOfView ==
  ASSUME view \in [Workers -> Views], NEW w \in Workers, NEW names
  PROVE  [view EXCEPT ![w].names = names] = [view EXCEPT ![w] = [view[w] EXCEPT !.names = names]]
  OBVIOUS

LEMMA StartStep ==
  ASSUME ReadInv, NEW w \in Workers, NEW c \in Commands, Start(w, c)
  PROVE  ReadInv'
  <1> DEFINE names == CASE c.name = "show"  -> Stored(c.names)
                        [] c.name = "board" -> Stored(<<c.epic>>)
                        [] OTHER            -> <<>>
             v == [view[w] EXCEPT !.names = names]
  <1>1. /\ step[w] = "idle" /\ started' = started + 1
        /\ cmd' = [cmd EXCEPT ![w] = c]
        /\ alone' = [x \in Workers |-> x = w /\ \A y \in Workers : step[y] = "idle"]
        /\ view' = [view EXCEPT ![w].names = names]
        /\ answer' = [answer EXCEPT ![w] = Silence]
        /\ step' = [step EXCEPT ![w] = FirstStep(c)]
        /\ db' = db /\ now' = now /\ files' = files
    BY DEF Start, Goto
  <1>2. names \in Seq(Names)
    <2>1. c.name = "show" => Stored(c.names) \in Seq(Names)
      BY CommandKinds, StoredNames
    <2>2. c.name = "board" => Stored(<<c.epic>>) \in Seq(Names)
      <3>1. c.name = "board" => <<c.epic>> \in Seq(Spellings)
        BY CommandKinds
      <3> QED
        BY <3>1, StoredNames
    <2>3. <<>> \in Seq(Names)
      BY EmptySeq
    <2> QED
      BY <2>1, <2>2, <2>3
  <1>3. view[w] = NoView /\ view[w] \in Views
    BY <1>1 DEF ReadInv, Placed
  <1> HIDE DEF names
  <1>4. v \in Views /\ v.paths = <<>> /\ v.counts = <<>> /\ v.today = 0
    <2>1. v \in Views
      BY <1>2, <1>3, ViewNames
    <2> QED
      BY <1>3, <2>1 DEF NoView
  <1>5. view' = [view EXCEPT ![w] = v]
    BY <1>1, NamesOfView DEF ReadInv
  <1> HIDE DEF v
  <1>6. /\ FirstStep(c) \in {"write", "stats", "search", "filter", "expand", "rows"}
        /\ FirstStep(c) = "write" => c.name = "write"
        /\ FirstStep(c) \in {"search", "filter"} => c.name = "search"
    <2>1. c.name \in {"write", "show", "board", "search", "graph", "list", "stats", "compact"}
      BY CommandKinds
    <2> QED
      BY <2>1 DEF FirstStep, Everything
  <1>7. c # NoCommand
    BY CommandKinds
  <1>8. Len(v.paths) < 3 /\ Len(v.counts) < 3 /\ v.today <= now
    <2>1. Len(<<>>) = 0 /\ now \in Nat
      BY DEF ReadInv
    <2> QED
      BY <1>4, <2>1
  <1>9. Placed(FirstStep(c), c, v, now) /\ FirstStep(c) \in Steps
    BY <1>6, <1>7, <1>8 DEF Placed, Steps
  <1>10. /\ Consistent(db') /\ FilesGood(files', now) /\ started' \in Nat
         /\ alone' \in [Workers -> BOOLEAN]
    BY <1>1 DEF ReadInv
  <1>11. Silence.verdict \in Verdicts
    BY DEF Silence, Verdicts
  <1>12. \E a : answer' = [answer EXCEPT ![w] = a] /\ a.verdict \in Verdicts
    BY <1>1, <1>11
  <1> QED
    BY <1>1, <1>4, <1>5, <1>9, <1>10, <1>12, Moves

LEMMA WriteStep ==
  ASSUME ReadInv, NEW w \in Workers, Write(w)
  PROVE  ReadInv'
  <1> DEFINE c == cmd[w]
             o == RequestOutcome(db, c.request, now)
             v == [view[w] EXCEPT !.names = Stored(c.echo)]
  <1>1. /\ step[w] = "write" /\ db' = o.graph
        /\ alone' = [x \in Workers |-> alone[x] /\ (x = w \/ o.graph = db)]
        /\ now' = now /\ files' = files /\ started' = started
        /\ \/ End(w, "failed", NoView)
           \/ End(w, "ok", NoView)
           \/ /\ view' = [view EXCEPT ![w].names = Stored(c.echo)]
              /\ step' = [step EXCEPT ![w] = "rows"]
              /\ cmd' = cmd /\ answer' = answer
    BY DEF Write, Goto
  <1>2. c \in Commands /\ view[w] \in Views /\ Placed("write", c, view[w], now)
    BY <1>1, AtWork
  <1>3. c.name = "write"
    BY <1>2 DEF Placed
  <1>4. Consistent(db')
    <2>1. /\ c.request.op \in Operations \ {"sweep"}
          /\ c.request.items \in Seq(ItemsOf(c.request.op))
      BY <1>2, <1>3, CommandKinds
    <2>2. Consistent(db) /\ now \in Nat
      BY DEF ReadInv
    <2>3. Consistent(o.graph)
      <3> HIDE DEF c
      <3> QED
        BY <2>1, <2>2, CallConsistent
    <2> QED
      BY <1>1, <2>3
  <1>5. alone' \in [Workers -> BOOLEAN]
    BY <1>1 DEF ReadInv
  <1>6. FilesGood(files', now) /\ {"failed", "ok"} \subseteq Verdicts /\ started' \in Nat
    BY <1>1 DEF ReadInv, Verdicts
  <1>7. CASE End(w, "failed", NoView) \/ End(w, "ok", NoView)
    BY <1>1, <1>4, <1>5, <1>6, <1>7, Over
  <1>8. CASE /\ view' = [view EXCEPT ![w].names = Stored(c.echo)]
             /\ step' = [step EXCEPT ![w] = "rows"]
             /\ cmd' = cmd /\ answer' = answer
    <2>1. Stored(c.echo) \in Seq(Names)
      BY <1>2, <1>3, CommandKinds, StoredNames
    <2>2. v \in Views
      BY <1>2, <2>1, ViewNames
    <2>3. view' = [view EXCEPT ![w] = v]
      BY <1>8, NamesOfView DEF ReadInv
    <2>4. v.today = view[w].today
      BY <1>2, <2>2 DEF Views
    <2> HIDE DEF v, c
    <2>5. Placed("rows", c, v, now) /\ "rows" \in Steps
      BY <1>2, <2>4 DEF Placed, Steps
    <2>6. cmd' = [cmd EXCEPT ![w] = c] /\ c \in Commands \cup {NoCommand}
      BY <1>2, <1>8 DEF ReadInv, c
    <2> QED
      BY <1>1, <1>4, <1>5, <1>6, <1>8, <2>2, <2>3, <2>5, <2>6, Moves
  <1> HIDE DEF c, o
  <1> QED
    BY <1>1, <1>7, <1>8

\* Where a read may be whatever its view holds, apart from its rows.
LEMMA Reading ==
  ASSUME NEW c, c # NoCommand, NEW v, NEW time, v.today <= time,
         NEW st \in {"expand", "rows", "count", "observations", "truths", "relations"},
         st \in {"count", "observations", "truths"} => v.left # <<>>
  PROVE  Placed(st, c, v, time) /\ st \in Steps
  BY DEF Placed, Steps

LEMMA AfterPathsStep ==
  ASSUME ReadInv, NEW w \in Workers, step[w] = "search", NEW paths \in Seq(Seq(Names)),
         Len(paths) <= 3, AfterPaths(w, paths), alone' \in [Workers -> BOOLEAN]
  PROVE  ReadInv'
  <1> DEFINE v == view[w]
             c == cmd[w]
             more    == [v EXCEPT !.paths = paths]
             widened == [v EXCEPT !.paths = <<>>, !.widened = TRUE]
             fused   == [v EXCEPT !.paths = <<>>, !.names = Fused(paths)]
  <1>1. /\ c \in Commands /\ v \in Views /\ c # NoCommand
        /\ c.name = "search" /\ v.today <= now /\ v.today \in Nat /\ now \in Nat
    BY AtWork, CommandKinds, ViewColumns DEF Placed, ReadInv
  <1>2. \/ Len(paths) < 3 /\ See(w, more, "search")
        \/ Len(paths) = 3 /\ See(w, widened, "search")
        \/ Len(paths) = 3 /\ See(w, fused, "filter")
    <2>1. Len(paths) \in Nat
      OBVIOUS
    <2> DEFINE again == Fused(paths) = <<>> /\ Widenable(c.term) /\ ~v.widened
    <2>2. IF Len(paths) < 3 THEN See(w, more, "search")
          ELSE IF again THEN See(w, widened, "search") ELSE See(w, fused, "filter")
      BY DEF AfterPaths
    <2>3. Len(paths) < 3 \/ Len(paths) = 3
      <3>1. \A n \in Nat : n <= 3 => n < 3 \/ n = 3
        OBVIOUS
      <3> QED
        BY <2>1, <3>1
    <2>4. Len(paths) = 3 => ~(Len(paths) < 3)
      OBVIOUS
    <2> HIDE DEF again, more, widened, fused
    <2> QED
      BY <2>2, <2>3, <2>4, Zenon
  <1> HIDE DEF c, v
  <1>3. Len(<<>>) = 0 /\ 0 < 3
    OBVIOUS
  <1>4. CASE Len(paths) < 3 /\ See(w, more, "search")
    <2>1. more \in Views /\ more.paths = paths /\ more.today = v.today
      BY <1>1, ViewPaths DEF Views
    <2> HIDE DEF more
    <2>2. Placed("search", c, more, now) /\ "search" \in Steps
      BY <1>1, <1>4, <2>1 DEF Placed, Steps
    <2> QED
      BY <1>4, <2>1, <2>2, Sees DEF c
  <1>5. CASE Len(paths) = 3 /\ See(w, widened, "search")
    <2>1. widened \in Views /\ widened.paths = <<>> /\ widened.today = v.today
      BY <1>1, ViewWidened DEF Views
    <2> HIDE DEF widened
    <2>2. Placed("search", c, widened, now) /\ "search" \in Steps
      BY <1>1, <1>3, <2>1 DEF Placed, Steps
    <2> QED
      BY <1>5, <2>1, <2>2, Sees DEF c
  <1>6. CASE Len(paths) = 3 /\ See(w, fused, "filter")
    <2>1. Fused(paths) \in Seq(Names)
      BY <1>6, FusedList
    <2>2. fused \in Views
      BY <1>1, <2>1, ViewFused
    <2>3. fused.today = v.today
      BY <1>1 DEF Views
    <2> HIDE DEF fused
    <2>4. Placed("filter", c, fused, now) /\ "filter" \in Steps
      BY <1>1, <2>3 DEF Placed, Steps
    <2> QED
      BY <1>6, <2>2, <2>4, Sees DEF c
  <1> QED
    BY <1>2, <1>4, <1>5, <1>6

LEMMA SearchPathStep ==
  ASSUME ReadInv, NEW w \in Workers, SearchPath(w)
  PROVE  ReadInv'
  <1> DEFINE v    == view[w]
             c    == cmd[w]
             pool == PoolSize(SearchLimit(c), c.filters)
             found == RankedPaths(db, Len(v.paths) + 1, c.term, v.widened, pool)
  <1>1. step[w] = "search" /\ alone' = alone
    BY DEF SearchPath
  <1> PICK ranked \in found : AfterPaths(w, Append(v.paths, ranked))
    BY DEF SearchPath
  <1> DEFINE next == Append(v.paths, ranked)
  <1>2. c \in Commands /\ v \in Views /\ c.name = "search" /\ Len(v.paths) < 3
    BY <1>1, AtWork DEF Placed
  <1>3. v.paths \in Seq(Seq(Names)) /\ Len(v.paths) \in Nat
    BY <1>2, ViewColumns
  <1>4. pool \in Nat
    <2>1. Cardinality(Names) \in Nat /\ CandidatePool \in Nat
      BY NamesAssumption, QueriesAssumption, FS_CardinalityType
    <2>2. c.limit \in Nat
      BY <1>2, CommandKinds
    <2>3. SearchLimit(c) \in Nat
      BY <2>2 DEF SearchLimit
    <2> HIDE DEF c
    <2> QED
      BY <2>1, <2>3 DEF PoolSize
  <1>5. Len(v.paths) + 1 \in 1..3
    BY <1>2, <1>3
  <1>6. db \in Databases
    BY ConsistentIsDatabase DEF ReadInv
  <1> HIDE DEF pool
  <1>7. ranked \in Seq(Names)
    BY <1>4, <1>5, <1>6, RankedPathsAreLists
  <1> HIDE DEF found
  <1>8. next \in Seq(Seq(Names)) /\ Len(next) = Len(v.paths) + 1
    BY <1>3, <1>7
  <1>9. Len(next) <= 3
    BY <1>2, <1>3, <1>8
  <1>10. alone' \in [Workers -> BOOLEAN]
    BY <1>1 DEF ReadInv
  <1>11. AfterPaths(w, next)
    OBVIOUS
  <1> HIDE DEF next
  <1> QED
    BY <1>1, <1>8, <1>9, <1>10, <1>11, AfterPathsStep

LEMMA SearchPathFailsStep ==
  ASSUME ReadInv, NEW w \in Workers, SearchPathFails(w)
  PROVE  ReadInv'
  <1> DEFINE next == Append(view[w].paths, <<>>)
  <1>1. step[w] = "search" /\ AfterPaths(w, next) /\ alone' = [alone EXCEPT ![w] = FALSE]
    BY DEF SearchPathFails
  <1>2. view[w] \in Views /\ Len(view[w].paths) < 3
    BY <1>1, AtWork DEF Placed
  <1>3. view[w].paths \in Seq(Seq(Names)) /\ Len(view[w].paths) \in Nat
    BY <1>2, ViewColumns
  <1>4. <<>> \in Seq(Names)
    BY EmptySeq
  <1>5. next \in Seq(Seq(Names)) /\ Len(next) = Len(view[w].paths) + 1
    BY <1>3, <1>4
  <1>6. Len(next) <= 3
    BY <1>2, <1>3, <1>5
  <1>7. alone' \in [Workers -> BOOLEAN]
    BY <1>1 DEF ReadInv
  <1> HIDE DEF next
  <1> QED
    BY <1>1, <1>5, <1>6, <1>7, AfterPathsStep

LEMMA SearchFilterStep ==
  ASSUME ReadInv, NEW w \in Workers, SearchFilter(w)
  PROVE  ReadInv'
  <1> DEFINE v == view[w]
             c == cmd[w]
             lists == IF c.filters = {} THEN {v.names}
                      ELSE Filtered(v.names, Eligible(db, c.filters))
  <1>1. step[w] = "filter" /\ alone' = alone
    BY DEF SearchFilter
  <1>2. PICK names \in lists : See(w, [v EXCEPT !.names = Prefix(names, SearchLimit(c))], "rows")
    BY DEF SearchFilter
  <1>3. c \in Commands /\ v \in Views /\ c.name = "search" /\ v.today <= now
    BY <1>1, AtWork DEF Placed
  <1>4. SearchLimit(c) \in Nat /\ c # NoCommand
    <2>1. c.limit \in Nat /\ c # NoCommand
      BY <1>3, CommandKinds
    <2> QED
      BY <2>1 DEF SearchLimit
  <1>5. lists \subseteq Seq(Names)
    <2>1. v.names \in Seq(Names)
      BY <1>3, ViewColumns
    <2>2. Eligible(db, c.filters) \subseteq Names
      BY DEF Eligible, Live
    <2>3. Filtered(v.names, Eligible(db, c.filters)) \subseteq Seq(Names)
      BY <2>1, <2>2, FilteredLists
    <2> QED
      BY <2>1, <2>3
  <1> DEFINE cut == Prefix(names, SearchLimit(c))
             new == [v EXCEPT !.names = cut]
  <1>6. cut \in Seq(Names)
    <2>1. names \in Seq(Names)
      BY <1>2, <1>5
    <2> HIDE DEF lists
    <2> QED
      BY <1>4, <2>1, PrefixIsList
  <1>7. See(w, new, "rows")
    BY <1>2
  <1> HIDE DEF lists, cut
  <1>8. new \in Views /\ new.today = v.today
    BY <1>3, <1>6, ViewNames DEF Views
  <1> HIDE DEF new
  <1>9. Placed("rows", c, new, now) /\ "rows" \in Steps
    BY <1>3, <1>4, <1>8, Reading
  <1>10. alone' \in [Workers -> BOOLEAN]
    BY <1>1 DEF ReadInv
  <1> QED
    BY <1>7, <1>8, <1>9, <1>10, Sees

LEMMA ExpandNamesStep ==
  ASSUME ReadInv, NEW w \in Workers, ExpandNames(w)
  PROVE  ReadInv'
  <1> DEFINE v == view[w]
             c == cmd[w]
             found == Neighbours(db, ToSet(v.names), Expand(c)) \ ToSet(v.names)
  <1>1. step[w] = "expand" /\ alone' = alone
    BY DEF ExpandNames
  <1>2. PICK more \in SetToSeqs(found) : See(w, [v EXCEPT !.names = @ \o more], "rows")
    BY DEF ExpandNames
  <1>3. c \in Commands /\ v \in Views /\ v.today <= now /\ c # NoCommand
    BY <1>1, AtWork, CommandKinds DEF Placed
  <1>4. found \subseteq Names
    <2>1. db \in Databases
      BY ConsistentIsDatabase DEF ReadInv
    <2>2. Neighbours(db, ToSet(v.names), Expand(c)) \subseteq Names
      BY <2>1, NeighboursAreNames
    <2> QED
      BY <2>2
  <1> HIDE DEF found
  <1>5. more \in Seq(Names) /\ v.names \in Seq(Names)
    BY <1>2, <1>3, <1>4, AnyOrder, ViewColumns
  <1> DEFINE all == v.names \o more
             new == [v EXCEPT !.names = all]
  <1>6. See(w, new, "rows") /\ all \in Seq(Names)
    BY <1>2, <1>5
  <1> HIDE DEF all
  <1>7. new \in Views /\ new.today = v.today
    BY <1>3, <1>6, ViewNames DEF Views
  <1> HIDE DEF new
  <1>8. Placed("rows", c, new, now) /\ "rows" \in Steps
    BY <1>3, <1>7, Reading
  <1>9. alone' \in [Workers -> BOOLEAN]
    BY <1>1 DEF ReadInv
  <1> QED
    BY <1>6, <1>7, <1>8, <1>9, Sees

LEMMA ReadRowsStep ==
  ASSUME ReadInv, NEW w \in Workers, ReadRows(w)
  PROVE  ReadInv'
  <1> DEFINE v     == view[w]
             c     == cmd[w]
             rows  == IF Everything(c) THEN ByName(Live(db)) ELSE SelectedRows(db, v.names)
             left  == [i \in DOMAIN rows |-> <<rows[i], db.type[rows[i]]>>]
             new   == [v EXCEPT !.left = left]
             where == IF left = <<>> THEN "relations" ELSE "count"
  <1>1. step[w] = "rows" /\ alone' = alone /\ See(w, new, where)
    BY DEF ReadRows
  <1>2. c \in Commands /\ v \in Views /\ v.today <= now /\ c # NoCommand
    BY <1>1, AtWork, CommandKinds DEF Placed
  <1>3. rows \in Seq(Live(db))
    <2>1. Live(db) \subseteq Names /\ v.names \in Seq(Names)
      BY <1>2, ViewColumns DEF Live
    <2>2. ByName(Live(db)) \in Seq(Live(db)) /\ SelectedRows(db, v.names) \in Seq(Live(db))
      BY <2>1, ByNameList, SelectedRowsList
    <2> QED
      BY <2>2
  <1> HIDE DEF rows
  <1>4. left \in Seq(Names \X Types)
    <2>1. db \in Databases
      BY ConsistentIsDatabase DEF ReadInv
    <2>2. \A n \in Live(db) : n \in Names /\ db.type[n] \in Types
      BY <2>1, Columns DEF Live
    <2>3. Len(rows) \in Nat /\ DOMAIN rows = 1..Len(rows) /\ \A i \in 1..Len(rows) : rows[i] \in Live(db)
      BY <1>3, ElementOfSeq
    <2>4. \A i \in 1..Len(rows) : <<rows[i], db.type[rows[i]]>> \in Names \X Types
      BY <2>2, <2>3
    <2>5. left \in [1..Len(rows) -> Names \X Types]
      BY <2>3, <2>4
    <2> HIDE DEF left
    <2> QED
      BY <2>3, <2>5
  <1> HIDE DEF left
  <1>5. new \in Views /\ new.today = v.today /\ new.left = left
    BY <1>2, <1>4, ViewLeft DEF Views
  <1> HIDE DEF new
  <1>6. Placed(where, c, new, now) /\ where \in Steps
    BY <1>2, <1>5, Reading
  <1>7. alone' \in [Workers -> BOOLEAN]
    BY <1>1 DEF ReadInv
  <1> HIDE DEF where
  <1> QED
    BY <1>1, <1>5, <1>6, <1>7, Sees

LEMMA ReadCountStep ==
  ASSUME ReadInv, NEW w \in Workers, ReadCount(w)
  PROVE  ReadInv'
  <1> DEFINE v     == view[w]
             c     == cmd[w]
             count == ObservationCount(db, Head(v.left)[1])
             new   == [v EXCEPT !.count = count]
             where == IF Eager(c) THEN "observations" ELSE "truths"
  <1>1. step[w] = "count" /\ alone' = alone /\ See(w, new, where)
    BY DEF ReadCount
  <1>2. c \in Commands /\ v \in Views /\ v.today <= now /\ c # NoCommand /\ v.left # <<>>
    BY <1>1, AtWork, CommandKinds DEF Placed
  <1>3. count \in Nat
    BY ObsRows DEF ReadInv, ObservationCount
  <1> HIDE DEF count
  <1>4. new \in Views /\ new.today = v.today /\ new.left = v.left
    BY <1>2, <1>3, ViewCount DEF Views
  <1> HIDE DEF new
  <1>5. where \in {"observations", "truths"}
    OBVIOUS
  <1> HIDE DEF where
  <1>6. Placed(where, c, new, now) /\ where \in Steps
    BY <1>2, <1>4, <1>5, Reading
  <1>7. alone' \in [Workers -> BOOLEAN]
    BY <1>1 DEF ReadInv
  <1> QED
    BY <1>1, <1>4, <1>6, <1>7, Sees

LEMMA ReadObservationsStep ==
  ASSUME ReadInv, NEW w \in Workers, ReadObservations(w)
  PROVE  ReadInv'
  <1> DEFINE v      == view[w]
             c      == cmd[w]
             recent == RecentObservations(db, Head(v.left)[1], Limit(c))
             new    == [v EXCEPT !.recent = recent]
  <1>1. step[w] = "observations" /\ alone' = alone /\ See(w, new, "truths")
    BY DEF ReadObservations
  <1>2. c \in Commands /\ v \in Views /\ v.today <= now /\ c # NoCommand /\ v.left # <<>>
    BY <1>1, AtWork, CommandKinds DEF Placed
  <1>3. recent \in Seq(Observations)
    <2>1. c.name = "show" => c.limit \in Nat
      BY <1>2, CommandKinds
    <2>2. Limit(c) \in Nat
      BY <2>1 DEF Limit
    <2> QED
      BY <2>2, RecentList DEF ReadInv
  <1> HIDE DEF recent
  <1>4. new \in Views /\ new.today = v.today /\ new.left = v.left
    BY <1>2, <1>3, ViewRecent DEF Views
  <1> HIDE DEF new
  <1>5. Placed("truths", c, new, now) /\ "truths" \in Steps
    BY <1>2, <1>4, Reading
  <1>6. alone' \in [Workers -> BOOLEAN]
    BY <1>1 DEF ReadInv
  <1> QED
    BY <1>1, <1>4, <1>5, <1>6, Sees

LEMMA ReadTruthsStep ==
  ASSUME ReadInv, NEW w \in Workers, ReadTruths(w)
  PROVE  ReadInv'
  <1> DEFINE v      == view[w]
             c      == cmd[w]
             row    == Head(v.left)
             entity == [name |-> row[1], type |-> row[2], count |-> v.count,
                        observations |-> v.recent, truths |-> db.truth[row[1]]]
             left     == Tail(v.left)
             entities == Append(v.entities, entity)
             new   == [v EXCEPT !.left = left, !.count = 0, !.recent = <<>>, !.entities = entities]
             where == IF Len(v.left) = 1 THEN "relations" ELSE "count"
  <1>1. step[w] = "truths" /\ alone' = alone /\ See(w, new, where)
    BY DEF ReadTruths
  <1>2. c \in Commands /\ v \in Views /\ v.today <= now /\ c # NoCommand /\ v.left # <<>>
    BY <1>1, AtWork, CommandKinds DEF Placed
  <1>3. /\ v.left \in Seq(Names \X Types) /\ v.entities \in Seq(EntityOutputs)
        /\ v.count \in Nat /\ v.recent \in Seq(Observations)
    BY <1>2, ViewColumns
  <1>4. left \in Seq(Names \X Types) /\ (Len(v.left) # 1 => left # <<>>) /\ row \in Names \X Types
    <2>1. Len(v.left) \in Nat /\ Len(v.left) # 0
      BY <1>2, <1>3, EmptySeq
    <2>2. row \in Names \X Types
      BY <1>2, <1>3
    <2>3. left \in Seq(Names \X Types) /\ Len(left) = Len(v.left) - 1
      BY <1>2, <1>3
    <2>4. Len(v.left) # 1 => Len(left) # 0
      BY <2>1, <2>3
    <2>5. Len(<<>>) = 0
      OBVIOUS
    <2> HIDE DEF left
    <2> QED
      BY <2>2, <2>3, <2>4, <2>5
  <1>5. entity \in EntityOutputs
    <2>1. db \in Databases
      BY ConsistentIsDatabase DEF ReadInv
    <2>2. \A n \in Names : db.truth[n] \in [Keys -> Values \cup {Null}]
      BY <2>1, Columns
    <2>3. row[1] \in Names /\ row[2] \in Types
      BY <1>4
    <2> HIDE DEF row, v
    <2> QED
      BY <1>3, <2>2, <2>3 DEF EntityOutputs
  <1> HIDE DEF entity, left
  <1>6. entities \in Seq(EntityOutputs)
    BY <1>3, <1>5
  <1> HIDE DEF entities
  <1>7. new \in Views
    BY <1>2, <1>4, <1>6, ViewRow
  <1>8. new.today = v.today /\ new.left = left
    BY <1>2 DEF Views
  <1> HIDE DEF new
  <1>9. where \in {"relations", "count"} /\ (where = "count" => Len(v.left) # 1)
    OBVIOUS
  <1> HIDE DEF where
  <1>10. Placed(where, c, new, now) /\ where \in Steps
    BY <1>2, <1>4, <1>8, <1>9, Reading
  <1>11. alone' \in [Workers -> BOOLEAN]
    BY <1>1 DEF ReadInv
  <1> QED
    BY <1>1, <1>7, <1>10, <1>11, Sees

\* A file has finitely many relations.
LEMMA RelFinite ==
  ASSUME NEW d \in Databases
  PROVE  IsFiniteSet(d.rel)
  <1> DEFINE T == (Names \X Names) \X RelTypes
             f == [r \in d.rel |-> <<<<r[1], r[2]>>, r[3]>>]
  <1>1. d.rel \subseteq Names \X Names \X RelTypes
    BY Columns
  <1>2. f \in [d.rel -> T]
    BY <1>1
  <1>3. \A r, q \in d.rel : f[r] = f[q] => r = q
    BY <1>1
  <1>4. f \in Injection(d.rel, T)
    BY <1>2, <1>3 DEF Injection, IsInjective
  <1>5. IsFiniteSet(Names \X Names)
    BY NamesAssumption, FS_Product
  <1>6. IsFiniteSet(T)
    BY <1>5, QueriesAssumption, FS_Product
  <1> HIDE DEF f, T
  <1> QED
    BY <1>4, <1>6, FS_Injection

LEMMA ReadRelationsStep ==
  ASSUME ReadInv, NEW w \in Workers, ReadRelations(w)
  PROVE  ReadInv'
  <1> DEFINE c    == cmd[w]
             kept == RelationsKept(db, view[w].names, view[w].entities)
             v    == [view[w] EXCEPT !.relations = kept]
             new  == [v EXCEPT !.today = now, !.counts = <<0>>]
  <1>1. /\ step[w] = "relations"
        /\ db' = db /\ now' = now /\ files' = files /\ alone' = alone /\ started' = started
        /\ \/ c.name = "compact" /\ See(w, new, "topics")
           \/ End(w, "ok", TaskList(c, v))
           \/ End(w, "not_found", NoView)
           \/ End(w, "ok", v)
    <2> HIDE DEF kept
    <2>1. ReadRelations(w) =>
            CASE c.name = "compact" -> See(w, new, "topics")
              [] c.name = "list"    -> End(w, "ok", TaskList(c, v))
              [] c.name = "board" /\ v.entities = <<>> -> End(w, "not_found", NoView)
              [] OTHER              -> End(w, "ok", v)
      BY DEF ReadRelations, kept
    <2>2. step[w] = "relations" /\ UNCHANGED <<db, now, files, alone, started>>
      BY DEF ReadRelations
    <2> HIDE DEF v, c, new
    <2> QED
      BY <2>1, <2>2
  <1>2. c \in Commands /\ view[w] \in Views /\ c # NoCommand
    BY <1>1, AtWork, CommandKinds
  <1>3. now \in Nat /\ Consistent(db') /\ FilesGood(files', now) /\ alone' \in [Workers -> BOOLEAN]
    BY <1>1 DEF ReadInv
  <1>4. CASE c.name = "compact" /\ See(w, new, "topics")
    <2>1. kept \subseteq Names \X Names \X RelTypes
      <3>1. kept \subseteq db.rel
        BY DEF RelationsKept
      <3>2. db.rel \subseteq Names \X Names \X RelTypes
        BY Columns, ConsistentIsDatabase DEF ReadInv
      <3> QED
        BY <3>1, <3>2
    <2> HIDE DEF kept
    <2>2. v \in Views
      BY <1>2, <2>1, ViewRelations
    <2> HIDE DEF v
    <2>3. <<0>> \in Seq(Nat) /\ Len(<<0>>) = 1
      OBVIOUS
    <2>4. new \in Views
      BY <1>3, <2>2, <2>3, ViewToday
    <2>5. new.today = now /\ new.counts = <<0>>
      BY <2>2 DEF Views
    <2> HIDE DEF new
    <2>6. Placed("topics", c, new, now) /\ "topics" \in Steps
      BY <1>2, <1>3, <1>4, <2>3, <2>5 DEF Placed, Steps
    <2> QED
      BY <1>3, <1>4, <2>4, <2>6, Sees
  <1>5. CASE End(w, "ok", TaskList(c, v)) \/ End(w, "not_found", NoView) \/ End(w, "ok", v)
    <2>1. {"ok", "not_found"} \subseteq Verdicts
      BY DEF Verdicts
    <2> HIDE DEF v, c
    <2> QED
      BY <1>1, <1>3, <1>5, <2>1, Over
  <1> QED
    BY <1>1, <1>4, <1>5

LEMMA ReadStatsStep ==
  ASSUME ReadInv, NEW w \in Workers, ReadStats(w)
  PROVE  ReadInv'
  <1> DEFINE counts == view[w].counts
             next   == CASE counts = <<>>      -> Cardinality(Live(db))
                         [] Len(counts) = 1    -> Cardinality(db.rel)
                         [] Len(counts) = 2    -> Cardinality(db.obs)
             more   == Append(counts, next)
             v      == [view[w] EXCEPT !.counts = more]
  <1>1. /\ step[w] = "stats"
        /\ db' = db /\ now' = now /\ files' = files /\ alone' = alone /\ started' = started
        /\ IF Len(counts) < 2
           THEN view' = [view EXCEPT ![w] = v] /\ UNCHANGED <<step, cmd, answer>>
           ELSE End(w, "ok", v)
    BY DEF ReadStats
  <1>2. /\ cmd[w] \in Commands /\ view[w] \in Views /\ cmd[w] # NoCommand
        /\ view[w].today <= now
    BY <1>1, AtWork, CommandKinds DEF Placed
  <1>3. /\ now \in Nat /\ Consistent(db') /\ FilesGood(files', now) /\ started' \in Nat
        /\ alone' \in [Workers -> BOOLEAN] /\ "ok" \in Verdicts
    BY <1>1 DEF ReadInv, Verdicts
  <1>4. counts \in Seq(Nat) /\ Len(counts) \in Nat
    BY <1>2, ViewColumns
  <1>5. CASE Len(counts) < 2
    <2>1. Cardinality(Live(db)) \in Nat /\ Cardinality(db.rel) \in Nat
      <3>1. Live(db) \in SUBSET Names
        BY DEF Live
      <3>2. IsFiniteSet(Live(db)) /\ IsFiniteSet(db.rel)
        BY <3>1, NamesAssumption, FS_Subset, RelFinite, ConsistentIsDatabase DEF ReadInv
      <3> QED
        BY <3>2, FS_CardinalityType
    <2>2. counts = <<>> \/ Len(counts) = 1
      <3>1. \A n \in Nat : n < 2 => n = 0 \/ n = 1
        OBVIOUS
      <3>2. Len(counts) = 0 => counts = <<>>
        BY <1>4, EmptySeq
      <3> QED
        BY <1>4, <1>5, <3>1, <3>2
    <2>3. next \in Nat
      <3>1. counts = <<>> => next = Cardinality(Live(db))
        OBVIOUS
      <3>2. Len(<<>>) # 1
        OBVIOUS
      <3>3. Len(counts) = 1 => next = Cardinality(db.rel)
        BY <3>2
      <3> QED
        BY <2>1, <2>2, <3>1, <3>3
    <2> HIDE DEF next
    <2>4. more \in Seq(Nat) /\ Len(more) = Len(counts) + 1
      BY <1>4, <2>3
    <2>5. Len(more) < 3
      BY <1>4, <1>5, <2>4
    <2> HIDE DEF more
    <2>6. v \in Views /\ v.counts = more /\ v.today = view[w].today
      BY <1>2, <2>4, ViewCounts DEF Views
    <2>7. view' = [view EXCEPT ![w] = v] /\ step' = step /\ cmd' = cmd /\ answer' = answer
      BY <1>1, <1>5
    <2> HIDE DEF v
    <2>8. Placed("stats", cmd[w], v, now) /\ "stats" \in Steps
      BY <1>2, <2>5, <2>6 DEF Placed, Steps
    <2>9. /\ step' = [step EXCEPT ![w] = "stats"] /\ cmd' = [cmd EXCEPT ![w] = cmd[w]]
          /\ cmd[w] \in Commands \cup {NoCommand}
      BY <1>1, <1>2, <2>7 DEF ReadInv
    <2> QED
      BY <1>1, <1>3, <2>6, <2>7, <2>8, <2>9, Moves
  <1>6. CASE ~(Len(counts) < 2)
    <2>1. End(w, "ok", v)
      BY <1>1, <1>6
    <2> HIDE DEF v
    <2> QED
      BY <1>1, <1>3, <2>1, Over
  <1> QED
    BY <1>5, <1>6

\* What the checks of compact read of a topic.
LEMMA TopicColumns ==
  ASSUME NEW entity, NEW relations, NEW time
  PROVE  /\ Topic(entity, relations, time).compacted = time
         /\ Topic(entity, relations, time).type = entity.type
  BY DEF Topic

LEMMA FilePut ==
  ASSUME NEW f, NEW time, FilesGood(f, time), NEW slug, NEW file,
         Parsed(file) => file.compacted \in 0..time /\ file.type \in Types \ {"task"}
  PROVE  FilesGood([f EXCEPT ![slug] = file], time)
  <1> DEFINE g == [f EXCEPT ![slug] = file]
  <1>1. f = [s \in Slugs |-> f[s]]
    BY DEF FilesGood
  <1>2. DOMAIN f = Slugs
    BY <1>1, Zenon
  <1>3. g = [s \in Slugs |-> g[s]] /\ \A s \in Slugs : g[s] = IF s = slug THEN file ELSE f[s]
    BY <1>2
  <1> HIDE DEF g
  <1>4. \A s \in Slugs : Parsed(g[s]) =>
          g[s].compacted \in 0..time /\ g[s].type \in Types \ {"task"}
    BY <1>3 DEF FilesGood
  <1>5. FilesGood(g, time)
    BY <1>3, <1>4 DEF FilesGood
  <1> QED
    BY <1>5 DEF g

\* The entity whose turn it is, and the view without it.
LEMMA TopicTurn ==
  ASSUME NEW v \in Views, v.entities # <<>>
  PROVE  /\ Head(v.entities) \in EntityOutputs /\ Head(v.entities).type \in Types
         /\ NextTopic(v) \in Views /\ NextTopic(v).today = v.today
         /\ NextTopic(v).counts = v.counts
  <1>1. v.entities \in Seq(EntityOutputs)
    BY ViewColumns
  <1>2. Head(v.entities) \in EntityOutputs
    BY <1>1
  <1> DEFINE rest == Tail(v.entities)
             new  == [v EXCEPT !.entities = rest]
  <1>3. rest \in Seq(EntityOutputs)
    BY <1>1
  <1>4. NextTopic(v) = new
    BY DEF NextTopic
  <1> HIDE DEF rest
  <1>5. new \in Views /\ new.today = v.today /\ new.counts = v.counts
    BY <1>3, ViewEntities DEF Views
  <1>6. Head(v.entities).type \in Types
    BY <1>2 DEF EntityOutputs
  <1> QED
    BY <1>2, <1>4, <1>5, <1>6

LEMMA CheckTopicStep ==
  ASSUME ReadInv, NEW w \in Workers, CheckTopic(w)
  PROVE  ReadInv'
  <1> DEFINE v      == view[w]
             entity == Head(v.entities)
             slug   == Slug[entity.name]
             old    == UpToDate(files[slug], entity, v.relations)
             over   == [NoView EXCEPT !.counts = v.counts]
  <1>1. /\ step[w] = "topics"
        /\ db' = db /\ now' = now /\ alone' = alone /\ started' = started
        /\ \/ End(w, "ok", over) /\ files' = files
           \/ /\ v.entities # <<>> /\ view' = [view EXCEPT ![w] = NextTopic(v)]
              /\ files' = files /\ step' = step /\ cmd' = cmd /\ answer' = answer
           \/ /\ v.entities # <<>> /\ ShouldSync(entity.type)
              /\ files' = [files EXCEPT ![slug] = Empty]
              /\ step' = [step EXCEPT ![w] = "put"]
              /\ view' = view /\ cmd' = cmd /\ answer' = answer
    <2>1. IF v.entities = <<>>
          THEN End(w, "ok", over) /\ files' = files
          ELSE IF ~ShouldSync(entity.type) \/ old
          THEN /\ view' = [view EXCEPT ![w] = NextTopic(v)]
               /\ files' = files /\ step' = step /\ cmd' = cmd /\ answer' = answer
          ELSE /\ files' = [files EXCEPT ![slug] = Empty]
               /\ step' = [step EXCEPT ![w] = "put"]
               /\ view' = view /\ cmd' = cmd /\ answer' = answer
      BY DEF CheckTopic, Goto
    <2>2. /\ step[w] = "topics"
          /\ db' = db /\ now' = now /\ alone' = alone /\ started' = started
      BY DEF CheckTopic
    <2> HIDE DEF v, entity, slug, old, over
    <2> QED
      BY <2>1, <2>2
  <1>2. /\ cmd[w] \in Commands /\ v \in Views /\ cmd[w] # NoCommand
        /\ cmd[w].name = "compact" /\ Len(v.counts) = 1 /\ v.today <= now
    BY <1>1, AtWork, CommandKinds DEF Placed
  <1>3. /\ now \in Nat /\ Consistent(db') /\ FilesGood(files, now) /\ started' \in Nat
        /\ alone' \in [Workers -> BOOLEAN] /\ "ok" \in Verdicts
    BY <1>1 DEF ReadInv, Verdicts
  <1>4. cmd[w] \in Commands \cup {NoCommand} /\ "topics" \in Steps /\ "put" \in Steps
    BY <1>2 DEF Steps
  <1>5. CASE End(w, "ok", over) /\ files' = files
    <2> HIDE DEF over
    <2> QED
      BY <1>1, <1>3, <1>5, Over
  <1>6. CASE /\ v.entities # <<>> /\ view' = [view EXCEPT ![w] = NextTopic(v)]
             /\ files' = files /\ step' = step /\ cmd' = cmd /\ answer' = answer
    <2> DEFINE new == NextTopic(v)
    <2>1. new \in Views /\ new.today = v.today /\ new.counts = v.counts
      BY <1>2, <1>6, TopicTurn
    <2>2. view' = [view EXCEPT ![w] = new]
      BY <1>6
    <2> HIDE DEF new
    <2>3. Placed("topics", cmd[w], new, now)
      BY <1>2, <2>1 DEF Placed
    <2>4. step' = [step EXCEPT ![w] = "topics"] /\ cmd' = [cmd EXCEPT ![w] = cmd[w]]
      BY <1>1, <1>6 DEF ReadInv
    <2>5. FilesGood(files', now) /\ answer' = answer
      BY <1>3, <1>6
    <2> HIDE DEF v, entity, slug
    <2> QED
      BY <1>1, <1>3, <1>4, <2>1, <2>2, <2>3, <2>4, <2>5, Moves
  <1>7. CASE /\ v.entities # <<>> /\ ShouldSync(entity.type)
             /\ files' = [files EXCEPT ![slug] = Empty]
             /\ step' = [step EXCEPT ![w] = "put"]
             /\ view' = view /\ cmd' = cmd /\ answer' = answer
    <2>1. FilesGood(files', now)
      <3>1. ~Parsed(Empty)
        BY DEF Parsed
      <3> HIDE DEF slug
      <3> QED
        BY <1>3, <1>7, <3>1, FilePut
    <2>2. entity.type # "task"
      BY <1>7 DEF ShouldSync
    <2>3. Placed("put", cmd[w], v, now)
      BY <1>2, <1>7, <2>2 DEF Placed
    <2>4. view' = [view EXCEPT ![w] = v] /\ cmd' = [cmd EXCEPT ![w] = cmd[w]]
      BY <1>7 DEF ReadInv
    <2>5. step' = [step EXCEPT ![w] = "put"] /\ answer' = answer
      BY <1>7
    <2> HIDE DEF v, entity, slug
    <2> QED
      BY <1>1, <1>2, <1>3, <1>4, <2>1, <2>3, <2>4, <2>5, Moves
  <1> HIDE DEF v, entity, slug, over
  <1> QED
    BY <1>1, <1>5, <1>6, <1>7

LEMMA PutTopicStep ==
  ASSUME ReadInv, NEW w \in Workers, PutTopic(w)
  PROVE  ReadInv'
  <1> DEFINE v     == view[w]
             slug  == Slug[Head(v.entities).name]
             text  == Topic(Head(v.entities), v.relations, v.today)
             count == <<v.counts[1] + 1>>
             new   == [NextTopic(v) EXCEPT !.counts = count]
  <1>1. /\ step[w] = "put"
        /\ view' = [view EXCEPT ![w] = new] /\ step' = [step EXCEPT ![w] = "topics"]
        /\ db' = db /\ now' = now /\ cmd' = cmd /\ answer' = answer
        /\ alone' = alone /\ started' = started
    BY DEF PutTopic, Goto
  <1>2. PICK result \in {text, Torn} : files' = [files EXCEPT ![slug] = result]
    <2> DEFINE same == /\ Parsed(files[slug])
                       /\ files[slug] = [text EXCEPT !.compacted = files[slug].compacted]
    <2>1. \E result \in {text} \cup IF files[slug] = Empty \/ same THEN {} ELSE {Torn} :
            files' = [files EXCEPT ![slug] = result]
      BY DEF PutTopic
    <2> HIDE DEF text, same, slug
    <2> QED
      BY <2>1
  <1>3. /\ cmd[w] \in Commands /\ v \in Views /\ cmd[w] # NoCommand /\ cmd[w].name = "compact"
        /\ Len(v.counts) = 1 /\ v.today <= now /\ v.entities # <<>>
        /\ Head(v.entities).type # "task"
    BY <1>1, AtWork, CommandKinds DEF Placed
  <1>4. /\ now \in Nat /\ Consistent(db') /\ FilesGood(files, now) /\ started' \in Nat
        /\ alone' \in [Workers -> BOOLEAN] /\ "topics" \in Steps
    BY <1>1 DEF ReadInv, Steps
  <1>5. v.counts \in Seq(Nat) /\ v.today \in Nat
    BY <1>3, ViewColumns
  <1>6. FilesGood(files', now)
    <2>1. text.compacted = v.today /\ text.type = Head(v.entities).type
      BY TopicColumns
    <2>2. text.compacted \in 0..now /\ text.type \in Types \ {"task"}
      BY <1>3, <1>4, <1>5, <2>1, TopicTurn
    <2>3. ~Parsed(Torn)
      BY DEF Parsed
    <2> HIDE DEF text, slug
    <2> QED
      BY <1>2, <1>4, <2>2, <2>3, FilePut
  <1>7. count \in Seq(Nat) /\ Len(count) = 1
    <2>1. v.counts[1] \in Nat
      BY <1>3, <1>5
    <2>2. v.counts[1] + 1 \in Nat
      BY <2>1
    <2> QED
      BY <2>2
  <1> HIDE DEF count
  <1>8. new \in Views /\ new.counts = count /\ new.today = v.today
    <2>1. NextTopic(v) \in Views /\ NextTopic(v).today = v.today
      BY <1>3, TopicTurn
    <2>2. new \in Views
      BY <1>7, <2>1, ViewCounts
    <2> QED
      BY <2>1, <2>2 DEF Views
  <1> HIDE DEF new
  <1>9. Placed("topics", cmd[w], new, now)
    BY <1>3, <1>7, <1>8 DEF Placed
  <1>10. cmd' = [cmd EXCEPT ![w] = cmd[w]] /\ cmd[w] \in Commands \cup {NoCommand}
    BY <1>1, <1>3 DEF ReadInv
  <1> QED
    BY <1>1, <1>4, <1>6, <1>8, <1>9, <1>10, Moves

----------------------------------------------------------------------------
(* The environment. *)

LEMMA BreakOffStep ==
  ASSUME ReadInv, NEW w \in Workers, BreakOff(w)
  PROVE  ReadInv'
  <1> DEFINE c == cmd[w]
             o == RequestOutcome(db, c.request, now)
             slug == Slug[Head(view[w].entities).name]
  <1>1. /\ step[w] # "idle" /\ now' = now /\ started' = started
        /\ alone' = [x \in Workers |-> alone[x] /\ db' = db]
        /\ End(w, "failed", NoView)
        /\ \/ db' = db /\ files' = files
           \/ step[w] = "write" /\ db' = o.graph /\ files' = files
           \/ step[w] = "put" /\ files' = [files EXCEPT ![slug] = Torn] /\ db' = db
    BY DEF BreakOff
  <1>2. /\ now \in Nat /\ Consistent(db) /\ FilesGood(files, now)
        /\ alone' \in [Workers -> BOOLEAN] /\ "failed" \in Verdicts
    BY <1>1 DEF ReadInv, Verdicts
  <1>3. step[w] = "write" => Consistent(o.graph)
    <2> HAVE step[w] = "write"
    <2>1. c \in Commands /\ c.name = "write"
      BY AtWork DEF Placed
    <2>2. /\ c.request.op \in Operations \ {"sweep"}
          /\ c.request.items \in Seq(ItemsOf(c.request.op))
      BY <2>1, CommandKinds
    <2> HIDE DEF c
    <2> QED
      BY <1>2, <2>2, CallConsistent
  <1>4. FilesGood([files EXCEPT ![slug] = Torn], now)
    <2>1. ~Parsed(Torn)
      BY DEF Parsed
    <2> HIDE DEF slug
    <2> QED
      BY <1>2, <2>1, FilePut
  <1>5. Consistent(db') /\ FilesGood(files', now)
    <2> HIDE DEF o, slug
    <2> QED
      BY <1>1, <1>2, <1>3, <1>4
  <1> QED
    BY <1>1, <1>2, <1>5, Over

LEMMA TickStep ==
  ASSUME ReadInv, Tick
  PROVE  ReadInv'
  <1>1. /\ now \in Nat /\ now' = now + 1
        /\ db' = db /\ files' = files /\ step' = step /\ cmd' = cmd /\ view' = view
        /\ answer' = answer /\ alone' = alone /\ started' = started
    BY DEF Tick, ReadInv
  <1>2. now' \in Nat
    BY <1>1
  <1>3. FilesGood(files', now')
    <2>1. 0..now \subseteq 0..now'
      BY <1>1
    <2> QED
      BY <1>1, <2>1 DEF FilesGood, ReadInv
  <1>4. ASSUME NEW w \in Workers
        PROVE  Placed(step'[w], cmd'[w], view'[w], now')
    <2>1. Placed(step[w], cmd[w], view[w], now) /\ view[w].today \in Nat
      BY ViewColumns DEF ReadInv
    <2>2. view[w].today <= now'
      BY <1>1, <2>1 DEF Placed
    <2> QED
      BY <1>1, <2>1, <2>2 DEF Placed
  <1> QED
    BY <1>1, <1>2, <1>3, <1>4 DEF ReadInv

LEMMA ReadInit ==
  ASSUME Init
  PROVE  ReadInv
  <1>1. Consistent(db) /\ now = 0
    BY CommandsAssumption DEF Init
  <1>2. FilesGood(files, now)
    <2> DEFINE Durable == Live(db) \ Tasks(db)
               Named(s) == CHOOSE n \in Durable : Slug[n] = s
               Left(s) == Topic(WholeEntity(db, Named(s)), db.rel, 0)
    <2>1. files \in {[s \in Slugs |-> Absent],
                     [s \in Slugs |-> IF \E n \in Durable : Slug[n] = s THEN Left(s) ELSE Absent]}
      BY DEF Init, InitialFiles
    <2>2. ~Parsed(Absent)
      BY DEF Parsed
    <2>3. \A s \in Slugs : (\E n \in Durable : Slug[n] = s) =>
            Left(s).compacted = 0 /\ Left(s).type \in Types \ {"task"}
      <3> TAKE s \in Slugs
      <3> HAVE \E n \in Durable : Slug[n] = s
      <3>1. Named(s) \in Durable
        <4> HIDE DEF Durable
        <4> QED
          OBVIOUS
      <3>2. Left(s).compacted = 0 /\ Left(s).type = WholeEntity(db, Named(s)).type
        BY TopicColumns
      <3> HIDE DEF Named
      <3>3. WholeEntity(db, Named(s)).type = db.type[Named(s)]
        BY DEF WholeEntity
      <3>4. db.type[Named(s)] \in Types \ {"task"}
        BY <1>1, <3>1, Columns, ConsistentIsDatabase DEF Live, Tasks
      <3> HIDE DEF Left
      <3> QED
        BY <3>2, <3>3, <3>4
    <2> HIDE DEF Durable, Left
    <2>4. files = [s \in Slugs |-> files[s]]
      BY <2>1
    <2>5. \A s \in Slugs : files[s] = Absent \/ (files[s] = Left(s) /\ \E n \in Durable : Slug[n] = s)
      BY <2>1
    <2>6. 0 \in 0..0
      OBVIOUS
    <2>7. \A s \in Slugs : Parsed(files[s]) =>
            files[s].compacted \in 0..0 /\ files[s].type \in Types \ {"task"}
      BY <2>2, <2>3, <2>5, <2>6
    <2> QED
      BY <1>1, <2>4, <2>7 DEF FilesGood
  <1>3. /\ step \in [Workers -> Steps] /\ cmd \in [Workers -> Commands \cup {NoCommand}]
        /\ view \in [Workers -> Views] /\ alone \in [Workers -> BOOLEAN]
    BY NoViewIsView DEF Init, Steps
  <1>4. /\ answer = [w \in Workers |-> answer[w]]
        /\ \A w \in Workers : answer[w].verdict \in Verdicts
    BY DEF Init, Silence, Verdicts
  <1>5. \A w \in Workers : Placed(step[w], cmd[w], view[w], now)
    BY <1>1, NothingPlaced DEF Init
  <1>6. now \in Nat /\ started \in Nat
    BY DEF Init
  <1> QED
    BY <1>1, <1>2, <1>3, <1>4, <1>5, <1>6 DEF ReadInv

LEMMA ActStep ==
  ASSUME ReadInv, NEW w \in Workers, Act(w)
  PROVE  ReadInv'
  <1>1. ASSUME NEW c \in Commands, Start(w, c)
        PROVE  ReadInv'
    BY <1>1, StartStep
  <1>2. CASE Write(w)
    BY <1>2, WriteStep
  <1>3. CASE SearchPath(w)
    BY <1>3, SearchPathStep
  <1>4. CASE SearchPathFails(w)
    BY <1>4, SearchPathFailsStep
  <1>5. CASE SearchFilter(w)
    BY <1>5, SearchFilterStep
  <1>6. CASE ExpandNames(w)
    BY <1>6, ExpandNamesStep
  <1>7. CASE ReadRows(w)
    BY <1>7, ReadRowsStep
  <1>8. CASE ReadCount(w)
    BY <1>8, ReadCountStep
  <1>9. CASE ReadObservations(w)
    BY <1>9, ReadObservationsStep
  <1>10. CASE ReadTruths(w)
    BY <1>10, ReadTruthsStep
  <1>11. CASE ReadRelations(w)
    BY <1>11, ReadRelationsStep
  <1>12. CASE ReadStats(w)
    BY <1>12, ReadStatsStep
  <1>13. CASE CheckTopic(w)
    BY <1>13, CheckTopicStep
  <1>14. CASE PutTopic(w)
    BY <1>14, PutTopicStep
  <1>15. CASE BreakOff(w)
    BY <1>15, BreakOffStep
  <1> QED
    BY <1>1, <1>2, <1>3, <1>4, <1>5, <1>6, <1>7, <1>8, <1>9, <1>10, <1>11, <1>12, <1>13, <1>14,
       <1>15 DEF Act

LEMMA NothingHappens ==
  ASSUME ReadInv, UNCHANGED vars
  PROVE  ReadInv'
  BY DEF ReadInv, vars

LEMMA ReadsInvariant == Spec => []ReadInv
  <1>1. Init => ReadInv
    BY ReadInit
  <1>2. ReadInv /\ [Next]_vars => ReadInv'
    <2> SUFFICES ASSUME ReadInv, [Next]_vars
                 PROVE  ReadInv'
      OBVIOUS
    <2>1. ASSUME NEW w \in Workers, Act(w)
          PROVE  ReadInv'
      BY <2>1, ActStep
    <2>2. CASE Tick
      BY <2>2, TickStep
    <2>3. CASE UNCHANGED vars
      BY <2>3, NothingHappens
    <2> QED
      BY <2>1, <2>2, <2>3 DEF Next
  <1> QED
    BY <1>1, <1>2, PTL DEF Spec

----------------------------------------------------------------------------
(* The properties. *)

\* Whatever the graph, the commands and their interleaving: no query answers
\* what its reader cannot take, no topic is written for a task or stamped with a
\* time to come, and only compact writes topics (all of the reads and compact).
THEOREM ReadsWellTyped == Spec => []TypeOK
  <1>1. ReadInv => TypeOK
    <2> SUFFICES ASSUME ReadInv
                 PROVE  TypeOK
      OBVIOUS
    <2>1. db \in Databases
      BY ConsistentIsDatabase DEF ReadInv
    <2>2. ASSUME NEW w \in Workers
          PROVE  /\ step[w] = "idle" <=> cmd[w] = NoCommand
                 /\ view[w] \in Views
                 /\ step[w] \in {"topics", "put"} => cmd[w].name = "compact"
                 /\ answer[w].verdict \in Verdicts
      BY DEF ReadInv, Placed
    <2> QED
      BY <2>1, <2>2 DEF ReadInv, FilesGood, TypeOK
  <1> QED
    BY <1>1, ReadsInvariant, PTL

\* Whatever name a user gives, and however an epic was spelled when a task was
\* added to it (normalize_key).
THEOREM NamesAreNormal == Spec => []NamesNormal
  <1>1. Samples \subseteq Seq(Chars)
    BY CommandsAssumption
  <1>2. NamesNormal
    BY <1>1, NormalTwice, NormalChild DEF NamesNormal
  <1> QED
    BY <1>2, PTL

\* Whatever a value holds (quote, unquote).
THEOREM QuotesAreReversible == Spec => []QuoteReversible
  <1>1. Samples \subseteq Seq(Chars)
    BY CommandsAssumption
  <1>2. QuoteReversible
    BY <1>1, QuotedReadsBack DEF QuoteReversible
  <1> QED
    BY <1>2, PTL
=============================================================================
