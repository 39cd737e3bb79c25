-------------------------- MODULE ConfigFileProofs -------------------------
(***************************************************************************)
(* The searches of CConfigFile find what the author of a file means, for   *)
(* any sections, keys, values, lines and texts, and any buffer; no value   *)
(* is cut inside a character; a set keeps to its section, and does what    *)
(* ConfigStore promises.                                                   *)
(***************************************************************************)
EXTENDS ConfigFile, FiniteSetTheorems, SequenceTheorems, WellFoundedInduction, TLAPS

-----------------------------------------------------------------------------
(* Texts, and parts of texts.                                              *)

\* Two texts one behind the other.
LEMMA JoinedIs ==
    ASSUME NEW a \in Seq(Chars), NEW b \in Seq(Chars)
    PROVE  /\ a \o b \in Seq(Chars) /\ Len(a \o b) = Len(a) + Len(b)
           /\ \A i \in 1 .. Len(a) : (a \o b)[i] = a[i]
           /\ \A i \in 1 .. Len(b) : (a \o b)[Len(a) + i] = b[i]
  OBVIOUS

\* A part of a text.
LEMMA PartIs ==
    ASSUME NEW t \in Seq(Chars), NEW m \in Nat, NEW n \in Nat, 1 <= m, m <= n + 1, n <= Len(t)
    PROVE  /\ SubSeq(t, m, n) \in Seq(Chars) /\ Len(SubSeq(t, m, n)) = n + 1 - m
           /\ \A i \in 1 .. n + 1 - m : SubSeq(t, m, n)[i] = t[m + i - 1]
  OBVIOUS

\* Texts that agree everywhere are the same.
LEMMA SameText ==
    ASSUME NEW a \in Seq(Chars), NEW b \in Seq(Chars), Len(a) = Len(b),
           \A i \in 1 .. Len(a) : a[i] = b[i]
    PROVE  a = b
  OBVIOUS

\* A text of one character.
LEMMA OneIs ==
    ASSUME NEW T, NEW c \in T
    PROVE  <<c>> \in Seq(T) /\ Len(<<c>>) = 1 /\ <<c>>[1] = c
  OBVIOUS

-----------------------------------------------------------------------------
(* Searches that resume further on: they end, and a rule for what they find.*)

\* A set of numbers that is not empty has a least one.
LEMMA LeastOne ==
    ASSUME NEW T, T \subseteq Nat, T # {}
    PROVE  \E x \in T : \A y \in T : x <= y
<1>1. PICK x \in T : \A y \in T : ~(<<y, x>> \in OpToRel(<, Nat))
  BY WFMin, NatLessThanWellFounded
<1>2. \A y \in T : ~(y < x)
  BY <1>1 DEF OpToRel
<1> QED
  BY <1>2

\* Min returns the least number of a set.
LEMMA MinIs ==
    ASSUME NEW T, T \subseteq Nat, T # {}
    PROVE  Min(T) \in T /\ \A y \in T : Min(T) <= y
<1>1. \E x \in T : \A y \in T : x <= y
  BY LeastOne
<1> QED
  BY <1>1 DEF Min

\* Max of two numbers: where a loop that passes its end stops.
LEMMA MaxOfTwo ==
    ASSUME NEW a \in Nat, NEW b \in Nat
    PROVE  Max({a, b}) = IF a >= b THEN a ELSE b
<1>1. CASE a >= b
  <2>1. \A y \in {a, b} : a >= y
    BY <1>1
  <2> QED
    BY <1>1, <2>1 DEF Max
<1>2. CASE ~(a >= b)
  <2>1. \A y \in {a, b} : b >= y
    BY <1>2
  <2>2. ~(a >= b) /\ b # a
    BY <1>2
  <2> QED
    BY <1>2, <2>1, <2>2 DEF Max
<1> QED
  BY <1>1, <1>2

-----------------------------------------------------------------------------
(* Searches that resume further right until they stop: f[b] is val[b] where *)
(* stop[b], and f[next[b]] elsewhere.                                       *)

Search(D, stop, val, next, f) == [b \in D |-> IF stop[b] THEN val[b] ELSE f[next[b]]]

\* It resumes behind where it was, within the text.
Forward(N, stop, next) == \A b \in 1 .. N : ~stop[b] => next[b] \in b + 1 .. N

\* A function from the positions that searches like that.
Solvable(N, S, stop, val, next) ==
    \E f \in [1 .. N -> S] : f = Search(1 .. N, stop, val, next, f)

\* R holds where the search stops, and is handed back from where it resumes.
Handed(N, stop, val, next, f, R) ==
    /\ \A b \in 1 .. N : stop[b] => <<b, val[b]>> \in R
    /\ \A b \in 1 .. N : ~stop[b] /\ <<next[b], f[next[b]]>> \in R => <<b, f[next[b]]>> \in R

\* R holds of what the search returns, from every position.
Yields(N, f, R) == \A b \in 1 .. N : <<b, f[b]>> \in R

\* Such a search is defined for every position of a text.
LEMMA SearchExists ==
    ASSUME NEW N \in Nat, NEW S, NEW stop, NEW val \in [1 .. N -> S], NEW next,
           Forward(N, stop, next)
    PROVE  Solvable(N, S, stop, val, next)
<1> USE DEF Forward, Solvable
<1> DEFINE Solves(f, m) == f = Search(m .. N, stop, val, next, f)
           Bad == {n \in 0 .. N : ~\E f \in [N + 1 - n .. N -> S] : Solves(f, N + 1 - n)}
<1>1. SUFFICES Bad = {}
  <2>1. N \in 0 .. N /\ N + 1 - N = 1
    OBVIOUS
  <2>2. \E f \in [N + 1 - N .. N -> S] : Solves(f, N + 1 - N)
    BY <1>1, <2>1
  <2> QED
    BY <2>1, <2>2
<1>2. SUFFICES ASSUME Bad # {}
               PROVE  FALSE
  OBVIOUS
<1>3. PICK n \in Bad : \A y \in Bad : n <= y
  <2>1. Bad \subseteq Nat
    OBVIOUS
  <2> HIDE DEF Bad
  <2> QED
    BY <1>2, <2>1, LeastOne
<1>4. n \in 0 .. N
  OBVIOUS
<1>5. n # 0
  <2> SUFFICES ASSUME n = 0
               PROVE  FALSE
    OBVIOUS
  <2>1. N + 1 - n .. N = {}
    OBVIOUS
  <2> DEFINE f == [b \in {} |-> val[b]]
  <2>2. f \in [{} -> S] /\ f = Search({}, stop, val, next, f)
    BY DEF Search
  <2> QED
    BY <1>3, <2>1, <2>2
<1>6. n - 1 \in 0 .. N /\ n - 1 \notin Bad
  <2> HIDE DEF Bad
  <2>1. n - 1 \in 0 .. N /\ ~(n <= n - 1)
    BY <1>4, <1>5
  <2> QED
    BY <1>3, <2>1
<1>7. PICK g \in [N + 1 - (n - 1) .. N -> S] : Solves(g, N + 1 - (n - 1))
  BY <1>6
<1> DEFINE m == N + 1 - n
           here == IF stop[m] THEN val[m] ELSE g[next[m]]
           h == [b \in m .. N |-> IF b = m THEN here ELSE g[b]]
<1>8. m \in 1 .. N /\ N + 1 - (n - 1) = m + 1
  BY <1>4, <1>5
<1>9. here \in S
  BY <1>7, <1>8
<1>10. h \in [m .. N -> S]
  BY <1>7, <1>8, <1>9
<1>11. \A b \in m .. N : h[b] = IF stop[b] THEN val[b] ELSE h[next[b]]
  <2> TAKE b \in m .. N
  <2>1. b \in 1 .. N /\ (~stop[b] => next[b] \in b + 1 .. N /\ next[b] # m /\ next[b] \in m + 1 .. N)
    BY <1>8
  <2>2. CASE b = m
    BY <2>1, <2>2
  <2>3. CASE b # m
    <3>1. b \in m + 1 .. N
      BY <2>3, <1>8
    <3>2. g[b] = IF stop[b] THEN val[b] ELSE g[next[b]]
      BY <3>1, <1>7, <1>8 DEF Search
    <3> QED
      BY <2>1, <2>3, <3>1, <3>2
  <2> QED
    BY <2>2, <2>3
<1>12. Solves(h, m)
  <2> HIDE DEF h
  <2>1. h = [b \in m .. N |-> h[b]]
    BY <1>10
  <2> QED
    BY <1>11, <2>1 DEF Search
<1> QED
  BY <1>3, <1>10, <1>12

\* What holds where a search stops, and is handed from where it resumes to
\* where it came from, holds of what it returns.
LEMMA SearchRule ==
    ASSUME NEW N \in Nat, NEW stop, NEW val, NEW next, NEW R, NEW f,
           f = Search(1 .. N, stop, val, next, f),
           Forward(N, stop, next), Handed(N, stop, val, next, f, R)
    PROVE  Yields(N, f, R)
<1> USE DEF Forward, Handed, Yields
<1> DEFINE Bad == {n \in 0 .. N : n < N /\ <<N - n, f[N - n]>> \notin R}
<1>1. SUFFICES Bad = {}
  <2> TAKE b \in 1 .. N
  <2>1. N - b \in 0 .. N /\ N - b < N /\ N - (N - b) = b
    OBVIOUS
  <2> QED
    BY <1>1, <2>1
<1>2. SUFFICES ASSUME Bad # {}
               PROVE  FALSE
  OBVIOUS
<1>3. PICK n \in Bad : \A y \in Bad : n <= y
  <2>1. Bad \subseteq Nat
    OBVIOUS
  <2> HIDE DEF Bad
  <2> QED
    BY <1>2, <2>1, LeastOne
<1> DEFINE b == N - n
<1>4. n \in 0 .. N /\ b \in 1 .. N
  BY <1>3
<1>5. f[b] = IF stop[b] THEN val[b] ELSE f[next[b]]
  BY <1>4 DEF Search
<1>6. ~stop[b]
  BY <1>3, <1>4, <1>5
<1>7. next[b] \in b + 1 .. N
  BY <1>4, <1>6
<1>8. /\ N - next[b] \in 0 .. N /\ N - next[b] < n /\ N - next[b] < N
      /\ N - (N - next[b]) = next[b]
  BY <1>4, <1>7
<1>9. <<next[b], f[next[b]]>> \in R
  <2>1. N - next[b] \notin Bad
    <3> HIDE DEF Bad
    <3>1. ~(n <= N - next[b])
      BY <1>4, <1>7
    <3> QED
      BY <1>3, <3>1
  <2> QED
    BY <1>8, <2>1
<1> QED
  BY <1>3, <1>4, <1>5, <1>6, <1>9

-----------------------------------------------------------------------------
(* strstr, and the search for a word with a space before and behind it.    *)

\* strstr finds the first place at or behind from.
FirstPlace(t, w, from, p) ==
    /\ p \in Nat
    /\ p # 0 => p >= from /\ Occurs(t, w, p)
    /\ \A q \in Nat : q >= from /\ Occurs(t, w, q) => p # 0 /\ p <= q

\* strstr returns the first place of the word, or 0.
LEMMA StrstrIs ==
    ASSUME NEW t, Len(t) \in Nat, NEW w, Len(w) \in Nat, NEW from \in Nat \ {0}
    PROVE  FirstPlace(t, w, from, strstr(t, from, w))
<1> DEFINE p == strstr(t, from, w)
           found == {q \in from .. Len(t) + 1 - Len(w) : \A i \in DOMAIN w : t[q + i - 1] = w[i]}
<1>1. p = IF found = {} THEN 0 ELSE Min(found)
  BY DEF strstr
<1>2. \A q \in Nat : q >= from /\ Occurs(t, w, q) => q \in found
  BY DEF Occurs
<1>3. \A q \in found : q >= from /\ Occurs(t, w, q) /\ q \in Nat /\ q # 0
  BY DEF Occurs
<1> HIDE DEF found, p
<1>4. CASE found = {}
  BY <1>1, <1>2, <1>4 DEF p, FirstPlace
<1>5. CASE found # {}
  <2>1. p \in found /\ \A q \in found : p <= q
    BY <1>1, <1>3, <1>5, MinIs
  <2> QED
    BY <2>1, <1>2, <1>3 DEF p, FirstPlace
<1> QED
  BY <1>4, <1>5

\* SearchMarchStr is such a search.
MarchStop(t, w) ==
    [b \in 1 .. Len(t) + 1 |->
        \/ strstr(t, b, w) = 0
        \/ /\ b < strstr(t, b, w) => At(t, strstr(t, b, w) - 1) \in Space
           /\ At(t, strstr(t, b, w) + Len(w)) \in Space \cup {"="}]
\* What it returns there.
MarchVal(t, w)  == [b \in 1 .. Len(t) + 1 |-> strstr(t, b, w)]
\* Otherwise it resumes behind the place it has looked at.
MarchNext(t, w) == [b \in 1 .. Len(t) + 1 |-> strstr(t, b, w) + Len(w)]

\* f is that search.
Marches(t, w, f) == f = Search(1 .. Len(t) + 1, MarchStop(t, w), MarchVal(t, w), MarchNext(t, w), f)

\* It resumes behind a place of the word, within the text.
LEMMA MarchForward ==
    ASSUME NEW t, Len(t) \in Nat, NEW w, Len(w) \in Nat \ {0}
    PROVE  \A b \in 1 .. Len(t) + 1 : ~MarchStop(t, w)[b] =>
              /\ strstr(t, b, w) \in b .. Len(t) + 1 - Len(w)
              /\ MarchNext(t, w)[b] = strstr(t, b, w) + Len(w)
              /\ MarchNext(t, w)[b] \in b + 1 .. Len(t) + 1
<1> TAKE b \in 1 .. Len(t) + 1
<1>1. b \in Nat \ {0}
  OBVIOUS
<1> DEFINE p == strstr(t, b, w)
<1>2. p \in Nat /\ (p # 0 => p >= b /\ Occurs(t, w, p))
  BY <1>1, StrstrIs DEF FirstPlace
<1>3. ~MarchStop(t, w)[b] => p # 0
  BY DEF MarchStop
<1>4. MarchNext(t, w)[b] = p + Len(w)
  BY DEF MarchNext
<1> HIDE DEF p
<1>5. ~MarchStop(t, w)[b] => p \in b .. Len(t) + 1 - Len(w)
  BY <1>2, <1>3 DEF Occurs
<1> QED
  BY <1>4, <1>5 DEF p

\* f is the search SearchMarchStr makes.
Found(t, w, f) == Marches(t, w, f) /\ \A from : SearchMarchStr(t, from, w) = f[from]

\* So SearchMarchStr is defined, for every text and every word that is not empty.
LEMMA MarchIs ==
    ASSUME NEW t, Len(t) \in Nat, NEW w, Len(w) \in Nat \ {0}
    PROVE  \E f : Found(t, w, f)
<1> DEFINE Step(f) ==
             [b \in 1 .. Len(t) + 1 |->
                LET p == strstr(t, b, w)
                IN  IF \/ p = 0
                       \/ /\ b < p => At(t, p - 1) \in Space
                          /\ At(t, p + Len(w)) \in Space \cup {"="}
                    THEN p
                    ELSE f[p + Len(w)]]
           to == CHOOSE f : f = Step(f)
<1>1. ASSUME NEW f
      PROVE  Step(f) = Search(1 .. Len(t) + 1, MarchStop(t, w), MarchVal(t, w), MarchNext(t, w), f)
  BY Zenon DEF Search, MarchStop, MarchVal, MarchNext
<1>2. \E f : f = Step(f)
  <2>1. Len(t) + 1 \in Nat
    OBVIOUS
  <2>2. MarchVal(t, w) \in [1 .. Len(t) + 1 -> Nat]
    BY SMTT(20), StrstrIs DEF MarchVal, FirstPlace
  <2>3. Forward(Len(t) + 1, MarchStop(t, w), MarchNext(t, w))
    BY MarchForward DEF Forward
  <2>4. Solvable(Len(t) + 1, Nat, MarchStop(t, w), MarchVal(t, w), MarchNext(t, w))
    BY <2>1, <2>2, <2>3, SearchExists
  <2> QED
    BY <1>1, <2>4, Zenon DEF Solvable
<1>3. to = Step(to)
  BY <1>2, Zenon
<1>4. Marches(t, w, to)
  BY <1>1, <1>3, Zenon DEF Marches
<1>5. \A from : SearchMarchStr(t, from, w) = to[from]
  BY Zenon DEF SearchMarchStr
<1> HIDE DEF to
<1> QED
  BY <1>4, <1>5, Zenon DEF Found

\* What may follow a word.
Behind == Space \cup {"="}

\* The search may begin at b: the character before it need not be looked at.
Clean(t, w, b) == Occurs(t, w, b) => b = 1 \/ At(t, b - 1) \in Space

\* p is the first of the marks from b on, or 0.
FirstMark(t, w, b, p) ==
    /\ p # 0 => Mark(t, w, p)
    /\ \A q \in Nat : q >= b /\ Mark(t, w, q) => p # 0 /\ p <= q

\* What a search of the word from b on returns, if the word's places stand apart.
Marched(t, w, b, p) ==
    /\ p \in Nat
    /\ p # 0 => p >= b /\ Occurs(t, w, p) /\ At(t, p + Len(w)) \in Behind
    /\ Apart(t, w) /\ Clean(t, w, b) => FirstMark(t, w, b, p)

\* A word that is not empty begins within the text.
LEMMA OccursIn ==
    ASSUME NEW t, Len(t) \in Nat, NEW w, Len(w) \in Nat \ {0}, NEW p, Occurs(t, w, p)
    PROVE  p \in 1 .. Len(t)
  BY DEF Occurs

\* Where the search stops this holds.
LEMMA MarchStops ==
    ASSUME NEW t, Len(t) \in Nat, NEW w, Len(w) \in Nat \ {0}, NEW b \in 1 .. Len(t) + 1,
           MarchStop(t, w)[b]
    PROVE  Marched(t, w, b, strstr(t, b, w))
<1> DEFINE p == strstr(t, b, w)
<1>1. p = 0 \/ ((b < p => At(t, p - 1) \in Space) /\ At(t, p + Len(w)) \in Space \cup {"="})
  BY DEF MarchStop
<1>2. /\ p \in Nat
      /\ p # 0 => p >= b /\ Occurs(t, w, p)
      /\ \A q \in Nat : q >= b /\ Occurs(t, w, q) => p # 0 /\ p <= q
  <2>1. b \in Nat \ {0}
    OBVIOUS
  <2> QED
    BY <2>1, StrstrIs DEF FirstPlace
<1> HIDE DEF p
<1>3. p # 0 => At(t, p + Len(w)) \in Behind
  BY <1>1 DEF Behind
<1>4. ASSUME Clean(t, w, b)
      PROVE  FirstMark(t, w, b, p)
  <2>1. p # 0 => Mark(t, w, p)
    <3>1. p # 0 /\ b < p => At(t, p - 1) \in Space
      BY <1>1
    <3>2. p # 0 /\ ~(b < p) => p = b
      BY <1>2
    <3>3. p # 0 /\ p = b => b = 1 \/ At(t, b - 1) \in Space
      BY <1>2, <1>4 DEF Clean
    <3> QED
      BY <1>2, <1>3, <3>1, <3>2, <3>3 DEF Mark, Behind
  <2>2. \A q \in Nat : q >= b /\ Mark(t, w, q) => p # 0 /\ p <= q
    BY <1>2 DEF Mark
  <2> QED
    BY <2>1, <2>2 DEF FirstMark
<1> QED
  BY <1>2, <1>3, <1>4 DEF Marched, p

\* And where it resumes it is handed back.
LEMMA MarchResumes ==
    ASSUME NEW t, Len(t) \in Nat, NEW w, Len(w) \in Nat \ {0}, NEW b \in 1 .. Len(t) + 1,
           ~MarchStop(t, w)[b], NEW v, Marched(t, w, MarchNext(t, w)[b], v)
    PROVE  Marched(t, w, b, v)
<1> DEFINE p == strstr(t, b, w)
           n == p + Len(w)
<1>1. p \in b .. Len(t) + 1 - Len(w) /\ MarchNext(t, w)[b] = n
  BY MarchForward
<1>2. p # 0 /\ ~((b < p => At(t, p - 1) \in Space) /\ At(t, p + Len(w)) \in Space \cup {"="})
  BY DEF MarchStop
<1>3. /\ p \in Nat /\ Occurs(t, w, p)
      /\ \A q \in Nat : q >= b /\ Occurs(t, w, q) => p # 0 /\ p <= q
  BY <1>2, StrstrIs DEF FirstPlace
<1> HIDE DEF p
<1>4. Marched(t, w, n, v) /\ n >= b /\ n > p
  BY <1>1
<1>5. v \in Nat /\ (v # 0 => v >= b /\ Occurs(t, w, v) /\ At(t, v + Len(w)) \in Behind)
  BY <1>1, <1>4 DEF Marched
<1>6. ASSUME Apart(t, w), Clean(t, w, b)
      PROVE  FirstMark(t, w, b, v)
  <2>1. Clean(t, w, n)
    <3>1. ~Occurs(t, w, n)
      BY <1>1, <1>3, <1>6, OccursIn DEF Apart
    <3> QED
      BY <3>1 DEF Clean
  <2>2. FirstMark(t, w, n, v)
    BY <1>4, <1>6, <2>1 DEF Marched
  <2>3. ~Mark(t, w, p)
    <3>1. ASSUME Mark(t, w, p)
          PROVE  FALSE
      <4>1. ~(b < p => At(t, p - 1) \in Space)
        BY <1>2, <3>1 DEF Mark, Behind
      <4>2. b < p /\ p # 1
        BY <4>1
      <4> QED
        BY <3>1, <4>1, <4>2 DEF Mark
    <3> QED
      BY <3>1
  <2>4. ASSUME NEW q \in Nat, q >= b, Mark(t, w, q)
        PROVE  q >= n
    <3>1. Occurs(t, w, q) /\ p <= q /\ q # p
      BY <1>3, <2>3, <2>4 DEF Mark
    <3>2. p + Len(w) < q
      BY <1>3, <1>6, <3>1, OccursIn DEF Apart
    <3> QED
      BY <3>2, <1>3
  <2> QED
    BY <2>2, <2>4 DEF FirstMark
<1> QED
  BY <1>5, <1>6 DEF Marched

\* What SearchMarchStr returns.
LEMMA MarchReturns ==
    ASSUME NEW t, Len(t) \in Nat, NEW w, Len(w) \in Nat \ {0}, NEW from \in 1 .. Len(t) + 1
    PROVE  Marched(t, w, from, SearchMarchStr(t, from, w))
<1> DEFINE N == Len(t) + 1
           R == {x \in (1 .. N) \X Nat : Marched(t, w, x[1], x[2])}
<1>1. PICK f : Found(t, w, f)
  BY MarchIs
<1>2. N \in Nat /\ Forward(N, MarchStop(t, w), MarchNext(t, w))
  BY MarchForward DEF Forward
<1>3. ASSUME NEW b \in 1 .. N, MarchStop(t, w)[b]
      PROVE  <<b, MarchVal(t, w)[b]>> \in R
  <2>1. MarchVal(t, w)[b] = strstr(t, b, w)
    BY DEF MarchVal
  <2>2. Marched(t, w, b, strstr(t, b, w))
    BY <1>3, MarchStops
  <2> QED
    BY <2>1, <2>2 DEF Marched
<1>4. ASSUME NEW b \in 1 .. N, ~MarchStop(t, w)[b], NEW v, <<MarchNext(t, w)[b], v>> \in R
      PROVE  <<b, v>> \in R
  <2>1. v \in Nat /\ Marched(t, w, MarchNext(t, w)[b], v)
    BY <1>4
  <2>2. Marched(t, w, b, v)
    BY <1>4, <2>1, MarchResumes
  <2> QED
    BY <2>1, <2>2
<1> HIDE DEF R
<1>5. Handed(N, MarchStop(t, w), MarchVal(t, w), MarchNext(t, w), f, R)
  BY <1>3, <1>4, Zenon DEF Handed
<1>6. f = Search(1 .. N, MarchStop(t, w), MarchVal(t, w), MarchNext(t, w), f)
  BY <1>1 DEF Marches, Found
<1>7. Yields(N, f, R)
  BY <1>2, <1>5, <1>6, SearchRule
<1>8. <<from, f[from]>> \in R
  BY <1>7 DEF Yields
<1>9. Marched(t, w, from, f[from])
  BY <1>8 DEF R
<1> QED
  BY <1>1, <1>9, Zenon DEF Found

-----------------------------------------------------------------------------
(* The loops over blanks and line ends, and where a section begins and ends.*)

\* Where a loop over characters stops.
Passed(t, p, end, S, r) ==
    /\ r \in Nat /\ r >= p
    /\ p <= end => r <= end
    /\ \A q \in p .. r - 1 : At(t, q) \in S
    /\ r < end => At(t, r) \notin S

\* A loop over characters of S stops at the first that is none, or at the end.
LEMMA SkipIs ==
    ASSUME NEW t, NEW p \in Nat, NEW end \in Nat, NEW S
    PROVE  Passed(t, p, end, S, Skip(t, p, end, S))
<1> DEFINE stops == {q \in p .. end - 1 : At(t, q) \notin S}
           r == Skip(t, p, end, S)
<1>1. r = IF stops # {} THEN Min(stops) ELSE Max({p, end})
  BY DEF Skip
<1>2. /\ stops \subseteq Nat
      /\ \A q \in stops : q >= p /\ q < end /\ At(t, q) \notin S
      /\ \A q \in Nat : q >= p /\ q < end /\ At(t, q) \notin S => q \in stops
  OBVIOUS
<1> HIDE DEF stops, r
<1>3. ASSUME stops # {}
      PROVE  Passed(t, p, end, S, r)
  <2>1. r \in stops /\ \A q \in stops : r <= q
    BY <1>1, <1>2, <1>3, MinIs
  <2>2. \A q \in p .. r - 1 : At(t, q) \in S
    BY <1>2, <2>1
  <2> QED
    BY <1>2, <2>1, <2>2 DEF Passed
<1>4. ASSUME stops = {}
      PROVE  Passed(t, p, end, S, r)
  <2>1. r = IF p >= end THEN p ELSE end
    BY <1>1, <1>4, MaxOfTwo
  <2>2. \A q \in p .. r - 1 : At(t, q) \in S
    BY <1>2, <1>4, <2>1
  <2> QED
    BY <1>2, <2>1, <2>2 DEF Passed
<1> QED
  BY <1>3, <1>4 DEF r

\* Where a loop stops that looks for a character of S.
Reached(t, p, end, S, r) ==
    /\ r \in Nat /\ r >= p
    /\ p <= end => r <= end
    /\ \A q \in p .. r - 1 : At(t, q) \notin S \/ q >= end
    /\ r < end => At(t, r) \in S

\* It is at the first such character, or at the end.
LEMMA UntilIs ==
    ASSUME NEW t, NEW p \in Nat, NEW end \in Nat, NEW S
    PROVE  Reached(t, p, end, S, Until(t, p, end, S))
<1> DEFINE stops == {q \in p .. end - 1 : At(t, q) \in S}
           r == Until(t, p, end, S)
<1>1. r = IF stops # {} THEN Min(stops) ELSE Max({p, end})
  BY DEF Until
<1>2. /\ stops \subseteq Nat
      /\ \A q \in stops : q >= p /\ q < end /\ At(t, q) \in S
      /\ \A q \in Nat : q >= p /\ q < end /\ At(t, q) \in S => q \in stops
  OBVIOUS
<1> HIDE DEF stops, r
<1>3. ASSUME stops # {}
      PROVE  Reached(t, p, end, S, r)
  <2>1. r \in stops /\ \A q \in stops : r <= q
    BY <1>1, <1>2, <1>3, MinIs
  <2>2. \A q \in p .. r - 1 : At(t, q) \notin S
    BY <1>2, <2>1
  <2> QED
    BY <1>2, <2>1, <2>2 DEF Reached
<1>4. ASSUME stops = {}
      PROVE  Reached(t, p, end, S, r)
  <2>1. r = IF p >= end THEN p ELSE end
    BY <1>1, <1>4, MaxOfTwo
  <2>2. \A q \in p .. r - 1 : At(t, q) \notin S
    BY <1>2, <1>4, <2>1
  <2> QED
    BY <1>2, <2>1, <2>2 DEF Reached
<1> QED
  BY <1>3, <1>4 DEF r

\* What LocateStr returns.
Located(t, w, from, end, p) ==
    /\ p \in Nat
    /\ p # 0 => p >= from /\ p + Len(w) <= end /\ Occurs(t, w, p) /\ At(t, p + Len(w)) \in Behind
    /\ Apart(t, w) /\ Clean(t, w, from) =>
         /\ p # 0 => Mark(t, w, p)
         /\ \A q \in Nat : q >= from /\ q + Len(w) <= end /\ Mark(t, w, q) => p # 0 /\ p <= q

\* LocateStr finds the first mark that lies before the end.
LEMMA LocateStrIs ==
    ASSUME NEW t, Len(t) \in Nat, NEW w, Len(w) \in Nat \ {0},
           NEW from \in 1 .. Len(t) + 1, NEW end \in 0 .. Len(t) + 1
    PROVE  Located(t, w, from, end, LocateStr(t, from, end, w))
<1> DEFINE m == SearchMarchStr(t, from, w)
           r == LocateStr(t, from, end, w)
<1>1. r = LET p == IF from < end THEN m ELSE 0 IN IF p + Len(w) > end THEN 0 ELSE p
  BY DEF LocateStr
<1>2. /\ m \in Nat
      /\ m # 0 => m >= from /\ Occurs(t, w, m) /\ At(t, m + Len(w)) \in Behind
      /\ Apart(t, w) /\ Clean(t, w, from) => FirstMark(t, w, from, m)
  BY MarchReturns DEF Marched
<1> HIDE DEF m, r
<1>3. r = 0 \/ (r = m /\ from < end /\ m + Len(w) <= end)
  BY <1>1, <1>2
<1>4. ASSUME Apart(t, w), Clean(t, w, from)
      PROVE  /\ r # 0 => Mark(t, w, r)
             /\ \A q \in Nat : q >= from /\ q + Len(w) <= end /\ Mark(t, w, q) => r # 0 /\ r <= q
  <2>1. FirstMark(t, w, from, m)
    BY <1>2, <1>4
  <2>2. r # 0 => Mark(t, w, r)
    BY <1>3, <2>1 DEF FirstMark
  <2>3. ASSUME NEW q \in Nat, q >= from, q + Len(w) <= end, Mark(t, w, q)
        PROVE  r # 0 /\ r <= q
    <3>1. m # 0 /\ m <= q
      BY <2>1, <2>3 DEF FirstMark
    <3>2. from < end /\ m + Len(w) <= end
      BY <1>2, <2>3, <3>1
    <3> QED
      BY <1>1, <1>2, <3>1, <3>2
  <2> QED
    BY <2>2, <2>3
<1>5. r \in Nat
  BY <1>2, <1>3
<1> QED
  BY <1>2, <1>3, <1>4, <1>5 DEF Located, r

-----------------------------------------------------------------------------
\* Small letters stand where the capitals stood.
LEMMA LowerIs ==
    ASSUME NEW t \in Seq(Chars)
    PROVE  /\ ToLower(t) \in Seq(Chars) /\ Len(ToLower(t)) = Len(t)
           /\ \A i \in 1 .. Len(t) :
                 ToLower(t)[i] = IF t[i] \in DOMAIN Caps THEN Caps[t[i]] ELSE t[i]
  BY CapsAssumption DEF ToLower, Chars

\* What LocateSection searches for is the name and its brackets.
LEMMA SectionWord ==
    ASSUME NEW s \in Seq(Chars)
    PROVE  HeaderWord(s) \in Seq(Chars) /\ Len(HeaderWord(s)) = Len(s) + 2
<1> USE DEF HeaderWord
<1> DEFINE low == ToLower(s)
<1>1. low \in Seq(Chars) /\ Len(low) = Len(s) /\ Len(s) \in Nat
  BY LowerIs
<1> HIDE DEF low
<1> DEFINE a == <<"[">>
           z == <<"]">>
           b == a \o low
<1>2. /\ a \in Seq(Chars) /\ Len(a) = 1
      /\ z \in Seq(Chars) /\ Len(z) = 1
  <2>1. "[" \in Chars /\ "]" \in Chars
    BY DEF Chars
  <2> QED
    BY <2>1, OneIs
<1> HIDE DEF a, z
<1>3. b \in Seq(Chars) /\ Len(b) = Len(s) + 1
  BY <1>1, <1>2, JoinedIs
<1> HIDE DEF b
<1>4. b \o z \in Seq(Chars) /\ Len(b \o z) = Len(b) + Len(z)
  BY <1>2, <1>3, JoinedIs
<1>5. Len(b \o z) = Len(s) + 2
  BY <1>1, <1>2, <1>3, <1>4
<1> QED
  BY <1>4, <1>5 DEF a, b, z, low

\* The section a text has under a name lies within the text.
WithinText(t, range) ==
    /\ range.begin \in 1 .. Len(t) + 1
    /\ range.end \in range.begin .. Len(t) + 1
    /\ At(t, range.end) # "="

\* A section ends within the text, and not at a "=".
LEMMA SectionEndIs ==
    ASSUME NEW t \in Seq(Chars), NEW begin \in 1 .. Len(t) + 1
    PROVE  /\ SectionEnd(t, begin) \in begin .. Len(t) + 1
           /\ At(t, SectionEnd(t, begin)) # "="
<1> DEFINE ends == {r \in begin .. Len(t) :
                      /\ t[r] = "["
                      /\ \A q \in begin .. r - 1 :
                           t[q] \in Space \/ \E u \in q + 1 .. r - 1 : t[u] \in Eol}
<1>1. SectionEnd(t, begin) = IF ends = {} THEN Len(t) + 1 ELSE Min(ends)
  BY DEF SectionEnd
<1>2. ends \subseteq Nat /\ \A r \in ends : r \in begin .. Len(t) /\ t[r] = "["
  OBVIOUS
<1> HIDE DEF ends
<1>3. CASE ends = {}
  BY <1>1, <1>3 DEF At
<1>4. CASE ends # {}
  <2>1. Min(ends) \in ends
    BY <1>2, <1>4, MinIs
  <2>2. Min(ends) \in begin .. Len(t) /\ t[Min(ends)] = "[" /\ DOMAIN t = 1 .. Len(t)
    <3> DEFINE m == Min(ends)
    <3>1. DOMAIN t = 1 .. Len(t)
      OBVIOUS
    <3>2. m \in ends
      BY <2>1
    <3> HIDE DEF m
    <3>3. m \in begin .. Len(t) /\ t[m] = "["
      BY <1>2, <3>2, Zenon
    <3> QED
      BY <3>1, <3>3 DEF m
  <2>3. At(t, Min(ends)) = "["
    BY <2>2 DEF At
  <2> QED
    BY <1>1, <1>4, <2>2, <2>3
<1> QED
  BY <1>3, <1>4

\* What LocateSection returns is a range of the text.
LEMMA SectionWithin ==
    ASSUME NEW t \in Seq(Chars), NEW s \in Seq(Chars), LocateSection(t, s) # None
    PROVE  WithinText(t, LocateSection(t, s))
<1> DEFINE w == HeaderWord(s)
           end == Len(t) + 1
           p == LocateStr(ToLower(t), 1, end, w)
           eol == Until(t, p + Len(w), end, Eol)
           begin == Skip(t, eol, end, Eol)
<1>1. LocateSection(t, s) = IF p = 0 THEN None ELSE [begin |-> begin, end |-> SectionEnd(t, begin)]
  BY DEF LocateSection
<1>2. Len(w) \in Nat \ {0}
  BY SectionWord
<1>3. Len(ToLower(t)) = Len(t) /\ Len(t) \in Nat
  BY LowerIs
<1>4. p # 0
  BY <1>1
<1>5. Located(ToLower(t), w, 1, end, p)
  <2> HIDE DEF w
  <2> QED
    BY <1>2, <1>3, LocateStrIs
<1> HIDE DEF w, p
<1>6. p \in Nat /\ p + Len(w) \in 1 .. end
  BY <1>2, <1>4, <1>5 DEF Located
<1>7. eol \in p + Len(w) .. end
  BY <1>2, <1>3, <1>6, UntilIs DEF Reached
<1> HIDE DEF eol
<1>8. begin \in eol .. end
  BY <1>2, <1>3, <1>6, <1>7, SkipIs DEF Passed
<1> HIDE DEF begin
<1>9. begin \in 1 .. Len(t) + 1
  BY <1>2, <1>3, <1>6, <1>7, <1>8
<1> QED
  BY <1>1, <1>4, <1>9, SectionEndIs DEF WithinText

-----------------------------------------------------------------------------
(* The search for a key and its "=".                                       *)

\* Where every place of the key stands apart from the others, and the key does
\* not begin with a space, LocateKey finds the first.
Distinct(t, k) == Apart(ToLower(t), ToLower(k)) /\ ToLower(k)[1] \notin Space

\* What LocateKey returns: where the key is, and its "=".
Places == [begin: Nat, end: Nat]

\* What the search for a key from b on returns.
KeyFound(t, k, end, b, at) ==
    /\ at \in Places
    /\ at.begin # 0 =>
         /\ at.begin >= b /\ Occurs(ToLower(t), ToLower(k), at.begin)
         /\ EqualsAt(t, at.begin + Len(k), end, at.end)
    /\ Distinct(t, k) /\ Clean(ToLower(t), ToLower(k), b) =>
         /\ at.begin # 0 => KeyMark(t, k, end, at.begin)
         /\ \A q \in Nat : q >= b /\ KeyMark(t, k, end, q) => at.begin # 0 /\ at.begin <= q

\* The key's next place, and the first character behind it that is no blank.
KeyAt(t, k, range, b) == LocateStr(ToLower(t), b, range.end, ToLower(k))
EqAt(t, k, range, b)  == Skip(t, KeyAt(t, k, range, b) + Len(k), range.end, Blank)

\* Where the search of LocateKey stops, what it returns, and where it resumes.
KeyStop(t, k, range) ==
    [b \in 1 .. Len(t) + 1 |-> KeyAt(t, k, range, b) = 0 \/ At(t, EqAt(t, k, range, b)) = "="]
KeyVal(t, k, range) ==
    [b \in 1 .. Len(t) + 1 |-> [begin |-> KeyAt(t, k, range, b), end |-> EqAt(t, k, range, b)]]
KeyNext(t, k, range) == [b \in 1 .. Len(t) + 1 |-> EqAt(t, k, range, b)]

\* These are found as LocateStr and the loop over blanks find them.
LEMMA KeyAtIs ==
    ASSUME NEW t \in Seq(Chars), NEW k \in Seq(Chars), k # <<>>,
           NEW range, WithinText(t, range), NEW b \in 1 .. Len(t) + 1
    PROVE  /\ Located(ToLower(t), ToLower(k), b, range.end, KeyAt(t, k, range, b))
           /\ Passed(t, KeyAt(t, k, range, b) + Len(k), range.end, Blank, EqAt(t, k, range, b))
           /\ KeyAt(t, k, range, b) \in Nat /\ EqAt(t, k, range, b) \in Nat
           /\ KeyAt(t, k, range, b) # 0 =>
                /\ KeyAt(t, k, range, b) >= b
                /\ KeyAt(t, k, range, b) + Len(k) <= EqAt(t, k, range, b)
                /\ EqAt(t, k, range, b) <= range.end
<1>1. /\ Len(ToLower(t)) = Len(t) /\ Len(t) \in Nat
      /\ Len(ToLower(k)) = Len(k) /\ Len(k) \in Nat \ {0}
  BY LowerIs
<1>2. range.end \in 0 .. Len(t) + 1
  BY <1>1 DEF WithinText
<1> DEFINE p == KeyAt(t, k, range, b)
           e == EqAt(t, k, range, b)
<1>3. Located(ToLower(t), ToLower(k), b, range.end, p)
  BY <1>1, <1>2, LocateStrIs DEF KeyAt
<1>4. p \in Nat /\ (p # 0 => p >= b /\ p + Len(k) <= range.end)
  BY <1>1, <1>3 DEF Located
<1>5. Passed(t, p + Len(k), range.end, Blank, e)
  <2>1. p + Len(k) \in Nat /\ range.end \in Nat
    BY <1>1, <1>2, <1>4
  <2> QED
    BY <2>1, SkipIs DEF EqAt
<1> HIDE DEF p, e
<1>6. e \in Nat /\ (p # 0 => p + Len(k) <= e /\ e <= range.end)
  BY <1>4, <1>5 DEF Passed
<1> QED
  BY <1>3, <1>4, <1>5, <1>6 DEF p, e

\* It resumes behind the key, within the text.
LEMMA KeyForward ==
    ASSUME NEW t \in Seq(Chars), NEW k \in Seq(Chars), k # <<>>,
           NEW range, WithinText(t, range)
    PROVE  Forward(Len(t) + 1, KeyStop(t, k, range), KeyNext(t, k, range))
<1> SUFFICES ASSUME NEW b \in 1 .. Len(t) + 1, ~KeyStop(t, k, range)[b]
             PROVE  KeyNext(t, k, range)[b] \in b + 1 .. Len(t) + 1
  BY DEF Forward
<1> DEFINE p == KeyAt(t, k, range, b)
           e == EqAt(t, k, range, b)
<1>1. p # 0 /\ KeyNext(t, k, range)[b] = e
  BY DEF KeyStop, KeyNext
<1>2. p >= b /\ p + Len(k) <= e /\ e <= range.end /\ p \in Nat /\ e \in Nat
  BY <1>1, KeyAtIs
<1>3. Len(k) \in Nat \ {0} /\ range.end <= Len(t) + 1 /\ range.end \in Nat
  BY DEF WithinText
<1> HIDE DEF p, e
<1> QED
  BY <1>1, <1>2, <1>3

\* LocateKey is such a search.
KeySearch(t, k, range, f) ==
    /\ f = Search(1 .. Len(t) + 1, KeyStop(t, k, range), KeyVal(t, k, range), KeyNext(t, k, range), f)
    /\ LocateKey(t, k, range) = IF range = None THEN None ELSE f[range.begin]

\* So LocateKey is defined for every range of a text.
LEMMA KeySearchIs ==
    ASSUME NEW t \in Seq(Chars), NEW k \in Seq(Chars), k # <<>>,
           NEW range, WithinText(t, range)
    PROVE  \E f : KeySearch(t, k, range, f)
<1> DEFINE Step(f) ==
             [b \in 1 .. Len(t) + 1 |->
                LET p  == LocateStr(ToLower(t), b, range.end, ToLower(k))
                    eq == Skip(t, p + Len(k), range.end, Blank)
                IN  IF p = 0 \/ At(t, eq) = "=" THEN [begin |-> p, end |-> eq] ELSE f[eq]]
           to == CHOOSE f : f = Step(f)
<1>1. ASSUME NEW f
      PROVE  Step(f) = Search(1 .. Len(t) + 1, KeyStop(t, k, range), KeyVal(t, k, range),
                              KeyNext(t, k, range), f)
  BY Zenon DEF Search, KeyStop, KeyVal, KeyNext, KeyAt, EqAt
<1>2. \E f : f = Step(f)
  <2>1. Len(t) + 1 \in Nat
    OBVIOUS
  <2>2. KeyVal(t, k, range) \in [1 .. Len(t) + 1 -> Places]
    <3>1. \A b \in 1 .. Len(t) + 1 : KeyAt(t, k, range, b) \in Nat /\ EqAt(t, k, range, b) \in Nat
      BY KeyAtIs
    <3> QED
      BY <3>1 DEF KeyVal, Places
  <2>3. Forward(Len(t) + 1, KeyStop(t, k, range), KeyNext(t, k, range))
    BY KeyForward
  <2>4. Solvable(Len(t) + 1, Places, KeyStop(t, k, range), KeyVal(t, k, range), KeyNext(t, k, range))
    BY <2>1, <2>2, <2>3, SearchExists
  <2> QED
    BY <1>1, <2>4, Zenon DEF Solvable
<1>3. to = Step(to)
  BY <1>2, Zenon
<1>4. LocateKey(t, k, range) = IF range = None THEN None ELSE to[range.begin]
  BY Zenon DEF LocateKey
<1> HIDE DEF to
<1>5. KeySearch(t, k, range, to)
  BY <1>1, <1>3, <1>4, Zenon DEF KeySearch
<1> QED
  BY <1>5, Zenon

\* Small letters are no spaces more than capitals were.
LEMMA LowerAt ==
    ASSUME NEW t \in Seq(Chars), NEW p \in Nat
    PROVE  At(t, p) \in Space => At(ToLower(t), p) = At(t, p)
<1>1. DOMAIN t = 1 .. Len(t) /\ DOMAIN ToLower(t) = 1 .. Len(t)
  BY LowerIs DEF ToLower
<1>2. p \in 1 .. Len(t) /\ t[p] \in Space => ToLower(t)[p] = t[p]
  BY LowerIs, CapsAssumption
<1>3. At(t, p) \in Space => p \in 1 .. Len(t)
  BY <1>1 DEF At, Space, Eol, Blank
<1> QED
  BY <1>1, <1>2, <1>3 DEF At

\* Where the search stops, what is to be shown of it holds.
LEMMA KeyStops ==
    ASSUME NEW t \in Seq(Chars), NEW k \in Seq(Chars), k # <<>>,
           NEW range, WithinText(t, range), NEW b \in 1 .. Len(t) + 1,
           KeyStop(t, k, range)[b]
    PROVE  KeyFound(t, k, range.end, b, KeyVal(t, k, range)[b])
<1> DEFINE lt == ToLower(t)
           lk == ToLower(k)
           p == KeyAt(t, k, range, b)
           e == EqAt(t, k, range, b)
           at == KeyVal(t, k, range)[b]
           end == range.end
<1>1. at = [begin |-> p, end |-> e] /\ (p = 0 \/ At(t, e) = "=")
  BY DEF KeyVal, KeyStop
<1>2. /\ Located(lt, lk, b, end, p) /\ Passed(t, p + Len(k), end, Blank, e)
      /\ p \in Nat /\ e \in Nat
      /\ p # 0 => p >= b /\ p + Len(k) <= e /\ e <= end
  BY KeyAtIs
<1>3. Len(k) \in Nat \ {0} /\ Len(lk) = Len(k) /\ end \in Nat /\ At(t, end) # "="
  BY LowerIs DEF WithinText
<1> HIDE DEF lt, lk, p, e, at, end
<1>4. p # 0 => EqualsAt(t, p + Len(k), end, e)
  BY <1>1, <1>2, <1>3 DEF EqualsAt, Passed
<1>5. at \in Places /\ at.begin = p /\ at.end = e
  BY <1>1, <1>2 DEF Places
<1>6. p # 0 => Occurs(lt, lk, p)
  BY <1>2 DEF Located
<1>7. ASSUME Apart(lt, lk), Clean(lt, lk, b)
      PROVE  /\ p # 0 => KeyMark(t, k, end, p)
             /\ \A q \in Nat : q >= b /\ KeyMark(t, k, end, q) => p # 0 /\ p <= q
  <2>1. /\ p # 0 => Mark(lt, lk, p)
        /\ \A q \in Nat : q >= b /\ q + Len(lk) <= end /\ Mark(lt, lk, q) => p # 0 /\ p <= q
    BY <1>2, <1>7 DEF Located
  <2>2. p # 0 => KeyMark(t, k, end, p)
    <3>1. p # 0 => e \in 1 .. end - 1
      BY <1>2, <1>3, <1>4 DEF EqualsAt
    <3> QED
      BY <1>4, <2>1, <3>1 DEF KeyMark, lt, lk
  <2>3. ASSUME NEW q \in Nat, q >= b, KeyMark(t, k, end, q)
        PROVE  p # 0 /\ p <= q
    <3>1. Mark(lt, lk, q) /\ \E u \in 1 .. end - 1 : EqualsAt(t, q + Len(k), end, u)
      BY <2>3 DEF KeyMark, lt, lk
    <3>2. q + Len(lk) <= end
      BY <1>3, <3>1 DEF EqualsAt
    <3> QED
      BY <2>1, <2>3, <3>1, <3>2
  <2> QED
    BY <2>2, <2>3
<1> QED
  BY <1>2, <1>4, <1>5, <1>6, <1>7 DEF KeyFound, Distinct, lt, lk, p, e, at, end

\* And where it resumes it is handed back: a place that no "=" follows is no mark.
LEMMA KeyResumes ==
    ASSUME NEW t \in Seq(Chars), NEW k \in Seq(Chars), k # <<>>,
           NEW range, WithinText(t, range), NEW b \in 1 .. Len(t) + 1,
           ~KeyStop(t, k, range)[b], NEW at,
           KeyFound(t, k, range.end, KeyNext(t, k, range)[b], at)
    PROVE  KeyFound(t, k, range.end, b, at)
<1> DEFINE lt == ToLower(t)
           lk == ToLower(k)
           p == KeyAt(t, k, range, b)
           e == EqAt(t, k, range, b)
           end == range.end
<1>1. p # 0 /\ At(t, e) # "=" /\ KeyNext(t, k, range)[b] = e
  BY DEF KeyNext, KeyStop
<1>2. /\ Located(lt, lk, b, end, p) /\ Passed(t, p + Len(k), end, Blank, e)
      /\ p \in Nat /\ e \in Nat
      /\ p >= b /\ p + Len(k) <= e /\ e <= end
  BY <1>1, KeyAtIs
<1>3. /\ Len(k) \in Nat \ {0} /\ Len(lk) = Len(k) /\ end \in Nat /\ At(t, end) # "="
      /\ Len(lt) = Len(t) /\ Len(t) \in Nat /\ b \in Nat
  BY LowerIs DEF WithinText
<1>4. KeyFound(t, k, end, e, at)
  BY <1>1
<1>5. DOMAIN lk = 1 .. Len(lk)
  BY LowerIs
<1> HIDE DEF lt, lk, p, e, end
<1>6. /\ at \in Places
      /\ at.begin # 0 =>
           /\ at.begin >= b /\ Occurs(lt, lk, at.begin)
           /\ EqualsAt(t, at.begin + Len(k), end, at.end)
  <2>1. /\ at \in Places
        /\ at.begin # 0 =>
             /\ at.begin >= e /\ Occurs(lt, lk, at.begin)
             /\ EqualsAt(t, at.begin + Len(k), end, at.end)
    BY <1>4 DEF KeyFound, lt, lk
  <2>2. at.begin \in Nat
    BY <2>1 DEF Places
  <2> QED
    BY <1>2, <1>3, <2>1, <2>2
<1>7. ASSUME Apart(lt, lk), lk[1] \notin Space, Clean(lt, lk, b)
      PROVE  /\ at.begin # 0 => KeyMark(t, k, end, at.begin)
             /\ \A q \in Nat : q >= b /\ KeyMark(t, k, end, q) => at.begin # 0 /\ at.begin <= q
  <2>1. Occurs(lt, lk, p)
    BY <1>1, <1>2 DEF Located
  \* Between the key and where the search resumes there are only blanks.
  <2>2. ASSUME NEW q \in Nat, q > p, q <= e, Occurs(lt, lk, q)
        PROVE  q = e /\ e > p + Len(k) /\ At(lt, e - 1) \in Space
    <3>1. q > p + Len(k)
      BY <1>2, <1>3, <1>7, <2>1, <2>2, OccursIn DEF Apart
    <3>2. \A u \in p + Len(k) .. e - 1 : At(t, u) \in Space /\ At(lt, u) \in Space
      <4>1. \A u \in p + Len(k) .. e - 1 : At(t, u) \in Space
        BY <1>2 DEF Passed, Space
      <4>2. \A u \in p + Len(k) .. e - 1 : u \in Nat
        BY <1>2, <1>3
      <4>3. \A u \in Nat : At(t, u) \in Space => At(lt, u) = At(t, u)
        BY LowerAt DEF lt
      <4> QED
        BY <4>1, <4>2, <4>3
    <3>3. At(lt, q) = lk[1]
      <4>1. q \in 1 .. Len(lt) /\ lt[q] = lk[1]
        BY <1>3, <1>5, <2>2 DEF Occurs
      <4>2. DOMAIN lt = 1 .. Len(lt)
        BY LowerIs DEF lt
      <4> QED
        BY <4>1, <4>2 DEF At
    <3>4. q = e
      <4> SUFFICES ASSUME q # e
                   PROVE  FALSE
        OBVIOUS
      <4>1. q \in p + Len(k) .. e - 1
        BY <1>2, <1>3, <2>2, <3>1
      <4> QED
        BY <1>7, <3>2, <3>3, <4>1
    <3>5. e - 1 \in p + Len(k) .. e - 1
      BY <1>2, <1>3, <3>1, <3>4
    <3> QED
      BY <3>1, <3>2, <3>4, <3>5
  <2>3. Clean(lt, lk, e)
    BY <1>2, <1>3, <2>2 DEF Clean
  <2>4. /\ at.begin # 0 => KeyMark(t, k, end, at.begin)
        /\ \A q \in Nat : q >= e /\ KeyMark(t, k, end, q) => at.begin # 0 /\ at.begin <= q
    BY <1>4, <1>7, <2>3 DEF KeyFound, Distinct, lt, lk
  <2>5. ~KeyMark(t, k, end, p)
    <3> SUFFICES ASSUME NEW u \in 1 .. end - 1, EqualsAt(t, p + Len(k), end, u)
                 PROVE  FALSE
      BY DEF KeyMark
    <3>1. /\ u \in p + Len(k) .. end - 1 /\ At(t, u) = "="
          /\ \A v \in p + Len(k) .. u - 1 : At(t, v) \in Blank
      BY DEF EqualsAt
    <3>2. /\ \A v \in p + Len(k) .. e - 1 : At(t, v) \in Blank
          /\ e < end => At(t, e) \notin Blank
      BY <1>2 DEF Passed
    <3>3. At(t, u) \notin Blank
      BY <3>1 DEF Blank
    <3>4. ~(u < e)
      BY <1>2, <1>3, <3>1, <3>2, <3>3
    <3>5. ~(e < u)
      BY <1>2, <1>3, <3>1, <3>2
    <3> QED
      BY <1>1, <1>2, <1>3, <3>1, <3>4, <3>5
  <2>6. ASSUME NEW q \in Nat, q >= b, KeyMark(t, k, end, q)
        PROVE  q >= e
    <3>1. Mark(lt, lk, q) /\ Occurs(lt, lk, q)
      BY <2>6 DEF KeyMark, Mark, lt, lk
    <3>2. q + Len(lk) <= end
      <4>1. PICK u \in 1 .. end - 1 : EqualsAt(t, q + Len(k), end, u)
        BY <2>6 DEF KeyMark
      <4> QED
        BY <1>3, <4>1 DEF EqualsAt
    <3>3. p <= q
      BY <1>2, <1>7, <2>6, <3>1, <3>2 DEF Located
    <3>4. q > p
      BY <1>2, <2>5, <2>6, <3>3
    <3> QED
      BY <1>2, <2>2, <3>1, <3>4
  <2> QED
    BY <2>4, <2>6
<1> QED
  BY <1>6, <1>7 DEF KeyFound, Distinct, lt, lk, end

\* What LocateKey returns.
LEMMA LocateKeyIs ==
    ASSUME NEW t \in Seq(Chars), NEW k \in Seq(Chars), k # <<>>,
           NEW range, WithinText(t, range), range # None
    PROVE  KeyFound(t, k, range.end, range.begin, LocateKey(t, k, range))
<1> DEFINE N == Len(t) + 1
           R == {x \in (1 .. N) \X Places : KeyFound(t, k, range.end, x[1], x[2])}
<1>1. PICK f : KeySearch(t, k, range, f)
  BY KeySearchIs
<1>2. N \in Nat /\ Forward(N, KeyStop(t, k, range), KeyNext(t, k, range))
  BY KeyForward
<1>3. ASSUME NEW b \in 1 .. N, KeyStop(t, k, range)[b]
      PROVE  <<b, KeyVal(t, k, range)[b]>> \in R
  <2>1. KeyFound(t, k, range.end, b, KeyVal(t, k, range)[b])
    BY <1>3, KeyStops
  <2> QED
    BY <2>1 DEF KeyFound
<1>4. ASSUME NEW b \in 1 .. N, ~KeyStop(t, k, range)[b], NEW v, <<KeyNext(t, k, range)[b], v>> \in R
      PROVE  <<b, v>> \in R
  <2>1. v \in Places /\ KeyFound(t, k, range.end, KeyNext(t, k, range)[b], v)
    BY <1>4
  <2>2. KeyFound(t, k, range.end, b, v)
    BY <1>4, <2>1, KeyResumes
  <2> QED
    BY <2>1, <2>2
<1> HIDE DEF R
<1>5. Handed(N, KeyStop(t, k, range), KeyVal(t, k, range), KeyNext(t, k, range), f, R)
  BY <1>3, <1>4, Zenon DEF Handed
<1>6. /\ f = Search(1 .. N, KeyStop(t, k, range), KeyVal(t, k, range), KeyNext(t, k, range), f)
      /\ LocateKey(t, k, range) = f[range.begin]
  BY <1>1, Zenon DEF KeySearch
<1>7. Yields(N, f, R)
  BY <1>2, <1>5, <1>6, SearchRule
<1>8. range.begin \in 1 .. N
  BY DEF WithinText
<1>9. <<range.begin, f[range.begin]>> \in R
  BY <1>7, <1>8 DEF Yields
<1>10. KeyFound(t, k, range.end, range.begin, f[range.begin])
  BY <1>9 DEF R
<1> QED
  BY <1>6, <1>10, Zenon

-----------------------------------------------------------------------------
(* What replacing a part of a text leaves alone.                           *)

\* A text that agrees with the first characters of another is a prefix of it.
LEMMA PrefixIs ==
    ASSUME NEW a \in Seq(Chars), NEW t \in Seq(Chars), Len(a) <= Len(t),
           \A i \in 1 .. Len(a) : a[i] = t[i]
    PROVE  IsPrefix(a, t)
<1>1. Len(a) \in Nat /\ Len(t) \in Nat
  OBVIOUS
<1>2. SubSeq(a, 1, Len(a)) = SubSeq(t, 1, Len(a))
  OBVIOUS
<1> QED
  BY <1>1, <1>2 DEF IsPrefix

\* A text read from its end, as IsSuffix does.
LEMMA ReverseIs ==
    ASSUME NEW t \in Seq(Chars)
    PROVE  /\ Reverse(t) \in Seq(Chars) /\ Len(Reverse(t)) = Len(t)
           /\ \A i \in 1 .. Len(t) : Reverse(t)[i] = t[Len(t) + 1 - i]
  BY DEF Reverse

\* A text that agrees with the last characters of another is a suffix of it.
LEMMA SuffixIs ==
    ASSUME NEW z \in Seq(Chars), NEW t \in Seq(Chars), Len(z) <= Len(t),
           \A i \in 1 .. Len(z) : z[i] = t[Len(t) - Len(z) + i]
    PROVE  IsSuffix(z, t)
<1>1. Len(z) \in Nat /\ Len(t) \in Nat
  OBVIOUS
<1> DEFINE rz == Reverse(z)
           rt == Reverse(t)
<1>2. /\ rz \in Seq(Chars) /\ Len(rz) = Len(z) /\ \A i \in 1 .. Len(z) : rz[i] = z[Len(z) + 1 - i]
      /\ rt \in Seq(Chars) /\ Len(rt) = Len(t) /\ \A i \in 1 .. Len(t) : rt[i] = t[Len(t) + 1 - i]
  BY ReverseIs
<1> HIDE DEF rz, rt
<1>3. ASSUME NEW i \in 1 .. Len(z)
      PROVE  rz[i] = rt[i]
  <2>1. Len(z) + 1 - i \in 1 .. Len(z) /\ Len(t) - Len(z) + (Len(z) + 1 - i) = Len(t) + 1 - i
    BY <1>1
  <2>2. z[Len(z) + 1 - i] = t[Len(t) + 1 - i]
    BY <2>1
  <2>3. i \in 1 .. Len(t)
    BY <1>1
  <2> QED
    BY <1>2, <2>2, <2>3
<1>4. IsPrefix(rz, rt)
  BY <1>2, <1>3, PrefixIs
<1> QED
  BY <1>4 DEF IsSuffix, rz, rt

\* The range that is replaced lies within the section.
Inside(range, r) == r.begin \in range.begin .. range.end /\ r.end \in r.begin .. range.end

\* It does, be it the item's line or the section's first place.
LEMMA PlaceWithin ==
    ASSUME NEW t \in Seq(Chars), NEW k \in Seq(Chars), k # <<>>,
           NEW range, WithinText(t, range), range # None
    PROVE  Inside(range, Place(range, LocateKeyRange(t, k, range)))
<1> USE DEF Inside
<1> DEFINE at == LocateKey(t, k, range)
           eol == Until(t, at.end + 1, range.end, Eol)
           next == Skip(t, eol, range.end, Eol)
           old == LocateKeyRange(t, k, range)
<1>1. old = IF at.begin = 0 THEN None ELSE [begin |-> at.begin, end |-> next]
  BY DEF LocateKeyRange
<1>2. KeyFound(t, k, range.end, range.begin, at)
  BY LocateKeyIs
<1>3. range.begin \in 1 .. range.end /\ range.end \in Nat /\ Len(k) \in Nat \ {0}
  BY DEF WithinText
<1> HIDE DEF at
<1>4. CASE at.begin = 0
  <2>1. Place(range, old) = [begin |-> range.begin, end |-> range.begin]
    BY <1>1, <1>4 DEF Place
  <2> QED
    BY <1>3, <2>1
<1>5. CASE at.begin # 0
  <2>1. /\ at.begin \in Nat /\ at.end \in Nat /\ at.begin >= range.begin
        /\ at.end \in at.begin + Len(k) .. range.end - 1
    BY <1>2, <1>5 DEF KeyFound, Places, EqualsAt
  <2>2. eol \in at.end + 1 .. range.end
    BY <1>3, <2>1, UntilIs DEF Reached
  <2> HIDE DEF eol
  <2>3. next \in eol .. range.end
    BY <1>3, <2>1, <2>2, SkipIs DEF Passed
  <2> HIDE DEF next
  <2>4. old = [begin |-> at.begin, end |-> next]
    BY <1>1, <1>5
  <2> HIDE DEF old
  <2>5. old # None
    <3>1. old.begin = at.begin
      BY <2>4
    <3>2. None.begin = 0
      BY DEF None
    <3> QED
      BY <1>5, <3>1, <3>2
  <2>6. Place(range, old) = [begin |-> at.begin, end |-> next]
    BY <2>4, <2>5 DEF Place
  <2>7. at.begin \in range.begin .. range.end /\ next \in at.begin .. range.end
    BY <1>3, <2>1, <2>2, <2>3
  <2> QED
    BY <2>6, <2>7 DEF old
<1> QED
  BY <1>4, <1>5

\* The line SetItemValue writes is four characters longer than its key and value.
LEMMA ItemLineIs ==
    ASSUME NEW k \in Seq(Chars), NEW v \in Seq(Chars)
    PROVE  ItemLine(k, v) \in Seq(Chars) /\ Len(ItemLine(k, v)) = Len(k) + Len(v) + 4
<1> DEFINE eq == <<" ", "=", " ">>
           nl == <<"\n">>
           a == k \o eq
           b == a \o v
<1>1. eq \in Seq(Chars) /\ Len(eq) = 3 /\ nl \in Seq(Chars) /\ Len(nl) = 1
  <2>1. \A T : \A x, y \in T : <<x, y, x>> \in Seq(T)
    OBVIOUS
  <2>2. " " \in Chars /\ "=" \in Chars /\ "\n" \in Chars
    BY DEF Chars, Space, Eol, Blank
  <2>3. Len(eq) = 3
    OBVIOUS
  <2> QED
    BY <2>1, <2>2, <2>3, OneIs
<1> HIDE DEF eq, nl
<1>2. a \in Seq(Chars) /\ Len(a) = Len(k) + Len(eq)
  BY <1>1, JoinedIs
<1> HIDE DEF a
<1>3. b \in Seq(Chars) /\ Len(b) = Len(a) + Len(v)
  BY <1>2, JoinedIs
<1> HIDE DEF b
<1>4. b \o nl \in Seq(Chars) /\ Len(b \o nl) = Len(b) + Len(nl)
  BY <1>1, <1>3, JoinedIs
<1>5. ItemLine(k, v) = b \o nl
  BY DEF ItemLine, a, b, eq, nl
<1>6. Len(k) \in Nat /\ Len(v) \in Nat
  OBVIOUS
<1> QED
  BY <1>1, <1>2, <1>3, <1>4, <1>5, <1>6

\* A range taken out of a text, and a line put in its place.
Spliced(t, r, line, new) ==
    /\ new \in Seq(Chars)
    /\ Len(new) = Len(t) + Len(line) - (r.end - r.begin)
    /\ \A i \in 1 .. r.begin - 1 : new[i] = t[i]
    /\ \A i \in 1 .. Len(line) : new[r.begin - 1 + i] = line[i]
    /\ \A i \in 0 .. Len(t) - r.end : new[r.begin + Len(line) + i] = t[r.end + i]

\* That is what Splice makes.
LEMMA SpliceIs ==
    ASSUME NEW t \in Seq(Chars), NEW line \in Seq(Chars), NEW r,
           r.begin \in 1 .. Len(t) + 1, r.end \in r.begin .. Len(t) + 1
    PROVE  Spliced(t, r, line, Splice(t, r, line))
<1> USE DEF Spliced
<1> DEFINE m == r.begin - 1
           b == r.end
           n == Len(t)
           a == SubSeq(t, 1, m)
           z == SubSeq(t, b, n)
           al == a \o line
           new == al \o z
<1>1. new = Splice(t, r, line)
  BY DEF Splice
<1>2. n \in Nat /\ m \in 0 .. n /\ b \in m + 1 .. n + 1 /\ Len(line) \in Nat
  OBVIOUS
<1> HIDE DEF m, b, n
<1>3. a \in Seq(Chars) /\ Len(a) = m /\ \A i \in 1 .. m : a[i] = t[i]
  <2>1. m \in Nat /\ 1 <= m + 1 /\ m <= Len(t) /\ 1 \in Nat /\ 1 <= 1 /\ m + 1 - 1 = m
    BY <1>2 DEF n
  <2>2. \A i \in 1 .. m : 1 + i - 1 = i
    BY <2>1
  <2>3. /\ a \in Seq(Chars) /\ Len(a) = m + 1 - 1
        /\ \A i \in 1 .. m + 1 - 1 : a[i] = t[1 + i - 1]
    BY <2>1, PartIs
  <2> HIDE DEF a
  <2> QED
    BY <2>1, <2>2, <2>3
<1>4. z \in Seq(Chars) /\ Len(z) = n + 1 - b /\ \A i \in 1 .. n + 1 - b : z[i] = t[b + i - 1]
  <2>1. b \in Nat /\ n \in Nat /\ 1 <= b /\ b <= n + 1 /\ n <= Len(t)
    BY <1>2 DEF n
  <2> QED
    BY <2>1, PartIs
<1> HIDE DEF a, z
<1>5. /\ al \in Seq(Chars) /\ Len(al) = m + Len(line)
      /\ \A i \in 1 .. m : al[i] = t[i]
      /\ \A i \in 1 .. Len(line) : al[m + i] = line[i]
  BY <1>2, <1>3, JoinedIs
<1> HIDE DEF al
<1>6. /\ new \in Seq(Chars) /\ Len(new) = Len(al) + Len(z)
      /\ \A i \in 1 .. Len(al) : new[i] = al[i]
      /\ \A i \in 1 .. Len(z) : new[Len(al) + i] = z[i]
  BY <1>4, <1>5, JoinedIs
<1> HIDE DEF new
<1>7. Len(new) = n + Len(line) - (b - (m + 1))
  BY <1>2, <1>4, <1>5, <1>6
<1>8. \A i \in 1 .. m : new[i] = t[i]
  BY SMTT(20), <1>2, <1>5, <1>6
<1>9. \A i \in 1 .. Len(line) : new[m + i] = line[i]
  BY <1>2, <1>5, <1>6
<1>10. ASSUME NEW i \in 0 .. n - b
       PROVE  new[m + 1 + Len(line) + i] = t[b + i]
  <2>1. i + 1 \in 1 .. Len(z) /\ b + (i + 1) - 1 = b + i
        /\ Len(al) + (i + 1) = m + 1 + Len(line) + i
    BY <1>2, <1>4, <1>5
  <2>2. new[Len(al) + (i + 1)] = z[i + 1]
    BY <1>6, <2>1
  <2>3. z[i + 1] = t[b + (i + 1) - 1]
    BY <1>4, <2>1
  <2> QED
    BY <2>1, <2>2, <2>3
<1>11. m + 1 = r.begin
  BY DEF m
<1> QED
  BY <1>1, <1>6, <1>7, <1>8, <1>9, <1>10, <1>11 DEF m, b, n

\* A replacement leaves what precedes and what follows the section as it was.
LEMMA ReplacedKeeps ==
    ASSUME NEW t \in Seq(Chars), NEW s \in Seq(Chars), NEW k \in Seq(Chars), k # <<>>,
           NEW v \in Seq(Chars), LocateSection(t, s) # None
    PROVE  /\ Replaced(t, s, k, v) \in Seq(Chars) /\ Len(Replaced(t, s, k, v)) \in Nat \ {0}
           /\ IsPrefix(SubSeq(t, 1, LocateSection(t, s).begin - 1), Replaced(t, s, k, v))
           /\ IsSuffix(SubSeq(t, LocateSection(t, s).end, Len(t)), Replaced(t, s, k, v))
<1> DEFINE range == LocateSection(t, s)
           r == Place(range, LocateKeyRange(t, k, range))
           line == ItemLine(k, v)
           new == Replaced(t, s, k, v)
<1>1. new = Splice(t, r, line)
  BY DEF Replaced, ItemLine
<1>2. WithinText(t, range)
  BY SectionWithin
<1>3. Inside(range, r)
  BY <1>2, PlaceWithin
<1>4. line \in Seq(Chars) /\ Len(line) = Len(k) + Len(v) + 4
  BY ItemLineIs
<1> DEFINE b == range.begin
           e == range.end
           n == Len(t)
           rb == r.begin
           re == r.end
           ll == Len(line)
<1>5. n \in Nat /\ b \in 1 .. n + 1 /\ e \in b .. n + 1
  BY <1>2 DEF WithinText
<1> HIDE DEF range, r, line, new
<1>6. rb \in b .. e /\ re \in rb .. e /\ ll \in Nat \ {0}
  <2>1. rb \in b .. e /\ re \in rb .. e
    BY <1>3 DEF Inside
  <2>2. Len(k) \in Nat /\ Len(v) \in Nat
    OBVIOUS
  <2> QED
    BY <1>4, <2>1, <2>2
<1>7. /\ new \in Seq(Chars)
      /\ Len(new) = n + ll - (re - rb)
      /\ \A i \in 1 .. rb - 1 : new[i] = t[i]
      /\ \A i \in 0 .. n - re : new[rb + ll + i] = t[re + i]
  <2>1. r.begin \in 1 .. Len(t) + 1 /\ r.end \in r.begin .. Len(t) + 1
    <3>1. rb \in 1 .. n + 1 /\ re \in rb .. n + 1
      <4> HIDE DEF rb, re, n, b, e
      <4> QED
        BY <1>5, <1>6
    <3> QED
      BY <3>1
  <2>2. Spliced(t, r, line, Splice(t, r, line))
    BY <1>4, <2>1, SpliceIs
  <2> QED
    BY <1>1, <2>2 DEF Spliced
<1> HIDE DEF rb, re, ll, n, b, e
<1> DEFINE pre == SubSeq(t, 1, b - 1)
           post == SubSeq(t, e, n)
<1>8. IsPrefix(pre, new)
  <2>1. /\ pre \in Seq(Chars) /\ Len(pre) = b - 1
        /\ \A i \in 1 .. b - 1 : pre[i] = t[i]
    <3> DEFINE m == b - 1
    <3>1. m \in Nat /\ 1 <= m + 1 /\ m <= Len(t) /\ 1 \in Nat /\ 1 <= 1 /\ m + 1 - 1 = m
      BY <1>5 DEF n
    <3> HIDE DEF m
    <3>2. \A i \in 1 .. m : 1 + i - 1 = i
      BY <3>1
    <3> DEFINE a == SubSeq(t, 1, m)
    <3>3. /\ a \in Seq(Chars) /\ Len(a) = m + 1 - 1
          /\ \A i \in 1 .. m + 1 - 1 : a[i] = t[1 + i - 1]
      BY <3>1, PartIs
    <3> HIDE DEF a
    <3>4. a \in Seq(Chars) /\ Len(a) = m /\ \A i \in 1 .. m : a[i] = t[i]
      BY <3>1, <3>2, <3>3
    <3> QED
      BY <3>4 DEF a, m
  <2> HIDE DEF pre
  <2>2. Len(pre) <= Len(new)
    BY <1>4, <1>5, <1>6, <1>7, <2>1
  <2>3. \A i \in 1 .. Len(pre) : pre[i] = new[i]
    BY <1>5, <1>6, <1>7, <2>1
  <2> QED
    BY <1>7, <2>1, <2>2, <2>3, PrefixIs
<1>9. IsSuffix(post, new)
  <2>1. /\ post \in Seq(Chars) /\ Len(post) = n + 1 - e
        /\ \A i \in 1 .. n + 1 - e : post[i] = t[e + i - 1]
    <3>1. e \in Nat /\ n \in Nat /\ 1 <= e /\ e <= n + 1 /\ n <= Len(t)
      BY <1>5 DEF n
    <3> QED
      BY <3>1, PartIs
  <2> HIDE DEF post
  <2>2. Len(post) <= Len(new)
    BY <1>4, <1>5, <1>6, <1>7, <2>1
  <2>3. ASSUME NEW i \in 1 .. Len(post)
        PROVE  post[i] = new[Len(new) - Len(post) + i]
    <3> DEFINE j == e - re + i - 1
    <3>1. /\ j \in 0 .. n - re /\ re + j = e + i - 1
          /\ rb + ll + j = Len(new) - Len(post) + i
      BY <1>4, <1>5, <1>6, <1>7, <2>1
    <3> HIDE DEF j
    <3>2. new[rb + ll + j] = t[re + j]
      BY <1>7, <3>1
    <3>3. post[i] = t[e + i - 1]
      BY <2>1
    <3> QED
      BY <3>1, <3>2, <3>3
  <2> QED
    BY <1>7, <2>1, <2>2, <2>3, SuffixIs
<1>10. Len(new) \in Nat \ {0}
  BY <1>5, <1>6, <1>7
<1> QED
  BY <1>7, <1>8, <1>9, <1>10 DEF new, range, b, e, n, pre, post, ll

-----------------------------------------------------------------------------
(* What the file object remembers, and KeepsTheRest.                       *)

\* The arguments of the calls and the files of others are texts.
LEMMA ArgumentsAreTexts ==
    /\ \A s \in Sections \cup Keys \cup SetValues \cup Texts : s \in Seq(Chars)
    /\ \A k \in Keys : k # <<>>
    /\ \A l \in Lines : l.text \in Seq(Chars)
    /\ <<>> \in Seq(Chars) /\ Missing \in Seq(Chars)
<1>1. <<>> \in Seq(Chars)
  OBVIOUS
<1>2. Missing \in Seq(Chars)
  <2>1. "missing" \in Chars
    BY DEF Chars
  <2> QED
    BY <2>1, OneIs DEF Missing
<1> QED
  BY <1>1, <1>2, TextsAssumption

\* What is in memory and on disk are texts, and items and saved what they give.
Mirrored ==
    /\ disk \in Seq(Chars) /\ saved = Items(disk)
    /\ content \in Seq(Chars) /\ items = Items(content)

\* What a set makes of a text in memory is a text.
LEMMA NewTextsAre ==
    ASSUME content \in Seq(Chars), NEW s \in Sections, NEW k \in Keys, NEW v \in SetValues,
           NEW t \in NewTexts(s, k, v)
    PROVE  t \in Seq(Chars) /\ Len(t) \in Nat \ {0}
<1>1. Known(s) /\ t = Replaced(content, s, k, v)
  BY DEF NewTexts
<1>2. s \in Seq(Chars) /\ k \in Seq(Chars) /\ k # <<>> /\ v \in Seq(Chars)
  BY ArgumentsAreTexts
<1> QED
  BY <1>1, <1>2, ReplacedKeeps DEF Known

\* No call disturbs that.
LEMMA MirroredStep ==
    ASSUME Mirrored, [Next]_vars
    PROVE  Mirrored'
<1> USE DEF Mirrored, Memory, File
<1>1. CASE WriteLine
  <2>1. PICK l \in Lines : disk' = disk \o l.text /\ saved' = Items(disk \o l.text)
    BY <1>1 DEF WriteLine
  <2>2. disk \o l.text \in Seq(Chars)
    BY ArgumentsAreTexts, JoinedIs
  <2> QED
    BY <1>1, <2>1, <2>2 DEF WriteLine
<1>2. CASE Edit
  <2>1. PICK t \in Texts \cup {Missing} : disk' = t /\ saved' = Items(t)
    BY <1>2 DEF Edit
  <2>2. t \in Seq(Chars)
    BY ArgumentsAreTexts
  <2> QED
    BY <1>2, <2>1, <2>2 DEF Edit
<1>3. CASE OpenFile
  BY <1>3, ArgumentsAreTexts DEF OpenFile
<1>4. CASE CloseFile
  BY <1>4, ArgumentsAreTexts DEF CloseFile
<1>5. ASSUME NEW s \in Sections, Refused(s)
      PROVE  Mirrored'
  BY <1>5 DEF Refused
<1>6. ASSUME NEW s \in Sections, NEW k \in Keys, NEW v \in SetValues, SetItemValue(s, k, v)
      PROVE  Mirrored'
  BY <1>6, NewTextsAre DEF SetItemValue
<1>7. ASSUME NEW s \in Sections, NEW k \in Keys, NEW v \in SetValues, SetCannotOpen(s, k, v)
      PROVE  Mirrored'
  BY <1>7, NewTextsAre DEF SetCannotOpen
<1>8. ASSUME NEW s \in Sections, NEW k \in Keys, NEW v \in SetValues, SetCutShort(s, k, v)
      PROVE  Mirrored'
  <2>1. PICK t \in NewTexts(s, k, v) :
           /\ content' = t /\ items' = Items(t)
           /\ \E n \in {0, Len(t) \div 2, Len(t) - 1} :
                 disk' = SubSeq(t, 1, n) /\ saved' = Items(SubSeq(t, 1, n))
    BY <1>8 DEF SetCutShort
  <2>2. t \in Seq(Chars) /\ Len(t) \in Nat \ {0}
    BY NewTextsAre
  <2>3. \A n \in {0, Len(t) \div 2, Len(t) - 1} : n \in Nat /\ n <= Len(t)
    BY <2>2
  <2>4. \A n \in Nat : n <= Len(t) => SubSeq(t, 1, n) \in Seq(Chars)
    BY <2>2, PartIs
  <2>5. \A n \in {0, Len(t) \div 2, Len(t) - 1} : SubSeq(t, 1, n) \in Seq(Chars)
    BY <2>3, <2>4
  <2> QED
    BY <2>1, <2>2, <2>5
<1>9. CASE UNCHANGED vars
  BY <1>9 DEF vars
<1> QED
  BY <1>1, <1>2, <1>3, <1>4, <1>5, <1>6, <1>7, <1>8, <1>9 DEF Next

\* So it always holds.
LEMMA MirroredAlways == Spec => []Mirrored
<1>1. Init => Mirrored
  BY ArgumentsAreTexts DEF Init, Mirrored
<1>2. Mirrored /\ [Next]_vars => Mirrored'
  BY MirroredStep
<1> QED
  BY <1>1, <1>2, PTL DEF Spec

\* A set touches nothing outside the section, whatever the file says.
THEOREM KeepsTheRestHolds == Spec => []KeepsTheRest
<1>1. ASSUME Mirrored
      PROVE  KeepsTheRest
  <2>1. <<"v">> \in Seq(Chars)
    <3>1. "v" \in Chars
      BY DEF Chars
    <3> QED
      BY <3>1, OneIs
  <2>2. ASSUME NEW s \in Sections, NEW k \in Keys, LocateSection(disk, s) # None
        PROVE  /\ IsPrefix(SubSeq(disk, 1, LocateSection(disk, s).begin - 1),
                           Replaced(disk, s, k, <<"v">>))
               /\ IsSuffix(SubSeq(disk, LocateSection(disk, s).end, Len(disk)),
                           Replaced(disk, s, k, <<"v">>))
    <3>1. s \in Seq(Chars) /\ k \in Seq(Chars) /\ k # <<>> /\ disk \in Seq(Chars)
      BY <1>1, ArgumentsAreTexts DEF Mirrored
    <3> QED
      BY <2>1, <2>2, <3>1, ReplacedKeeps
  <2> QED
    BY <2>2, Zenon DEF KeepsTheRest
<1> QED
  BY <1>1, MirroredAlways, PTL

-----------------------------------------------------------------------------
(* Counting the halves of characters, and CutsBetweenCharacters.           *)

\* The bytes of double-byte characters among the first n of a text.
Count(t, n) == Cardinality({i \in 1 .. n : t[i] \in High})

\* They are counted one by one.
LEMMA CountIs ==
    ASSUME NEW t, NEW n \in Nat
    PROVE  /\ Count(t, n) \in Nat /\ Count(t, 0) = 0
           /\ n # 0 => Count(t, n) = Count(t, n - 1) + (IF t[n] \in High THEN 1 ELSE 0)
<1> DEFINE S(m) == {i \in 1 .. m : t[i] \in High}
<1>1. \A m \in Nat : IsFiniteSet(S(m)) /\ Cardinality(S(m)) \in Nat
  <2> TAKE m \in Nat
  <2>1. IsFiniteSet(1 .. m)
    BY FS_Interval
  <2>2. S(m) \subseteq 1 .. m
    OBVIOUS
  <2> HIDE DEF S
  <2> QED
    BY <2>1, <2>2, FS_Subset, FS_CardinalityType
<1>2. S(0) = {}
  OBVIOUS
<1>3. ASSUME n # 0, t[n] \in High
      PROVE  S(n) = S(n - 1) \cup {n} /\ n \notin S(n - 1) /\ n - 1 \in Nat
  BY <1>3
<1>4. ASSUME n # 0, t[n] \notin High
      PROVE  S(n) = S(n - 1)
  BY <1>4
<1> HIDE DEF S
<1>5. ASSUME n # 0, t[n] \in High
      PROVE  Cardinality(S(n)) = Cardinality(S(n - 1)) + 1
  BY <1>1, <1>3, <1>5, FS_AddElement
<1>6. n # 0 => Cardinality(S(n)) = Cardinality(S(n - 1)) + (IF t[n] \in High THEN 1 ELSE 0)
  <2>1. CASE n # 0 /\ t[n] \in High
    BY <1>5, <2>1
  <2>2. CASE n # 0 /\ t[n] \notin High
    <3>1. n - 1 \in Nat
      BY <2>2
    <3>2. Cardinality(S(n - 1)) + 0 = Cardinality(S(n - 1))
      BY <1>1, <3>1
    <3> QED
      BY <1>4, <2>2, <3>2
  <2> QED
    BY <2>1, <2>2
<1>7. Cardinality(S(0)) = 0 /\ Cardinality(S(n)) \in Nat
  BY <1>1, <1>2, FS_EmptySet
<1> QED
  BY <1>6, <1>7 DEF Count, S

\* A part counts what the text counts there.
Alike(t, b, v, n) == \A m \in 0 .. n : Count(t, b + m) = Count(t, b) + Count(v, m)

\* Because they are the same characters.
LEMMA CountPart ==
    ASSUME NEW t, NEW b \in Nat, NEW v, NEW n \in Nat,
           \A i \in 1 .. n : v[i] = t[b + i]
    PROVE  Alike(t, b, v, n)
<1> USE DEF Alike
<1> DEFINE Bad == {m \in 0 .. n : Count(t, b + m) # Count(t, b) + Count(v, m)}
<1>1. SUFFICES ASSUME Bad # {}
               PROVE  FALSE
  OBVIOUS
<1>2. PICK m \in Bad : \A y \in Bad : m <= y
  <2>1. Bad \subseteq Nat
    OBVIOUS
  <2> HIDE DEF Bad
  <2> QED
    BY <1>1, <2>1, LeastOne
<1>3. m \in 0 .. n /\ Count(t, b + m) # Count(t, b) + Count(v, m)
  OBVIOUS
<1>4. m # 0
  <2> SUFFICES ASSUME m = 0
               PROVE  FALSE
    OBVIOUS
  <2>1. b + 0 = b /\ Count(v, 0) = 0 /\ Count(t, b) \in Nat
    BY CountIs
  <2> QED
    BY <1>3, <2>1
<1>5. m - 1 \in 0 .. n /\ m - 1 \notin Bad
  <2>1. m - 1 \in 0 .. n /\ ~(m <= m - 1)
    BY <1>3, <1>4
  <2> HIDE DEF Bad
  <2> QED
    BY <1>2, <2>1
<1> DEFINE k == m - 1
           c == b + k
<1>6. Count(t, c) = Count(t, b) + Count(v, k)
  BY <1>5
<1>7. /\ k \in Nat /\ c \in Nat /\ k + 1 = m /\ b + m = c + 1
      /\ m \in Nat /\ m # 0 /\ c + 1 \in Nat /\ c + 1 # 0 /\ c + 1 - 1 = c
  BY <1>3, <1>4
<1>8. v[m] = t[c + 1]
  BY <1>3, <1>4, <1>7
<1> HIDE DEF k, c, Bad
<1>9. Count(v, m) = Count(v, k) + (IF v[m] \in High THEN 1 ELSE 0)
  <2>1. m - 1 = k
    BY <1>7
  <2> QED
    BY <1>7, <2>1, CountIs
<1>10. Count(t, c + 1) = Count(t, c) + (IF t[c + 1] \in High THEN 1 ELSE 0)
  BY <1>7, CountIs
<1>11. Count(t, b) \in Nat /\ Count(v, k) \in Nat
  BY <1>7, CountIs
<1> QED
  BY <1>3, <1>6, <1>7, <1>8, <1>9, <1>10, <1>11

\* In front of every single-byte character there are whole characters only.
WholeCharacters(t) ==
    \A n \in 1 .. Len(t) : t[n] \notin High => Count(t, n) % 2 = 0

\* The halves in the first n characters of a value.
LEMMA HalvesAre ==
    ASSUME NEW v \in Seq(Chars), NEW n \in 0 .. Len(v)
    PROVE  Halves(SubSeq(v, 1, n)) = Count(v, n)
<1> DEFINE a == SubSeq(v, 1, n)
<1>1. DOMAIN a = 1 .. n /\ \A i \in 1 .. n : a[i] = v[i]
  OBVIOUS
<1> HIDE DEF a
<1>2. {i \in DOMAIN a : a[i] \in High} = {i \in 1 .. n : v[i] \in High}
  BY <1>1
<1> QED
  BY <1>2 DEF Halves, Count, a

\* What CutsBetweenCharacters asks of one value and one buffer.
Neatly(v, size, cut) ==
    /\ Len(cut) < size /\ IsPrefix(cut, v)
    /\ Len(v) < size - 1 => cut = v
    /\ Len(v) >= size => Whole(SubSeq(v, 1, size - 1)) \/ Whole(cut)

\* How a buffer of any size cuts a part of a text that begins with it, or
\* behind a single-byte character.
LEMMA CutNeatly ==
    ASSUME NEW t \in Seq(Chars), WholeCharacters(t),
           NEW b \in 0 .. Len(t), b # 0 => t[b] \notin High,
           NEW v \in Seq(Chars), b + Len(v) <= Len(t),
           \A i \in 1 .. Len(v) : v[i] = t[b + i],
           NEW size \in Nat \ {0, 1}
    PROVE  Neatly(v, size, Cut(v, size))
<1> DEFINE cut == Cut(v, size)
           n == IF Len(v) >= size - 1 /\ v[size - 1] \in High THEN size - 2
                ELSE IF Len(v) < size - 1 THEN Len(v) ELSE size - 1
<1>1. Len(v) \in Nat /\ Len(t) \in Nat
  OBVIOUS
<1>2. cut = SubSeq(v, 1, n)
  <2>1. Min({Len(v), size - 1}) = IF Len(v) < size - 1 THEN Len(v) ELSE size - 1
    <3> DEFINE T == {Len(v), size - 1}
    <3>1. T \subseteq Nat /\ T # {}
      BY <1>1
    <3>2. Min(T) \in T /\ \A y \in T : Min(T) <= y
      BY <3>1, MinIs
    <3> QED
      BY <1>1, <3>1, <3>2
  <2> QED
    BY <2>1 DEF Cut
<1>3. n \in 0 .. Len(v) /\ n < size /\ (Len(v) < size - 1 => n = Len(v))
  BY <1>1
<1>4. cut \in Seq(Chars) /\ Len(cut) = n /\ \A i \in 1 .. n : cut[i] = v[i]
  <2> HIDE DEF n
  <2> QED
    BY <1>2, <1>3
<1>5. IsPrefix(cut, v)
  <2> HIDE DEF cut, n
  <2>1. Len(cut) <= Len(v) /\ \A i \in 1 .. Len(cut) : cut[i] = v[i]
    BY <1>1, <1>3, <1>4
  <2> QED
    BY <1>4, <2>1, PrefixIs
<1>6. Len(v) < size - 1 => cut = v
  <2> HIDE DEF cut, n
  <2>1. Len(v) < size - 1 => Len(cut) = Len(v) /\ \A i \in 1 .. Len(cut) : cut[i] = v[i]
    BY <1>3, <1>4
  <2> QED
    BY <1>4, <2>1, SameText
<1>7. ASSUME Len(v) >= size
      PROVE  Whole(SubSeq(v, 1, size - 1)) \/ Whole(cut)
  <2> DEFINE m == size - 1
  <2>1. m \in 1 .. Len(v) /\ m - 1 \in 0 .. Len(v) /\ m - 1 = size - 2 /\ m \in Nat /\ m # 0
    BY <1>1, <1>7
  <2>2. Halves(SubSeq(v, 1, m)) = Count(v, m) /\ Halves(SubSeq(v, 1, m - 1)) = Count(v, m - 1)
    <3> HIDE DEF m
    <3> QED
      BY <2>1, HalvesAre
  <2>3. /\ Count(v, m) \in Nat /\ Count(v, m - 1) \in Nat
        /\ Count(v, m) = Count(v, m - 1) + (IF v[m] \in High THEN 1 ELSE 0)
    <3>1. m - 1 \in Nat
      BY <2>1
    <3> HIDE DEF m
    <3> QED
      BY <2>1, <3>1, CountIs
  <2>4. CASE v[m] \in High
    <3>1. cut = SubSeq(v, 1, m - 1)
      BY <1>1, <1>2, <1>7, <2>1, <2>4
    <3> HIDE DEF m, cut
    <3>2. Count(v, m) = Count(v, m - 1) + 1
      BY <2>3, <2>4
    <3>3. Count(v, m) % 2 = 0 \/ Count(v, m - 1) % 2 = 0
      <4>1. \A x \in Nat : (x + 1) % 2 = 0 \/ x % 2 = 0
        OBVIOUS
      <4> QED
        BY <2>3, <3>2, <4>1, Zenon
    <3> QED
      BY <2>2, <3>1, <3>3 DEF Whole, m
  <2>5. CASE v[m] \notin High
    <3> HIDE DEF m, n, cut
    <3>1. b + m \in 1 .. Len(t) /\ t[b + m] \notin High
      BY <1>1, <2>1, <2>5
    <3>2. Count(t, b) % 2 = 0 /\ Count(t, b + m) % 2 = 0
      <4>1. 0 % 2 = 0 /\ Count(t, 0) = 0
        BY CountIs
      <4>2. b # 0 => b \in 1 .. Len(t)
        OBVIOUS
      <4> QED
        BY <3>1, <4>1, <4>2 DEF WholeCharacters
    <3>3. Count(t, b + m) = Count(t, b) + Count(v, m)
      <4>1. b \in Nat /\ Len(v) \in Nat /\ m \in 0 .. Len(v)
        BY <1>1, <2>1
      <4>2. Alike(t, b, v, Len(v))
        BY <4>1, CountPart
      <4> QED
        BY <4>1, <4>2 DEF Alike
    <3>4. Count(t, b) \in Nat
      BY CountIs
    <3>5. Count(v, m) % 2 = 0
      <4>1. \A x, y \in Nat : x % 2 = 0 /\ (x + y) % 2 = 0 => y % 2 = 0
        OBVIOUS
      <4> QED
        BY <2>3, <3>2, <3>3, <3>4, <4>1, Zenon
    <3> QED
      BY <2>2, <3>5 DEF Whole, m
  <2> QED
    BY <2>4, <2>5
<1> QED
  BY <1>3, <1>4, <1>5, <1>6, <1>7 DEF Neatly

\* A value stands in the text, behind a character that is no half of one.
Stands(t, v, b) ==
    /\ b \in 0 .. Len(t) /\ (b # 0 => t[b] \notin High)
    /\ v \in Seq(Chars) /\ b + Len(v) <= Len(t)
    /\ \A i \in 1 .. Len(v) : v[i] = t[b + i]

\* An empty value stands everywhere.
LEMMA NothingStands ==
    ASSUME NEW t \in Seq(Chars)
    PROVE  Stands(t, <<>>, 0)
  BY DEF Stands

\* The beginning of what stands in a text stands there too.
LEMMA CutStands ==
    ASSUME NEW t \in Seq(Chars), NEW v, NEW b, Stands(t, v, b), NEW size \in Nat \ {0, 1}
    PROVE  Stands(t, Cut(v, size), b)
<1>1. /\ v \in Seq(Chars) /\ Len(v) \in Nat /\ Len(t) \in Nat
      /\ b \in 0 .. Len(t) /\ b + Len(v) <= Len(t)
      /\ \A i \in 1 .. Len(v) : v[i] = t[b + i]
  BY DEF Stands
<1>2. \E n \in 0 .. Len(v) : Cut(v, size) = SubSeq(v, 1, n)
  <2> DEFINE T == {Len(v), size - 1}
  <2>1. T \subseteq Nat /\ T # {}
    BY <1>1
  <2>2. Min(T) \in T /\ \A y \in T : Min(T) <= y
    BY <2>1, MinIs
  <2>3. Min(T) \in 0 .. Len(v)
    BY <1>1, <2>2
  <2>4. Len(v) >= size - 1 => size - 2 \in 0 .. Len(v)
    BY <1>1
  <2> QED
    BY <2>3, <2>4 DEF Cut
<1>3. PICK n \in 0 .. Len(v) : Cut(v, size) = SubSeq(v, 1, n)
  BY <1>2
<1> DEFINE a == SubSeq(v, 1, n)
<1>4. a \in Seq(Chars) /\ Len(a) = n /\ \A i \in 1 .. n : a[i] = v[i]
  BY <1>1
<1> HIDE DEF a
<1>5. Stands(t, a, b)
  <2>1. b + Len(a) <= Len(t)
    BY <1>1, <1>4
  <2>2. ASSUME NEW i \in 1 .. Len(a)
        PROVE  a[i] = t[b + i]
    <3>1. i \in 1 .. n /\ i \in 1 .. Len(v)
      BY <1>1, <1>4
    <3> QED
      BY <1>1, <1>4, <3>1
  <2> QED
    BY <1>4, <2>1, <2>2 DEF Stands
<1> QED
  BY <1>3, <1>5 DEF a

\* Where the value of a key begins and ends.
LEMMA ValueRangeIs ==
    ASSUME NEW t \in Seq(Chars), NEW range, WithinText(t, range), NEW at \in Places,
           at.end \in 1 .. range.end - 1, At(t, at.end) = "="
    PROVE  LET r == ValueRange(t, at, range) IN
           /\ r.begin \in at.end + 1 .. range.end /\ r.end \in r.begin .. range.end
           /\ r.begin - 1 \in 1 .. Len(t) /\ t[r.begin - 1] \notin High
           /\ Passed(t, at.end + 1, range.end, Blank, r.begin)
           /\ Reached(t, r.begin, range.end, Eol, r.end)
<1> DEFINE p == at.end + 1
           end == range.end
           b == Skip(t, p, end, Blank)
           e == Until(t, b, end, Eol)
<1>1. p \in 2 .. end /\ end \in 1 .. Len(t) + 1 /\ Len(t) \in Nat
  BY DEF WithinText
<1>2. Passed(t, p, end, Blank, b)
  BY <1>1, SkipIs
<1> HIDE DEF b
<1>3. b \in p .. end /\ \A q \in p .. b - 1 : At(t, q) \in Blank
  BY <1>1, <1>2 DEF Passed
<1>4. Reached(t, b, end, Eol, e)
  BY <1>1, <1>3, UntilIs
<1> HIDE DEF e
<1>5. e \in b .. end
  BY <1>1, <1>3, <1>4 DEF Reached
<1>6. b - 1 \in 1 .. Len(t)
  BY <1>1, <1>3
<1>7. At(t, b - 1) \in Blank \cup {"="}
  <2>1. CASE b = p
    <3>1. b - 1 = at.end
      BY <2>1
    <3> QED
      BY <3>1
  <2>2. CASE b # p
    <3>1. b - 1 \in p .. b - 1
      BY <1>1, <1>3, <2>2
    <3> QED
      BY <1>3, <3>1
  <2> QED
    BY <2>1, <2>2
<1>8. t[b - 1] \notin High
  <2>1. At(t, b - 1) = t[b - 1]
    BY <1>6 DEF At
  <2> QED
    BY <1>7, <2>1, CapsAssumption DEF Space
<1>9. ValueRange(t, at, range) = [begin |-> b, end |-> e]
  BY DEF ValueRange, b, e
<1> QED
  BY <1>2, <1>3, <1>4, <1>5, <1>6, <1>8, <1>9

\* What GetItemValue returns stands in the text.
LEMMA ValueStands ==
    ASSUME NEW t \in Seq(Chars), NEW s \in Seq(Chars), NEW k \in Seq(Chars), k # <<>>,
           NEW size \in Nat \ {0, 1}
    PROVE  \E b \in Nat : Stands(t, GetItemValue(t, s, k, size), b)
<1> DEFINE range == LocateSection(t, s)
           at == LocateKey(t, k, range)
           v == GetItemValue(t, s, k, size)
<1>1. v = ItemAt(t, AfterKey(t, at, range), size)
  BY DEF GetItemValue, LocateKeyValue
<1>2. CASE at.begin = 0
  <2>1. v = <<>>
    BY <1>1, <1>2 DEF AfterKey, ItemAt
  <2> QED
    BY <2>1, NothingStands
<1>3. CASE at.begin # 0
  <2>1. range # None
    <3> SUFFICES ASSUME range = None
                 PROVE  FALSE
      OBVIOUS
    <3>1. at = None
      BY DEF LocateKey
    <3> QED
      BY <1>3, <3>1 DEF None
  <2>2. WithinText(t, range)
    BY <2>1, SectionWithin
  <2>3. KeyFound(t, k, range.end, range.begin, at)
    BY <2>1, <2>2, LocateKeyIs
  <2>4. at \in Places /\ at.end \in 1 .. range.end - 1 /\ At(t, at.end) = "="
    <3>1. at \in Places /\ at.end \in at.begin + Len(k) .. range.end - 1 /\ At(t, at.end) = "="
      BY <1>3, <2>3 DEF KeyFound, EqualsAt
    <3>2. at.begin \in Nat /\ Len(k) \in Nat \ {0} /\ range.end \in Nat
      BY <2>2, <3>1 DEF Places, WithinText
    <3> HIDE DEF at, range
    <3> QED
      BY <3>1, <3>2
  <2> DEFINE r == ValueRange(t, at, range)
             b == r.begin
             e == r.end
  <2> HIDE DEF range, at, v
  <2>5. /\ b \in at.end + 1 .. range.end /\ e \in b .. range.end
        /\ b - 1 \in 1 .. Len(t) /\ t[b - 1] \notin High
    BY <2>2, <2>4, ValueRangeIs
  <2>6. range.end \in 1 .. Len(t) + 1 /\ Len(t) \in Nat
    BY <2>2 DEF WithinText
  <2> HIDE DEF b, e
  <2>7. AfterKey(t, at, range) = IF e <= b THEN None ELSE r
    BY <1>3 DEF AfterKey, NotEmpty, b, e
  <2>8. CASE AfterKey(t, at, range) = None
    <3>1. v = <<>>
      BY <1>1, <2>8 DEF ItemAt
    <3> QED
      BY <3>1, NothingStands DEF v
  <2>9. CASE AfterKey(t, at, range) # None
    <3> DEFINE m == e - 1
               a == SubSeq(t, b, m)
    <3>1. v = Cut(a, size)
      BY <1>1, <2>7, <2>9 DEF ItemAt, Between, b, e
    <3>2. b \in Nat /\ m \in Nat /\ 1 <= b /\ b <= m + 1 /\ m <= Len(t)
      BY <2>4, <2>5, <2>6
    <3> HIDE DEF m
    <3>3. /\ a \in Seq(Chars) /\ Len(a) = m + 1 - b
          /\ \A i \in 1 .. m + 1 - b : a[i] = t[b + i - 1]
      BY <3>2, PartIs
    <3> HIDE DEF a
    <3>4. /\ b - 1 + Len(a) <= Len(t) /\ \A i \in 1 .. Len(a) : b - 1 + i = b + i - 1
      BY <2>6, <3>2, <3>3
    <3>5. \A i \in 1 .. Len(a) : a[i] = t[b - 1 + i]
      BY <3>3, <3>4
    <3>6. Stands(t, a, b - 1)
      BY <2>5, <3>3, <3>4, <3>5 DEF Stands
    <3>7. Stands(t, v, b - 1)
      BY <3>1, <3>6, CutStands
    <3> QED
      BY <2>5, <3>7 DEF v
  <2> QED
    BY <2>8, <2>9
<1> QED
  BY <1>2, <1>3

\* While the file on disk is made of whole characters (the last of which may be
\* cut), every buffer gets a beginning of a value, and half a character only
\* where the property says so.
THEOREM CutsBetweenCharactersHolds ==
    Spec => [](WholeCharacters(disk) => CutsBetweenCharacters)
<1>1. ASSUME Mirrored, WholeCharacters(disk), NEW i \in Sections \X Keys, NEW size \in 2 .. BufSize
      PROVE  Neatly(saved[i], size, Cut(saved[i], size))
  <2>1. saved[i] = GetItemValue(disk, i[1], i[2], BufSize) /\ disk \in Seq(Chars)
    BY <1>1 DEF Mirrored, Items
  <2>2. i[1] \in Seq(Chars) /\ i[2] \in Seq(Chars) /\ i[2] # <<>>
    BY ArgumentsAreTexts
  <2>3. PICK b \in Nat : Stands(disk, saved[i], b)
    BY <2>1, <2>2, ValueStands, ConfigAssumption
  <2>4. size \in Nat \ {0, 1}
    BY ConfigAssumption
  <2> QED
    BY <1>1, <2>1, <2>3, <2>4, CutNeatly DEF Stands
<1>2. ASSUME Mirrored, WholeCharacters(disk)
      PROVE  CutsBetweenCharacters
  BY <1>1, <1>2, Zenon DEF CutsBetweenCharacters, Neatly
<1> QED
  BY <1>2, MirroredAlways, PTL

-----------------------------------------------------------------------------
(* Texts written line by line.                                             *)

\* All well written lines.
GoodLines ==
    {l \in [header: Seq(Chars), key: Seq(Chars), value: Seq(Chars), text: Seq(Chars)] : WellWritten(l)}

\* Those of the author are.
LEMMA LinesAreGood == Lines \subseteq GoodLines
  BY TextsAssumption, LinesAssumption DEF GoodLines

LEMMA AuthorsAreGood == \A ls \in Seq(Lines) : ls \in Seq(GoodLines)
  BY LinesAreGood

\* What is known of them.
LEMMA GoodLinesAre == \A l \in GoodLines : WellWritten(l) /\ l.text \in Seq(Chars)
  BY DEF GoodLines

\* The text t is written in the lines ls; line i begins at at[i].
Written(t, ls, at) == t \in Seq(Chars) /\ ls \in Seq(GoodLines) /\ Laid(t, ls, at)

\* A line ends in its line end, and has none before.
LEMMA LineIs ==
    ASSUME NEW l \in GoodLines
    PROVE  /\ l.text \in Seq(Chars) /\ Len(l.text) \in Nat \ {0}
           /\ \E z \in 1 .. Len(l.text) : \A i \in 1 .. Len(l.text) : l.text[i] \in Eol <=> i >= z
<1>1. l.text \in Seq(Chars)
  BY GoodLinesAre
<1>2. \E z \in 1 .. Len(l.text) : \A i \in 1 .. Len(l.text) : l.text[i] \in Eol <=> i >= z
  BY GoodLinesAre DEF WellWritten
<1>3. Len(l.text) \in Nat
  BY <1>1
<1> QED
  BY <1>1, <1>2, <1>3

\* Lines follow each other.
LEMMA LinesAscend ==
    ASSUME NEW t, NEW ls, NEW at, Written(t, ls, at),
           NEW i \in 1 .. Len(ls) + 1, NEW j \in 1 .. Len(ls) + 1, i < j
    PROVE  at[i] < at[j]
<1> DEFINE Bad == {x \in 1 .. Len(ls) + 1 : x > i /\ at[x] <= at[i]}
<1>1. /\ Len(ls) \in Nat /\ at \in [1 .. Len(ls) + 1 -> Nat]
      /\ \A x \in 1 .. Len(ls) : at[x + 1] = at[x] + Len(ls[x].text)
  BY DEF Written, Laid
<1>2. \A x \in 1 .. Len(ls) : Len(ls[x].text) \in Nat \ {0}
  BY LineIs DEF Written
<1>3. SUFFICES ASSUME Bad # {}
               PROVE  FALSE
  BY SMTT(20), <1>1
<1>4. Bad \subseteq Nat
  BY <1>1
<1>5. PICK x \in Bad : \A y \in Bad : x <= y
  <2> HIDE DEF Bad
  <2> QED
    BY <1>3, <1>4, LeastOne
<1>6. /\ x \in 2 .. Len(ls) + 1 /\ x - 1 \in 1 .. Len(ls) /\ x - 1 >= i /\ x > i
      /\ at[x] <= at[i] /\ at[x] \in Nat /\ at[i] \in Nat /\ at[x - 1] \in Nat
  <2>1. x \in 1 .. Len(ls) + 1 /\ x > i /\ at[x] <= at[i] /\ i >= 1
    BY <1>5
  <2>2. x \in 2 .. Len(ls) + 1 /\ x - 1 \in 1 .. Len(ls) /\ x - 1 >= i
    BY <1>1, <2>1
  <2>3. i \in 1 .. Len(ls) + 1 /\ x - 1 \in 1 .. Len(ls) + 1
    BY <1>1, <2>2
  <2>4. at[x] \in Nat /\ at[i] \in Nat /\ at[x - 1] \in Nat
    BY <1>1, <2>1, <2>3
  <2> QED
    BY <2>1, <2>2, <2>4
<1>7. at[x] = at[x - 1] + Len(ls[x - 1].text) /\ Len(ls[x - 1].text) \in Nat \ {0}
  BY <1>1, <1>2, <1>6
<1>8. at[x - 1] < at[i]
  BY <1>6, <1>7
<1>9. x - 1 > i
  BY <1>6, <1>8
<1>10. x - 1 \in Bad
  BY <1>6, <1>8, <1>9
<1> QED
  BY <1>5, <1>6, <1>10

\* What is known of line i.
LineAt(t, ls, at, i) ==
    /\ ls[i] \in GoodLines /\ ls[i].text \in Seq(Chars) /\ Len(ls[i].text) \in Nat \ {0}
    /\ at[i] \in 1 .. Len(t) /\ at[i + 1] \in 2 .. Len(t) + 1
    /\ at[i + 1] = at[i] + Len(ls[i].text)
    /\ \A q \in at[i] .. at[i + 1] - 1 : t[q] = ls[i].text[q + 1 - at[i]]
    /\ t[at[i + 1] - 1] \in Eol

\* Every line stands where it was written.
LEMMA LineStands ==
    ASSUME NEW t, NEW ls, NEW at, Written(t, ls, at), NEW i \in 1 .. Len(ls)
    PROVE  LineAt(t, ls, at, i)
<1> DEFINE n == Len(ls[i].text)
<1>1. /\ Len(ls) \in Nat /\ at \in [1 .. Len(ls) + 1 -> Nat] /\ Len(t) \in Nat
      /\ at[1] = 1 /\ at[Len(ls) + 1] = Len(t) + 1
      /\ at[i + 1] = at[i] + n
      /\ \A j \in 1 .. n : t[at[i] + j - 1] = ls[i].text[j]
  <2>1. Laid(t, ls, at)
    BY DEF Written
  <2>2. Len(ls) \in Nat /\ Len(t) \in Nat
    BY DEF Written
  <2> QED
    BY <2>1, <2>2 DEF Laid
<1>2. ls[i] \in GoodLines
  BY DEF Written
<1>3. /\ ls[i].text \in Seq(Chars) /\ n \in Nat \ {0}
      /\ \E z \in 1 .. n : \A x \in 1 .. n : ls[i].text[x] \in Eol <=> x >= z
  BY <1>2, LineIs
<1>4. at[i] \in Nat /\ at[i + 1] \in Nat
  BY <1>1
<1> HIDE DEF n
<1>5. 1 <= at[i]
  <2>1. 1 \in 1 .. Len(ls) + 1 /\ i \in 1 .. Len(ls) + 1
    BY <1>1
  <2>2. 1 < i => at[1] < at[i]
    BY <2>1, LinesAscend
  <2> QED
    BY <1>1, <1>4, <2>2
<1>6. at[i + 1] <= Len(t) + 1
  <2>1. i + 1 \in 1 .. Len(ls) + 1 /\ Len(ls) + 1 \in 1 .. Len(ls) + 1
    BY <1>1
  <2>2. i + 1 < Len(ls) + 1 => at[i + 1] < at[Len(ls) + 1]
    BY <2>1, LinesAscend
  <2> QED
    BY <1>1, <1>4, <2>2
<1>7. ASSUME NEW q \in at[i] .. at[i + 1] - 1
      PROVE  t[q] = ls[i].text[q + 1 - at[i]]
  <2> DEFINE a == at[i]
             z == at[i + 1]
  <2>1. a \in Nat /\ z \in Nat /\ n \in Nat /\ z = a + n /\ q \in a .. z - 1
    BY <1>1, <1>3, <1>4
  <2>2. q + 1 - a \in 1 .. n /\ a + (q + 1 - a) - 1 = q
    <3> HIDE DEF a, z
    <3> QED
      BY <2>1
  <2> QED
    BY <1>1, <2>2
<1>8. ls[i].text[n] \in Eol
  BY <1>3
<1>9. at[i + 1] - 1 \in at[i] .. at[i + 1] - 1 /\ (at[i + 1] - 1) + 1 - at[i] = n
  BY SMTT(20), <1>1, <1>3, <1>4
<1>10. t[at[i + 1] - 1] \in Eol
  BY <1>7, <1>8, <1>9
<1>11. at[i] \in 1 .. Len(t) /\ at[i + 1] \in 2 .. Len(t) + 1
  BY <1>1, <1>3, <1>4, <1>5, <1>6
<1> QED
  BY <1>1, <1>2, <1>3, <1>7, <1>10, <1>11 DEF LineAt, n

\* Every character is in a line.
In(at, i, p) == at[i] <= p /\ p < at[i + 1]

\* No character is outside.
LEMMA InSomeLine ==
    ASSUME NEW t, NEW ls, NEW at, Written(t, ls, at), NEW p \in 1 .. Len(t)
    PROVE  \E i \in 1 .. Len(ls) : In(at, i, p)
<1> DEFINE T == {x \in 1 .. Len(ls) + 1 : p < at[x]}
<1>1. /\ Len(ls) \in Nat /\ at \in [1 .. Len(ls) + 1 -> Nat] /\ Len(t) \in Nat
      /\ at[1] = 1 /\ at[Len(ls) + 1] = Len(t) + 1
  BY DEF Written, Laid
<1>2. T \subseteq Nat /\ Len(ls) + 1 \in T
  BY <1>1
<1>3. PICK x \in T : \A y \in T : x <= y
  <2> HIDE DEF T
  <2> QED
    BY <1>2, LeastOne
<1>4. x \in 1 .. Len(ls) + 1 /\ p < at[x] /\ x # 1
  BY <1>1, <1>3
<1>5. x - 1 \in 1 .. Len(ls) /\ x - 1 \notin T /\ (x - 1) + 1 = x
  BY <1>1, <1>3, <1>4
<1>6. at[x - 1] <= p
  BY <1>1, <1>5
<1> QED
  BY <1>4, <1>5, <1>6 DEF In

\* A line with a character behind another's is not before the other's line.
LEMMA LinesOrdered ==
    ASSUME NEW t, NEW ls, NEW at, Written(t, ls, at),
           NEW i \in 1 .. Len(ls), NEW j \in 1 .. Len(ls) + 1, NEW p \in Nat, In(at, i, p)
    PROVE  /\ at[j] <= p => j <= i
           /\ p < at[j] => i < j
<1>1. /\ Len(ls) \in Nat /\ at \in [1 .. Len(ls) + 1 -> Nat] /\ i + 1 \in 1 .. Len(ls) + 1
      /\ at[i] \in Nat /\ at[j] \in Nat /\ at[i + 1] \in Nat
  <2>1. Len(ls) \in Nat /\ at \in [1 .. Len(ls) + 1 -> Nat]
    BY DEF Written, Laid
  <2>2. i \in 1 .. Len(ls) + 1 /\ i + 1 \in 1 .. Len(ls) + 1
    BY <2>1
  <2> QED
    BY <2>1, <2>2
<1>2. j > i + 1 => at[i + 1] < at[j]
  BY <1>1, LinesAscend
<1>3. j < i => at[j] < at[i]
  BY <1>1, LinesAscend
<1> QED
  BY <1>1, <1>2, <1>3 DEF In

-----------------------------------------------------------------------------
(* Words and marks of a text are words and marks of its lines.             *)

\* A text and its line i in small letters.
LowerLine(t, x, a, z) ==
    /\ ToLower(t) \in Seq(Chars) /\ Len(ToLower(t)) = Len(t) /\ Len(t) \in Nat
    /\ ToLower(x) \in Seq(Chars) /\ Len(ToLower(x)) = z - a /\ Len(x) = z - a
    /\ a \in 1 .. Len(t) /\ z \in a + 1 .. Len(t) + 1
    /\ \A q \in a .. z - 1 : ToLower(t)[q] = ToLower(x)[q + 1 - a]
    /\ ToLower(t)[z - 1] \in Eol

\* ToLower of the text has ToLower of its lines.
LEMMA LowerLineIs ==
    ASSUME NEW t, NEW ls, NEW at, Written(t, ls, at), NEW i \in 1 .. Len(ls)
    PROVE  LowerLine(t, ls[i].text, at[i], at[i + 1])
<1> DEFINE x == ls[i].text
           a == at[i]
           z == at[i + 1]
<1>1. /\ x \in Seq(Chars) /\ Len(x) \in Nat \ {0}
      /\ a \in 1 .. Len(t) /\ z \in 2 .. Len(t) + 1 /\ z = a + Len(x)
      /\ \A q \in a .. z - 1 : t[q] = x[q + 1 - a]
      /\ t[z - 1] \in Eol
  <2>1. LineAt(t, ls, at, i)
    BY LineStands
  <2>2. /\ x \in Seq(Chars) /\ Len(x) \in Nat \ {0} /\ t[z - 1] \in Eol
        /\ a \in 1 .. Len(t) /\ z \in 2 .. Len(t) + 1 /\ z = a + Len(x)
    BY <2>1 DEF LineAt
  <2>3. \A q \in a .. z - 1 : t[q] = x[q + 1 - a]
    BY <2>1 DEF LineAt
  <2> QED
    BY <2>2, <2>3
<1>2. t \in Seq(Chars) /\ Len(t) \in Nat
  BY DEF Written
<1> HIDE DEF x, a, z
<1>3. a \in Nat /\ z \in Nat /\ Len(x) = z - a /\ z \in a + 1 .. Len(t) + 1
  BY <1>1, <1>2
<1>4. ASSUME NEW q \in a .. z - 1
      PROVE  ToLower(t)[q] = ToLower(x)[q + 1 - a]
  <2>1. q \in 1 .. Len(t) /\ q + 1 - a \in 1 .. Len(x)
    <3> DEFINE lx == Len(x)  lt == Len(t)
    <3>1. /\ a \in Nat /\ 1 <= a /\ z \in Nat /\ lt \in Nat
          /\ lx = z - a /\ z <= lt + 1
      BY <1>1, <1>2, <1>3
    <3> HIDE DEF lx, lt
    <3>2. q \in Int /\ a <= q /\ q <= z - 1
      BY <3>1
    <3>3. q \in 1 .. lt /\ q + 1 - a \in 1 .. lx
      BY <3>1, <3>2
    <3> QED
      BY <3>3 DEF lx, lt
  <2>2. t[q] = x[q + 1 - a]
    BY <1>1
  <2>3. ToLower(t)[q] = IF t[q] \in DOMAIN Caps THEN Caps[t[q]] ELSE t[q]
    BY <1>2, <2>1, LowerIs
  <2> DEFINE j == q + 1 - a
  <2>4. j \in 1 .. Len(x) /\ t[q] = x[j] /\ x \in Seq(Chars)
    BY <1>1, <2>1, <2>2
  <2> HIDE DEF j
  <2>5. ToLower(x)[j] = IF x[j] \in DOMAIN Caps THEN Caps[x[j]] ELSE x[j]
    BY <2>4, LowerIs
  <2>6. ToLower(t)[q] = ToLower(x)[j]
    BY <2>3, <2>4, <2>5
  <2> QED
    BY <2>6 DEF j
<1>5. z - 1 \in 1 .. Len(t)
  BY <1>1, <1>2, <1>3
<1>6. ToLower(t)[z - 1] \in Eol
  <2>1. t[z - 1] \notin DOMAIN Caps
    BY <1>1, CapsAssumption DEF Space
  <2> QED
    BY <1>1, <1>2, <1>5, <2>1, LowerIs
<1> QED
  BY <1>1, <1>2, <1>3, <1>4, <1>6, LowerIs DEF LowerLine, x, a, z

\* A word without line ends stands in one line.
Wordlike(w) == w \in Seq(Chars) /\ Len(w) \in Nat \ {0} /\ \A i \in 1 .. Len(w) : w[i] \notin Eol

\* It stands in the text where it stands in the line.
SameOccurs(t, x, a, z, w, p) ==
    /\ Occurs(ToLower(t), w, p) <=> Occurs(ToLower(x), w, p + 1 - a)
    /\ Occurs(ToLower(t), w, p) => p + Len(w) < z

\* It does, for it cannot reach past the line's end.
LEMMA OccursInLine ==
    ASSUME NEW t, NEW x, NEW a, NEW z, LowerLine(t, x, a, z), NEW w, Wordlike(w), NEW p \in a .. z - 1
    PROVE  SameOccurs(t, x, a, z, w, p)
<1> DEFINE lt == ToLower(t)
           lx == ToLower(x)
           n == Len(w)
           r == p + 1 - a
<1>1. /\ Len(lt) = Len(t) /\ Len(t) \in Nat /\ Len(lx) = z - a
      /\ a \in 1 .. Len(t) /\ z \in a + 1 .. Len(t) + 1
      /\ \A q \in a .. z - 1 : lt[q] = lx[q + 1 - a]
      /\ lt[z - 1] \in Eol
  BY DEF LowerLine
<1>2. n \in Nat \ {0} /\ \A j \in 1 .. n : w[j] \notin Eol
  BY DEF Wordlike
<1>3. DOMAIN w = 1 .. n
  BY DEF Wordlike
<1>4. a \in Nat /\ z \in Nat /\ p \in Nat /\ r \in Nat
  BY <1>1
<1> HIDE DEF lt, lx, n, r
<1>5. r = p + 1 - a
  BY DEF r
<1>6. ASSUME Occurs(lt, w, p)
      PROVE  p + n < z /\ Occurs(lx, w, r)
  <2>1. \A j \in 1 .. n : lt[p + j - 1] = w[j]
    BY <1>3, <1>6 DEF Occurs
  <2>2. p + n < z
    <3> SUFFICES ASSUME ~(p + n < z)
                 PROVE  FALSE
      OBVIOUS
    <3>1. z - p \in 1 .. n /\ p + (z - p) - 1 = z - 1
      BY <1>1, <1>2, <1>4
    <3>2. lt[z - 1] = w[z - p]
      BY <2>1, <3>1
    <3> QED
      BY <1>1, <1>2, <3>1, <3>2
  <2>3. r \in 1 .. Len(lx) + 1 - n
    BY <1>1, <1>2, <1>4, <1>5, <2>2
  <2>4. ASSUME NEW j \in 1 .. n
        PROVE  lx[r + j - 1] = w[j]
    <3>1. p + j - 1 \in a .. z - 1 /\ (p + j - 1) + 1 - a = r + j - 1
      BY <1>1, <1>2, <1>4, <1>5, <2>2
    <3> QED
      BY <1>1, <2>1, <3>1
  <2> QED
    BY <1>3, <2>2, <2>3, <2>4 DEF Occurs, n
<1>7. ASSUME Occurs(lx, w, r)
      PROVE  Occurs(lt, w, p)
  <2>1. r \in 1 .. Len(lx) + 1 - n /\ \A j \in 1 .. n : lx[r + j - 1] = w[j]
    BY <1>3, <1>7 DEF Occurs, n
  <2>2. p \in 1 .. Len(lt) + 1 - n
    BY <1>1, <1>2, <1>4, <1>5, <2>1
  <2>3. ASSUME NEW j \in 1 .. n
        PROVE  lt[p + j - 1] = w[j]
    <3>1. p + j - 1 \in a .. z - 1 /\ (p + j - 1) + 1 - a = r + j - 1
      BY <1>1, <1>2, <1>4, <1>5, <2>1
    <3> QED
      BY <1>1, <2>1, <3>1
  <2> QED
    BY <1>3, <2>2, <2>3 DEF Occurs, n
<1> QED
  BY <1>6, <1>7 DEF SameOccurs, lt, lx, n, r

\* And is a mark in the text exactly where it is one in the line.
LEMMA MarkInLine ==
    ASSUME NEW t, NEW ls, NEW at, Written(t, ls, at), NEW i \in 1 .. Len(ls),
           NEW w, Wordlike(w), NEW p \in Nat, In(at, i, p)
    PROVE  Mark(ToLower(t), w, p) <=> Mark(ToLower(ls[i].text), w, p + 1 - at[i])
<1> DEFINE lt == ToLower(t)
           x == ls[i].text
           lx == ToLower(x)
           n == Len(w)
           a == at[i]
           z == at[i + 1]
           r == p + 1 - a
<1>1. LowerLine(t, x, a, z)
  BY LowerLineIs
<1>2. /\ Len(lt) = Len(t) /\ Len(t) \in Nat /\ Len(lx) = z - a
      /\ a \in 1 .. Len(t) /\ z \in a + 1 .. Len(t) + 1
      /\ \A q \in a .. z - 1 : lt[q] = lx[q + 1 - a]
  BY <1>1 DEF LowerLine
<1>3. n \in Nat \ {0}
  BY DEF Wordlike
<1>4. a \in Nat /\ z \in Nat /\ p \in a .. z - 1
  BY SMTT(20), <1>2 DEF In
<1>5. DOMAIN lt = 1 .. Len(lt) /\ DOMAIN lx = 1 .. Len(lx)
  BY <1>1 DEF LowerLine
<1>6. SameOccurs(t, x, a, z, w, p)
  BY <1>1, <1>4, OccursInLine
<1>7. (Occurs(lt, w, p) <=> Occurs(lx, w, r)) /\ (Occurs(lt, w, p) => p + n < z)
  BY <1>6 DEF SameOccurs
<1>8. p = a /\ a # 1 => At(lt, p - 1) \in Space
  <2> SUFFICES ASSUME p = a, a # 1
               PROVE  At(lt, p - 1) \in Space
    OBVIOUS
  <2>1. a - 1 \in 1 .. Len(t) /\ at \in [1 .. Len(ls) + 1 -> Nat] /\ at[1] = 1 /\ Len(ls) \in Nat
    <3>1. at \in [1 .. Len(ls) + 1 -> Nat] /\ at[1] = 1 /\ Len(ls) \in Nat
      BY DEF Written, Laid
    <3>2. a - 1 \in 1 .. Len(t)
      <4> HIDE DEF a
      <4> QED
        BY <1>2, <1>4
    <3> QED
      BY <3>1, <3>2
  <2>2. i # 1
    BY <2>1
  <2>3. i - 1 \in 1 .. Len(ls) /\ (i - 1) + 1 = i
    BY <2>1, <2>2
  <2>4. LowerLine(t, ls[i - 1].text, at[i - 1], a)
    BY <2>3, LowerLineIs
  <2>5. lt[a - 1] \in Eol
    BY <2>4 DEF LowerLine
  <2> QED
    BY <1>2, <1>5, <2>1, <2>5 DEF At, Space
<1> HIDE DEF lt, x, lx, n, a, z, r
<1>9. r = p + 1 - a
  BY DEF r
<1>10. p # a => r # 1 /\ At(lt, p - 1) = At(lx, r - 1) /\ p # 1
  <2> SUFFICES ASSUME p # a
               PROVE  r # 1 /\ At(lt, p - 1) = At(lx, r - 1) /\ p # 1
    OBVIOUS
  <2>1. /\ r # 1 /\ p # 1 /\ p - 1 \in a .. z - 1 /\ (p - 1) + 1 - a = r - 1
        /\ p - 1 \in 1 .. Len(lt) /\ r - 1 \in 1 .. Len(lx)
    BY <1>2, <1>4, <1>9
  <2>2. lt[p - 1] = lx[r - 1]
    BY <1>2, <2>1
  <2> QED
    BY <1>5, <2>1, <2>2 DEF At
<1>11. p = a => r = 1
  BY <1>4, <1>9
<1>12. p + n < z => At(lt, p + n) = At(lx, r + n)
  <2> SUFFICES ASSUME p + n < z
               PROVE  At(lt, p + n) = At(lx, r + n)
    OBVIOUS
  <2>1. /\ p + n \in a .. z - 1 /\ (p + n) + 1 - a = r + n
        /\ p + n \in 1 .. Len(lt) /\ r + n \in 1 .. Len(lx)
    BY <1>2, <1>3, <1>4, <1>9
  <2>2. lt[p + n] = lx[r + n]
    BY <1>2, <2>1
  <2> QED
    BY <1>5, <2>1, <2>2 DEF At
<1>13. (p = 1 \/ At(lt, p - 1) \in Space) <=> (r = 1 \/ At(lx, r - 1) \in Space)
  <2>1. CASE p = a
    BY <1>8, <1>11, <2>1
  <2>2. CASE p # a
    BY <1>10, <2>2
  <2> QED
    BY <2>1, <2>2
<1>14. Mark(lt, w, p) <=> Mark(lx, w, r)
  BY <1>7, <1>12, <1>13 DEF Mark, n
<1> QED
  BY <1>14 DEF lt, lx, x, r, a

\* Words that stand apart in every line stand apart in the text.
LEMMA ApartInText ==
    ASSUME NEW t, NEW ls, NEW at, Written(t, ls, at), NEW w, Wordlike(w),
           \A i \in 1 .. Len(ls) : Apart(ToLower(ls[i].text), w)
    PROVE  Apart(ToLower(t), w)
<1> DEFINE lt == ToLower(t)
<1>1. t \in Seq(Chars) /\ Len(lt) = Len(t) /\ Len(t) \in Nat
  BY LowerIs DEF Written
<1> SUFFICES ASSUME NEW p \in 1 .. Len(lt), NEW q \in 1 .. Len(lt),
                    Occurs(lt, w, p), Occurs(lt, w, q), p < q
             PROVE  p + Len(w) < q
  BY DEF Apart
<1>2. PICK i \in 1 .. Len(ls) : In(at, i, p)
  BY <1>1, InSomeLine
<1>3. PICK j \in 1 .. Len(ls) : In(at, j, q)
  BY <1>1, InSomeLine
<1> DEFINE x == ls[i].text
           a == at[i]
           z == at[i + 1]
           n == Len(w)
<1>4. LowerLine(t, x, a, z)
  BY LowerLineIs
<1>5. /\ a \in 1 .. Len(t) /\ z \in a + 1 .. Len(t) + 1 /\ a \in Nat /\ z \in Nat
      /\ Len(ToLower(x)) = z - a /\ p \in a .. z - 1 /\ n \in Nat \ {0}
  <2>1. a \in 1 .. Len(t) /\ z \in a + 1 .. Len(t) + 1 /\ Len(ToLower(x)) = z - a
    BY <1>4 DEF LowerLine
  <2>2. n \in Nat \ {0} /\ p >= a /\ p < z
    BY <1>2 DEF Wordlike, In
  <2> HIDE DEF a, z, x, n
  <2> QED
    BY <1>1, <2>1, <2>2
<1>6. SameOccurs(t, x, a, z, w, p)
  BY <1>4, <1>5, OccursInLine
<1>7. Occurs(ToLower(x), w, p + 1 - a) /\ p + n < z
  BY <1>6 DEF SameOccurs
<1>8. CASE q >= z
  BY <1>1, <1>5, <1>7, <1>8
<1>9. CASE q < z
  <2>1. q \in a .. z - 1
    BY SMTT(20), <1>1, <1>5, <1>9
  <2>2. SameOccurs(t, x, a, z, w, q)
    BY <1>4, <2>1, OccursInLine
  <2>3. Occurs(ToLower(x), w, q + 1 - a)
    BY <2>2 DEF SameOccurs
  <2>4. /\ p + 1 - a \in 1 .. Len(ToLower(x)) /\ q + 1 - a \in 1 .. Len(ToLower(x))
        /\ p + 1 - a < q + 1 - a
    <3> DEFINE m == Len(ToLower(x))
    <3>1. m = z - a
      BY <1>5
    <3> HIDE DEF a, z, x, m
    <3>2. p + 1 - a \in 1 .. m /\ q + 1 - a \in 1 .. m /\ p + 1 - a < q + 1 - a
      BY <1>5, <2>1, <3>1
    <3> QED
      BY <3>2 DEF m
  <2>5. Apart(ToLower(x), w)
    OBVIOUS
  <2>6. (p + 1 - a) + n < q + 1 - a
    BY <1>7, <2>3, <2>4, <2>5 DEF Apart
  <2> QED
    BY SMTT(20), <1>1, <1>5, <2>1, <2>6
<1> QED
  BY SMTT(20), <1>1, <1>5, <1>8, <1>9

-----------------------------------------------------------------------------
(* The header of a section.                                                *)

\* A header's word is one.
LEMMA HeaderWordlike ==
    ASSUME NEW s \in Sections
    PROVE  Wordlike(HeaderWord(s)) /\ HeaderWord(s)[1] = "["
<1> DEFINE w == HeaderWord(s)
           ws == ToLower(s)
           a == <<"[">> \o ws
<1>1. s \in Seq(Chars)
  BY ArgumentsAreTexts
<1>2. w \in Seq(Chars) /\ Len(w) = Len(s) + 2
  BY <1>1, SectionWord
<1>3. ws \in Seq(Chars) /\ Len(ws) = Len(s) /\ Len(s) \in Nat
  BY <1>1, LowerIs
<1>4. \A i \in 1 .. Len(s) : ws[i] \notin Eol
  <2>1. DOMAIN s = 1 .. Len(s)
    BY <1>1
  <2> QED
    BY <2>1, LinesAssumption
<1>5. /\ <<"[">> \in Seq(Chars) /\ Len(<<"[">>) = 1 /\ <<"[">>[1] = "["
      /\ <<"]">> \in Seq(Chars) /\ Len(<<"]">>) = 1 /\ <<"]">>[1] = "]"
  BY OneIs DEF Chars
<1>6. w = a \o <<"]">>
  BY DEF HeaderWord
<1>7. /\ a \in Seq(Chars) /\ Len(a) = 1 + Len(s) /\ a[1] = "["
      /\ \A i \in 1 .. Len(s) : a[1 + i] = ws[i]
  <2> DEFINE o == <<"[">>
  <2>1. o \in Seq(Chars) /\ Len(o) = 1 /\ o[1] = "["
    BY <1>5
  <2> HIDE DEF o, ws
  <2>2. /\ (o \o ws) \in Seq(Chars) /\ Len(o \o ws) = Len(o) + Len(ws)
        /\ \A i \in 1 .. Len(o) : (o \o ws)[i] = o[i]
        /\ \A i \in 1 .. Len(ws) : (o \o ws)[Len(o) + i] = ws[i]
    BY <1>3, <2>1, JoinedIs
  <2>3. (o \o ws)[1] = "["
    BY <2>1, <2>2
  <2> QED
    BY <1>3, <2>1, <2>2, <2>3 DEF o
<1> HIDE DEF a, ws, w
<1>8. /\ \A i \in 1 .. Len(a) : w[i] = a[i]
      /\ w[Len(a) + 1] = "]"
  <2> DEFINE c == <<"]">>
  <2>1. c \in Seq(Chars) /\ Len(c) = 1 /\ c[1] = "]" /\ w = a \o c
    BY <1>5, <1>6
  <2> HIDE DEF c
  <2>2. /\ \A i \in 1 .. Len(a) : (a \o c)[i] = a[i]
        /\ \A i \in 1 .. Len(c) : (a \o c)[Len(a) + i] = c[i]
    BY <1>7, <2>1, JoinedIs
  <2>3. 1 \in 1 .. Len(c)
    BY <2>1
  <2>4. (a \o c)[Len(a) + 1] = c[1]
    BY <2>2, <2>3
  <2> QED
    BY <2>1, <2>2, <2>4
<1>9. ASSUME NEW i \in 1 .. Len(w)
      PROVE  w[i] \notin Eol
  <2>1. CASE i = 1
    <3>1. w[i] = "["
      BY <1>3, <1>7, <1>8, <2>1
    <3> QED
      BY <3>1 DEF Eol
  <2>2. CASE i = Len(s) + 2
    <3>1. w[i] = "]"
      BY <1>3, <1>7, <1>8, <2>2
    <3> QED
      BY <3>1 DEF Eol
  <2>3. CASE i # 1 /\ i # Len(s) + 2
    <3>1. i - 1 \in 1 .. Len(s) /\ i \in 1 .. Len(a) /\ 1 + (i - 1) = i
      BY <1>2, <1>3, <1>7, <2>3
    <3>2. w[i] = ws[i - 1]
      BY <1>7, <1>8, <3>1
    <3> QED
      BY <1>4, <3>1, <3>2
  <2> QED
    BY <2>1, <2>2, <2>3
<1>10. Len(w) \in Nat \ {0}
  BY <1>2, <1>3 DEF w
<1>11. w[1] = "["
  BY <1>3, <1>7, <1>8
<1> QED
  BY <1>2, <1>9, <1>10, <1>11 DEF Wordlike, w

\* So is a key.
LEMMA KeyWordlike ==
    ASSUME NEW k \in Keys
    PROVE  Wordlike(ToLower(k)) /\ Len(ToLower(k)) = Len(k)
<1>1. k \in Seq(Chars) /\ k # <<>>
  BY ArgumentsAreTexts
<1>2. ToLower(k) \in Seq(Chars) /\ Len(ToLower(k)) = Len(k) /\ Len(k) \in Nat \ {0}
  BY <1>1, LowerIs
<1>3. DOMAIN k = 1 .. Len(k)
  BY <1>1
<1>4. \A i \in 1 .. Len(k) : ToLower(k)[i] \notin Eol
  BY <1>3, LinesAssumption
<1> QED
  BY <1>2, <1>4 DEF Wordlike

\* f is the first line with the header s.
HeaderAt(ls, s, f) ==
    f \in 1 .. Len(ls) /\ ls[f].header = s /\ \A i \in 1 .. f - 1 : ls[i].header # s

\* Its section goes on to line n.
SectionTo(ls, f, n) ==
    /\ n \in f + 1 .. Len(ls) + 1 /\ (n <= Len(ls) => ls[n].header # <<>>)
    /\ \A i \in f + 1 .. n - 1 : ls[i].header = <<>>

\* A line is found to be a header exactly where it is one.
LEMMA HeaderMarks ==
    ASSUME NEW t, NEW ls, NEW at, Written(t, ls, at), NEW i \in 1 .. Len(ls), NEW s \in Sections
    PROVE  /\ ls[i].header = s =>
                \E p \in Nat : In(at, i, p) /\ Mark(ToLower(t), HeaderWord(s), p)
           /\ \A p \in Nat : In(at, i, p) /\ Mark(ToLower(t), HeaderWord(s), p) => ls[i].header = s
<1> DEFINE w == HeaderWord(s)
           x == ls[i].text
           n == Len(x)
           a == at[i]
           z == at[i + 1]
<1>1. /\ ls[i] \in GoodLines /\ n \in Nat \ {0} /\ a \in Nat /\ z \in Nat /\ z = a + n
  <2>1. /\ ls[i] \in GoodLines /\ n \in Nat \ {0} /\ a \in 1 .. Len(t) /\ z \in 2 .. Len(t) + 1 /\ z = a + n
    BY LineStands DEF LineAt
  <2> QED
    BY <2>1
<1>2. ls[i].header = s <=> \E r \in 1 .. n : Mark(ToLower(x), w, r)
  BY <1>1, GoodLinesAre DEF WellWritten
<1>3. Wordlike(w)
  BY HeaderWordlike
<1>4. \A p \in Nat : In(at, i, p) => (Mark(ToLower(t), w, p) <=> Mark(ToLower(x), w, p + 1 - a))
  BY <1>3, MarkInLine
<1>5. \A p \in Nat : In(at, i, p) <=> p + 1 - a \in 1 .. n
  <2> HIDE DEF n, a, z
  <2>1. \A p \in Nat : a <= p /\ p < z <=> p + 1 - a \in 1 .. n
    BY <1>1
  <2> QED
    BY <2>1 DEF In, a, z
<1> HIDE DEF w, x, n, a, z
<1>6. ASSUME NEW p \in Nat, In(at, i, p), Mark(ToLower(t), w, p)
      PROVE  ls[i].header = s
  BY <1>2, <1>4, <1>5, <1>6
<1>7. ASSUME ls[i].header = s
      PROVE  \E p \in Nat : In(at, i, p) /\ Mark(ToLower(t), w, p)
  <2>1. PICK r \in 1 .. n : Mark(ToLower(x), w, r)
    BY <1>2, <1>7
  <2>2. a + r - 1 \in Nat /\ (a + r - 1) + 1 - a = r
    BY <1>1
  <2>3. In(at, i, a + r - 1)
    BY <1>5, <2>2
  <2> QED
    BY <1>4, <2>1, <2>2, <2>3
<1> QED
  BY <1>6, <1>7 DEF w

\* The search for the header finds the first line that has it, and none else.
LEMMA HeaderFound ==
    ASSUME NEW t, NEW ls, NEW at, Written(t, ls, at), NEW s \in Sections,
           NEW p, p = LocateStr(ToLower(t), 1, Len(t) + 1, HeaderWord(s))
    PROVE  /\ p \in Nat
           /\ p = 0 <=> \A i \in 1 .. Len(ls) : ls[i].header # s
           /\ \A f : HeaderAt(ls, s, f) =>
                p # 0 /\ In(at, f, p) /\ In(at, f, p + Len(HeaderWord(s)))
<1> DEFINE w == HeaderWord(s)
           lt == ToLower(t)
<1>1. t \in Seq(Chars) /\ Len(t) \in Nat /\ Len(lt) = Len(t) /\ ls \in Seq(GoodLines) /\ Len(ls) \in Nat
  BY LowerIs DEF Written
<1>2. Wordlike(w) /\ Len(w) \in Nat \ {0}
  BY HeaderWordlike DEF Wordlike
<1>3. Apart(lt, w)
  <2>1. \A i \in 1 .. Len(ls) : Apart(ToLower(ls[i].text), w)
    <3>1. \A i \in 1 .. Len(ls) : ls[i] \in GoodLines
      BY <1>1
    <3> QED
      BY <3>1, GoodLinesAre DEF WellWritten
  <2> QED
    BY <1>2, <2>1, ApartInText
<1>4. Located(lt, w, 1, Len(t) + 1, p)
  BY <1>1, <1>2, LocateStrIs
<1> HIDE DEF w, lt
<1>5. /\ p \in Nat /\ (p # 0 => Mark(lt, w, p) /\ Occurs(lt, w, p))
      /\ \A q \in Nat : q >= 1 /\ q + Len(w) <= Len(t) + 1 /\ Mark(lt, w, q) => p # 0 /\ p <= q
  BY <1>3, <1>4 DEF Located, Clean
<1>6. \A q \in Nat : Mark(lt, w, q) => p # 0 /\ p <= q
  <2> SUFFICES ASSUME NEW q \in Nat, Mark(lt, w, q)
               PROVE  q >= 1 /\ q + Len(w) <= Len(t) + 1
    BY <1>5
  <2>1. q \in 1 .. Len(lt) + 1 - Len(w)
    BY DEF Mark, Occurs
  <2> QED
    BY <1>1, <1>2, <2>1
<1>7. ASSUME NEW i \in 1 .. Len(ls)
      PROVE  /\ ls[i].header = s => \E q \in Nat : In(at, i, q) /\ Mark(lt, w, q)
             /\ \A q \in Nat : In(at, i, q) /\ Mark(lt, w, q) => ls[i].header = s
  BY HeaderMarks DEF lt, w
<1>8. ASSUME NEW f, HeaderAt(ls, s, f)
      PROVE  p # 0 /\ In(at, f, p) /\ In(at, f, p + Len(w))
  <2>1. f \in 1 .. Len(ls) /\ ls[f].header = s /\ \A i \in 1 .. f - 1 : ls[i].header # s
    BY <1>8 DEF HeaderAt
  <2>2. PICK q \in Nat : In(at, f, q) /\ Mark(lt, w, q)
    BY <1>7, <2>1
  <2>3. p # 0 /\ p <= q /\ Mark(lt, w, p) /\ Occurs(lt, w, p)
    BY <1>5, <1>6, <2>2
  <2>4. p \in 1 .. Len(t)
    BY <1>1, <1>2, <2>3, OccursIn
  <2>5. PICK i \in 1 .. Len(ls) : In(at, i, p)
    BY <2>4, InSomeLine
  <2>6. i <= f
    <3>1. at[i] <= q
      <4>1. at[i] <= p /\ at[i] \in Nat
        <5>1. LineAt(t, ls, at, i)
          BY LineStands
        <5>2. at[i] \in 1 .. Len(t)
          BY <5>1 DEF LineAt
        <5> QED
          BY <1>1, <2>5, <5>2 DEF In
      <4> QED
        BY <1>5, <2>3, <4>1
    <3>2. i \in 1 .. Len(ls) + 1
      BY <1>1
    <3> QED
      BY <2>1, <2>2, <3>1, <3>2, LinesOrdered
  <2>7. ls[i].header = s
    BY <1>5, <1>7, <2>3, <2>5
  <2>8. i = f
    BY <1>1, <2>1, <2>6, <2>7
  <2>9. LowerLine(t, ls[f].text, at[f], at[f + 1])
    BY <2>1, LowerLineIs
  <2>10. at[f] \in 1 .. Len(t) /\ at[f + 1] \in at[f] + 1 .. Len(t) + 1
    BY <2>9 DEF LowerLine
  <2>11. p \in at[f] .. at[f + 1] - 1
    BY <1>1, <2>4, <2>5, <2>8, <2>10 DEF In
  <2>12. p + Len(w) < at[f + 1]
    BY <1>2, <2>3, <2>9, <2>11, OccursInLine DEF SameOccurs, lt
  <2>13. In(at, f, p + Len(w))
    BY <1>1, <1>2, <2>4, <2>10, <2>11, <2>12 DEF In
  <2> QED
    BY <2>3, <2>5, <2>8, <2>13
<1>9. ASSUME p = 0, NEW i \in 1 .. Len(ls)
      PROVE  ls[i].header # s
  BY <1>6, <1>7, <1>9
<1>10. ASSUME p # 0
       PROVE  \E i \in 1 .. Len(ls) : ls[i].header = s
  <2>1. p \in 1 .. Len(t) /\ Mark(lt, w, p)
    BY <1>1, <1>2, <1>5, <1>10, OccursIn
  <2>2. PICK i \in 1 .. Len(ls) : In(at, i, p)
    BY <2>1, InSomeLine
  <2> QED
    BY <1>5, <1>7, <2>1, <2>2
<1> QED
  BY <1>5, <1>8, <1>9, <1>10 DEF w

-----------------------------------------------------------------------------
(* The first line of a section that is not empty.                          *)

\* A line that is only a line end.
Empty(l) == \A j \in 1 .. Len(l.text) : l.text[j] \in Eol

\* A line that is only a line end is no header and no item.
LEMMA EmptyLine ==
    ASSUME NEW l \in GoodLines, Empty(l)
    PROVE  l.header = <<>> /\ l.key \notin Keys
<1> DEFINE x == l.text
<1>1. x \in Seq(Chars) /\ Len(x) \in Nat
  BY LineIs
<1>2. WellWritten(l)
  BY GoodLinesAre
<1>3. \A j \in 1 .. Len(x) : x[j] \in Eol
  BY DEF Empty
<1>4. l.header = <<>>
  <2>1. \A r \in 1 .. Len(x) : x[r] # "["
    BY <1>3 DEF Eol
  <2>2. (l.header # <<>>) <=> \E r \in 1 .. Len(x) : x[r] = "[" /\ \A q \in 1 .. r - 1 : x[q] \in Blank
    BY <1>2 DEF WellWritten
  <2> QED
    BY <2>1, <2>2
<1>5. ASSUME NEW k \in Keys, l.key = k
      PROVE  FALSE
  <2>1. IsItem(x, k, l.value)
    BY <1>2, <1>4, <1>5 DEF WellWritten
  <2>2. PICK p \in 1 .. Len(x) : Mark(ToLower(x), ToLower(k), p)
    BY <2>1 DEF IsItem
  <2>3. Len(ToLower(k)) \in Nat \ {0} /\ DOMAIN ToLower(k) = 1 .. Len(ToLower(k))
    BY KeyWordlike DEF Wordlike
  <2>4. ToLower(x)[p] = ToLower(k)[1]
    <3> DEFINE lx == ToLower(x)
               lk == ToLower(k)
    <3>1. 1 \in DOMAIN lk /\ \A i \in DOMAIN lk : lx[p + i - 1] = lk[i]
      BY <2>2, <2>3 DEF Mark, Occurs
    <3>2. p + 1 - 1 = p
      OBVIOUS
    <3> HIDE DEF lx, lk
    <3>3. lx[p + 1 - 1] = lk[1]
      BY <3>1
    <3> QED
      BY <3>2, <3>3 DEF lx, lk
  <2>5. x[p] \in Eol /\ x[p] \notin DOMAIN Caps
    BY <1>3, CapsAssumption DEF Space
  <2>6. ToLower(x)[p] = x[p]
    BY <1>1, <2>5, LowerIs
  <2>7. ToLower(k)[1] \notin Space
    BY LinesAssumption
  <2> QED
    BY <2>4, <2>5, <2>6, <2>7 DEF Space
<1> QED
  BY <1>4, <1>5

\* The line ends of a line are its last characters.
LEMMA EolsOfLine ==
    ASSUME NEW t, NEW ls, NEW at, Written(t, ls, at), NEW i \in 1 .. Len(ls)
    PROVE  \E z \in at[i] .. at[i + 1] - 1 :
              \A q \in at[i] .. at[i + 1] - 1 : t[q] \in Eol <=> q >= z
<1> DEFINE x == ls[i].text
           n == Len(x)
           a == at[i]
           b == at[i + 1]
<1>1. /\ ls[i] \in GoodLines /\ n \in Nat \ {0} /\ a \in 1 .. Len(t) /\ b \in 2 .. Len(t) + 1 /\ b = a + n
      /\ \A q \in a .. b - 1 : t[q] = x[q + 1 - a]
  <2>1. LineAt(t, ls, at, i)
    BY LineStands
  <2> QED
    BY <2>1 DEF LineAt
<1>2. PICK y \in 1 .. n : \A j \in 1 .. n : x[j] \in Eol <=> j >= y
  BY <1>1, LineIs
<1>3. a \in Nat /\ b \in Nat
  BY <1>1
<1> HIDE DEF x, n, a, b
<1>4. a + y - 1 \in a .. b - 1
  BY <1>1, <1>3
<1>5. ASSUME NEW q \in a .. b - 1
      PROVE  t[q] \in Eol <=> q >= a + y - 1
  <2>1. q + 1 - a \in 1 .. n
    BY <1>1, <1>3
  <2>2. q + 1 - a >= y <=> q >= a + y - 1
    BY <1>1, <1>3
  <2> QED
    BY <1>1, <1>2, <2>1, <2>2
<1> QED
  BY <1>4, <1>5 DEF a, b

\* Behind the header come the line's end and all empty lines.
BodyAt(ls, at, f, m, begin) ==
    /\ m \in f + 1 .. Len(ls) + 1 /\ begin = at[m]
    /\ \A i \in f + 1 .. m - 1 : Empty(ls[i])

\* The section begins there.
LEMMA BodyBegins ==
    ASSUME NEW t, NEW ls, NEW at, Written(t, ls, at), NEW f \in 1 .. Len(ls),
           NEW p \in Nat, In(at, f, p),
           NEW u, u = Until(t, p, Len(t) + 1, Eol),
           NEW begin, begin = Skip(t, u, Len(t) + 1, Eol)
    PROVE  \E m : BodyAt(ls, at, f, m, begin)
<1> DEFINE end == Len(t) + 1
<1>1. /\ t \in Seq(Chars) /\ Len(t) \in Nat /\ end \in Nat /\ Len(ls) \in Nat /\ DOMAIN t = 1 .. Len(t)
      /\ at[Len(ls) + 1] = end /\ at \in [1 .. Len(ls) + 1 -> Nat]
  BY DEF Written, Laid
<1>2. /\ at[f] \in 1 .. Len(t) /\ at[f + 1] \in 2 .. end /\ p >= at[f] /\ p < at[f + 1]
      /\ t[at[f + 1] - 1] \in Eol
  BY LineStands DEF LineAt, In
<1>3. Reached(t, p, end, Eol, u)
  BY <1>1, UntilIs
<1> HIDE DEF end
<1>4. at[f] \in Nat /\ at[f + 1] \in Nat /\ at[f + 1] <= end /\ end = Len(t) + 1 /\ 1 <= at[f]
  BY <1>1, <1>2 DEF end
<1>5. /\ u \in Nat /\ u >= p /\ \A q \in p .. u - 1 : At(t, q) \notin Eol \/ q >= end
      /\ u < end => At(t, u) \in Eol
  BY <1>3 DEF Reached
<1>6. u <= at[f + 1] - 1
  <2> SUFFICES ASSUME u > at[f + 1] - 1
               PROVE  FALSE
    BY <1>4, <1>5
  <2>1. at[f + 1] - 1 \in p .. u - 1 /\ at[f + 1] - 1 < end /\ at[f + 1] - 1 \in 1 .. Len(t)
    BY SMTT(20), <1>2, <1>4, <1>5
  <2>2. At(t, at[f + 1] - 1) \in Eol
    BY <1>1, <1>2, <2>1 DEF At
  <2> QED
    BY <1>4, <1>5, <2>1, <2>2
<1>7. Passed(t, u, end, Eol, begin)
  BY <1>1, <1>5, SkipIs DEF end
<1>8. /\ begin \in Nat /\ begin >= u /\ begin <= end
      /\ \A q \in u .. begin - 1 : At(t, q) \in Eol
      /\ begin < end => At(t, begin) \notin Eol
  <2>1. u <= end
    BY <1>4, <1>5, <1>6
  <2> QED
    BY <1>7, <2>1 DEF Passed
<1>9. \A q \in 1 .. Len(t) : At(t, q) = t[q]
  BY <1>1 DEF At
\* Everything between is a line end.
<1>10. \A q \in u .. begin - 1 : q \in 1 .. Len(t) /\ t[q] \in Eol
  <2> SUFFICES ASSUME NEW q \in u .. begin - 1
               PROVE  q \in 1 .. Len(t) /\ t[q] \in Eol
    OBVIOUS
  <2>1. q \in 1 .. Len(t)
    BY SMTT(20), <1>1, <1>2, <1>4, <1>5, <1>8
  <2> QED
    BY <1>8, <1>9, <2>1
<1>11. ASSUME NEW m \in f + 1 .. Len(ls) + 1, begin = at[m]
       PROVE  \A i \in f + 1 .. m - 1 : Empty(ls[i])
  <2> SUFFICES ASSUME NEW i \in f + 1 .. m - 1
               PROVE  Empty(ls[i])
    OBVIOUS
  <2>1. /\ i \in 1 .. Len(ls) /\ i + 1 \in 1 .. Len(ls) + 1 /\ m \in 1 .. Len(ls) + 1
        /\ i + 1 <= m /\ f + 1 <= i
        /\ f + 1 \in 1 .. Len(ls) + 1 /\ i \in 1 .. Len(ls) + 1
    BY <1>1
  <2>2. at[f + 1] <= at[i]
    <3>1. f + 1 < i => at[f + 1] < at[i]
      BY <2>1, LinesAscend
    <3> QED
      BY <1>1, <2>1, <3>1
  <2>3. at[i + 1] <= at[m]
    <3>1. i + 1 < m => at[i + 1] < at[m]
      BY <2>1, LinesAscend
    <3>2. i + 1 = m \/ i + 1 < m
      BY <1>1, <2>1
    <3>3. at[i + 1] \in Nat /\ at[m] \in Nat
      BY <1>1, <2>1
    <3> QED
      BY <3>1, <3>2, <3>3
  <2>4. LineAt(t, ls, at, i)
    BY <2>1, LineStands
  <2>5. /\ Len(ls[i].text) \in Nat /\ at[i + 1] = at[i] + Len(ls[i].text)
        /\ \A q \in at[i] .. at[i + 1] - 1 : t[q] = ls[i].text[q + 1 - at[i]]
    BY <2>4 DEF LineAt
  <2>6. ASSUME NEW j \in 1 .. Len(ls[i].text)
        PROVE  ls[i].text[j] \in Eol
    <3> DEFINE a == at[i]
               b == at[i + 1]
               n == Len(ls[i].text)
               q == a + j - 1
    <3>1. /\ a \in Nat /\ b \in Nat /\ n \in Nat /\ b = a + n /\ at[f + 1] <= a /\ b <= begin
      BY <1>1, <1>11, <2>1, <2>2, <2>3, <2>5
    <3>2. u < a
      <4> HIDE DEF a, b, n
      <4>1. u \in Nat /\ u <= at[f + 1] - 1 /\ at[f + 1] \in Nat
        BY <1>4, <1>5, <1>6
      <4> QED
        BY <3>1, <4>1
    <3>3. q \in a .. b - 1 /\ q + 1 - a = j /\ q \in u .. begin - 1
      <4>1. j \in 1 .. n
        OBVIOUS
      <4> HIDE DEF a, b, n
      <4>2. a + j - 1 \in a .. b - 1 /\ (a + j - 1) + 1 - a = j /\ a + j - 1 \in u .. begin - 1
        BY SMTT(20), <1>5, <1>8, <3>1, <3>2, <4>1
      <4> QED
        BY <4>2
    <3>4. t[q] \in Eol /\ t[q] = ls[i].text[q + 1 - a]
      BY <1>10, <2>5, <3>3
    <3> QED
      BY <3>3, <3>4
  <2> QED
    BY <2>6 DEF Empty
<1>12. CASE begin = end
  <2>1. Len(ls) + 1 \in f + 1 .. Len(ls) + 1 /\ begin = at[Len(ls) + 1]
    BY <1>1, <1>12
  <2> QED
    BY <1>11, <2>1 DEF BodyAt
<1>13. CASE begin # end
  <2>1. begin \in 1 .. Len(t) /\ t[begin] \notin Eol
    <3>1. begin \in 1 .. Len(t)
      BY <1>1, <1>2, <1>4, <1>5, <1>8, <1>13
    <3> QED
      BY <1>4, <1>8, <1>9, <1>13, <3>1
  <2>2. PICK m \in 1 .. Len(ls) : In(at, m, begin)
    BY <2>1, InSomeLine
  <2>3. u < begin
    <3> SUFFICES ASSUME u = begin
                 PROVE  FALSE
      BY <1>5, <1>8
    <3>1. u < end
      BY <1>4, <1>5, <1>6
    <3> QED
      BY <1>5, <1>8, <3>1
  <2>4. PICK z \in at[m] .. at[m + 1] - 1 :
              \A q \in at[m] .. at[m + 1] - 1 : t[q] \in Eol <=> q >= z
    BY EolsOfLine
  <2>5. /\ at[m] \in Nat /\ at[m + 1] \in Nat /\ at[m] <= begin /\ begin < at[m + 1]
        /\ m \in 1 .. Len(ls) + 1 /\ m + 1 \in 1 .. Len(ls) + 1
    BY SMTT(20), <1>1, <2>2 DEF In
  <2>6. begin = at[m]
    <3> SUFFICES ASSUME begin # at[m]
                 PROVE  FALSE
      OBVIOUS
    <3>1. begin - 1 \in at[m] .. at[m + 1] - 1 /\ begin - 1 \in u .. begin - 1
          /\ begin \in at[m] .. at[m + 1] - 1
      <4> DEFINE a == at[m]
                 b == at[m + 1]
      <4>1. a \in Nat /\ b \in Nat /\ a <= begin /\ begin < b /\ begin # a /\ begin \in Nat
        BY <1>8, <2>5
      <4> HIDE DEF a, b
      <4>2. begin - 1 \in a .. b - 1 /\ begin - 1 \in u .. begin - 1 /\ begin \in a .. b - 1
        BY SMTT(20), <1>5, <2>3, <4>1
      <4> QED
        BY <4>2 DEF a, b
    <3>2. t[begin - 1] \in Eol
      BY <1>10, <3>1
    <3>3. begin - 1 >= z /\ ~(begin >= z)
      BY <2>1, <2>4, <3>1, <3>2
    <3> QED
      BY <2>1, <2>4, <2>5, <3>3
  <2>7. m > f
    <3> SUFFICES ASSUME m <= f
                 PROVE  FALSE
      BY <1>1
    \* Then the header's line would go on behind its end.
    <3>1. m = f
      <4>1. at[f] <= begin
        BY <1>2, <1>4, <1>5, <1>8
      <4>2. f \in 1 .. Len(ls) + 1
        BY <1>1
      <4>3. f <= m
        BY <2>1, <2>2, <4>1, <4>2, LinesOrdered
      <4> QED
        BY <1>1, <4>3
    <3>2. u >= at[f]
      BY <1>2, <1>4, <1>5
    <3> QED
      BY <1>4, <1>5, <2>3, <2>6, <3>1, <3>2
  <2>8. m \in f + 1 .. Len(ls) + 1
    BY <1>1, <2>5, <2>7
  <2> QED
    BY <1>11, <2>6, <2>8 DEF BodyAt
<1> QED
  BY <1>12, <1>13

-----------------------------------------------------------------------------
(* Where the section ends.                                                 *)

\* The "[" of a header, with only blanks before it in its line.
Bracket(t, at, i, r) ==
    /\ r \in at[i] .. at[i + 1] - 1 /\ t[r] = "["
    /\ \A q \in at[i] .. r - 1 : t[q] \in Blank

\* A line has one exactly where it is a header.
LEMMA BracketIs ==
    ASSUME NEW t, NEW ls, NEW at, Written(t, ls, at), NEW i \in 1 .. Len(ls)
    PROVE  ls[i].header # <<>> <=> \E r \in Nat : Bracket(t, at, i, r)
<1> DEFINE x == ls[i].text
           n == Len(x)
           a == at[i]
           b == at[i + 1]
<1>1. /\ ls[i] \in GoodLines /\ n \in Nat \ {0} /\ a \in 1 .. Len(t) /\ b \in 2 .. Len(t) + 1 /\ b = a + n
      /\ \A q \in a .. b - 1 : t[q] = x[q + 1 - a]
  <2>1. LineAt(t, ls, at, i)
    BY LineStands
  <2> QED
    BY <2>1 DEF LineAt
<1>2. ls[i].header # <<>> <=> \E r \in 1 .. n : x[r] = "[" /\ \A q \in 1 .. r - 1 : x[q] \in Blank
  BY <1>1, GoodLinesAre DEF WellWritten
<1>3. a \in Nat /\ b \in Nat
  BY <1>1
<1> HIDE DEF x, n, a, b
<1>4. ASSUME NEW r \in 1 .. n, x[r] = "[", \A q \in 1 .. r - 1 : x[q] \in Blank
      PROVE  \E y \in Nat : Bracket(t, at, i, y)
  <2> DEFINE y == a + r - 1
  <2>1. y \in a .. b - 1 /\ y \in Nat /\ y + 1 - a = r
    BY <1>1, <1>3
  <2> HIDE DEF y
  <2>2. ASSUME NEW q \in a .. y - 1
        PROVE  t[q] \in Blank
    <3>1. q \in a .. b - 1 /\ q + 1 - a \in 1 .. r - 1
      BY <1>1, <1>3, <2>1
    <3> QED
      BY <1>1, <1>4, <3>1
  <2>3. t[y] = "["
    BY <1>1, <1>4, <2>1
  <2>4. Bracket(t, at, i, y)
    BY <2>1, <2>2, <2>3 DEF Bracket, a, b
  <2> QED
    BY <2>1, <2>4
<1>5. ASSUME NEW r \in a .. b - 1, t[r] = "[", \A q \in a .. r - 1 : t[q] \in Blank
      PROVE  \E y \in 1 .. n : x[y] = "[" /\ \A q \in 1 .. y - 1 : x[q] \in Blank
  <2>1. r + 1 - a \in 1 .. n
    BY <1>1, <1>3
  <2>2. ASSUME NEW q \in 1 .. (r + 1 - a) - 1
        PROVE  x[q] \in Blank
    <3>1. a + q - 1 \in a .. r - 1 /\ a + q - 1 \in a .. b - 1 /\ (a + q - 1) + 1 - a = q
      BY <1>1, <1>3
    <3> QED
      BY <1>1, <1>5, <3>1
  <2> QED
    BY <1>1, <1>5, <2>1, <2>2
<1>6. ASSUME ls[i].header # <<>>
      PROVE  \E r \in Nat : Bracket(t, at, i, r)
  <2>1. PICK r \in 1 .. n : x[r] = "[" /\ \A q \in 1 .. r - 1 : x[q] \in Blank
    BY <1>2, <1>6
  <2> QED
    BY <1>4, <2>1
<1>7. ASSUME NEW r \in Nat, Bracket(t, at, i, r)
      PROVE  ls[i].header # <<>>
  <2>1. r \in a .. b - 1 /\ t[r] = "[" /\ \A q \in a .. r - 1 : t[q] \in Blank
    BY <1>7 DEF Bracket, a, b
  <2> QED
    BY <1>2, <1>5, <2>1
<1> QED
  BY <1>6, <1>7

\* The section ends in line n, before its "[".
EndAt(t, at, n, end) ==
    /\ end \in Nat /\ at[n] <= end /\ end <= Len(t) + 1
    /\ \A q \in at[n] .. end - 1 : t[q] \in Blank

\* SectionEnd stops there: at the next header, whatever its name.
LEMMA BodyEnds ==
    ASSUME NEW t, NEW ls, NEW at, Written(t, ls, at),
           NEW f \in 1 .. Len(ls), NEW n, SectionTo(ls, f, n),
           NEW m \in f + 1 .. n, NEW end, end = SectionEnd(t, at[m])
    PROVE  EndAt(t, at, n, end)
<1> DEFINE ends == {r \in at[m] .. Len(t) :
                      /\ t[r] = "["
                      /\ \A q \in at[m] .. r - 1 :
                            t[q] \in Space \/ \E u \in q + 1 .. r - 1 : t[u] \in Eol}
           L == Len(ls)
<1>1. /\ t \in Seq(Chars) /\ Len(t) \in Nat /\ L \in Nat
      /\ at[L + 1] = Len(t) + 1 /\ at \in [1 .. L + 1 -> Nat]
  BY DEF Written, Laid
<1>2. /\ n \in f + 1 .. L + 1 /\ (n <= L => ls[n].header # <<>>)
      /\ \A i \in f + 1 .. n - 1 : ls[i].header = <<>>
  BY DEF SectionTo
<1>3. /\ m \in 1 .. L + 1 /\ n \in 1 .. L + 1 /\ n \in Nat /\ m \in Nat /\ m <= n /\ m >= f + 1
      /\ at[m] \in Nat /\ at[n] \in Nat
  <2>1. m \in 1 .. L + 1 /\ n \in 1 .. L + 1 /\ n \in Nat /\ m \in Nat /\ m <= n /\ m >= f + 1
    BY <1>1, <1>2
  <2> QED
    BY <1>1, <2>1
<1>4. end = IF ends = {} THEN Len(t) + 1 ELSE Min(ends)
  BY DEF SectionEnd
\* The "[" of line n is one the search would stop at.
<1>5. ASSUME n <= L
      PROVE  \E r \in ends : r < at[n + 1]
  <2>1. n \in 1 .. L /\ n + 1 \in 1 .. L + 1
    BY <1>1, <1>3, <1>5
  <2>2. PICK r \in Nat : Bracket(t, at, n, r)
    BY <1>2, <1>5, <2>1, BracketIs
  <2>3. r \in at[n] .. at[n + 1] - 1 /\ t[r] = "[" /\ \A q \in at[n] .. r - 1 : t[q] \in Blank
    BY <2>2 DEF Bracket
  <2>4. at[m] <= at[n]
    <3>1. m < n => at[m] < at[n]
      BY <1>3, LinesAscend
    <3>2. m = n \/ m < n
      BY <1>3
    <3> QED
      BY <1>3, <3>1, <3>2
  <2>5. at[n + 1] \in 2 .. Len(t) + 1 /\ at[n + 1] \in Nat
    <3>1. LineAt(t, ls, at, n)
      BY <2>1, LineStands
    <3> QED
      BY <3>1 DEF LineAt
  <2>6. r \in at[m] .. Len(t)
    <3> DEFINE a == at[m]
               b == at[n]
               c == at[n + 1]
    <3>1. a \in Nat /\ b \in Nat /\ c \in Nat /\ a <= b /\ c <= Len(t) + 1 /\ r \in b .. c - 1
      BY <1>1, <1>3, <2>3, <2>4, <2>5
    <3> HIDE DEF a, b, c
    <3>2. r \in a .. Len(t)
      BY <1>1, <3>1
    <3> QED
      BY <3>2 DEF a
  <2>7. ASSUME NEW q \in at[m] .. r - 1
        PROVE  t[q] \in Space \/ \E u \in q + 1 .. r - 1 : t[u] \in Eol
    <3>1. q \in Nat
      BY <1>3
    <3>2. CASE q >= at[n]
      <4>1. q \in at[n] .. r - 1
        BY <1>3, <2>2, <3>1, <3>2
      <4> QED
        BY <2>3, <4>1 DEF Space
    <3>3. CASE q < at[n]
      <4>1. q \in 1 .. Len(t)
        <5>1. at[m] >= 1
          <6>1. 1 < m /\ 1 \in 1 .. L + 1
            BY <1>1, <1>3
          <6>2. at[1] < at[m] /\ at[1] = 1
            BY <1>3, <6>1, LinesAscend DEF Written, Laid
          <6> QED
            BY <1>3, <6>2
        <5> QED
          BY SMTT(20), <1>1, <1>3, <2>3, <2>5, <3>1, <3>3, <5>1
      <4>2. PICK i \in 1 .. L : In(at, i, q)
        BY <4>1, InSomeLine
      <4>3. i < n
        BY <1>3, <3>1, <3>3, <4>2, LinesOrdered
      <4> DEFINE z == at[i + 1] - 1
      <4>4. t[z] \in Eol /\ at[i + 1] \in Nat
        <5>1. LineAt(t, ls, at, i)
          BY LineStands
        <5> QED
          BY <5>1 DEF LineAt
      <4>5. at[i + 1] <= at[n]
        <5>1. i + 1 \in 1 .. L + 1
          BY <1>1
        <5>2. i + 1 < n => at[i + 1] < at[n]
          BY <1>3, <5>1, LinesAscend
        <5>3. i + 1 = n \/ i + 1 < n
          BY <1>3, <4>3
        <5> QED
          BY <1>3, <4>4, <5>2, <5>3
      <4>6. q <= z
        BY <3>1, <4>2, <4>4 DEF In
      <4>7. CASE q = z
        BY <4>4, <4>7 DEF Space
      <4>8. CASE q # z
        <5>1. z \in q + 1 .. r - 1
          <6> DEFINE b == at[n]
                     c == at[i + 1]
          <6>1. b \in Nat /\ c \in Nat /\ r >= b /\ c <= b /\ q <= c - 1 /\ q # c - 1
            BY <1>3, <2>3, <4>4, <4>5, <4>6, <4>8
          <6> HIDE DEF b, c
          <6>2. c - 1 \in q + 1 .. r - 1
            BY <2>2, <3>1, <6>1
          <6> QED
            BY <6>2 DEF c
        <5> QED
          BY <4>4, <5>1
      <4> QED
        BY <4>7, <4>8
    <3> QED
      BY <1>3, <3>1, <3>2, <3>3
  <2>8. r \in ends
    BY <2>3, <2>6, <2>7
  <2>9. r < at[n + 1]
    BY <2>2, <2>3, <2>5
  <2> QED
    BY <2>8, <2>9
<1>6. CASE ends = {}
  <2>1. n = L + 1
    <3>1. ~(n <= L)
      <4> HIDE DEF ends
      <4> QED
        BY <1>5, <1>6
    <3> HIDE DEF L, ends
    <3> QED
      BY <1>1, <1>3, <3>1
  <2>2. end = Len(t) + 1 /\ at[n] = Len(t) + 1
    BY <1>1, <1>4, <1>6, <2>1
  <2> QED
    BY <1>1, <2>2 DEF EndAt
<1>7. CASE ends # {}
  <2>1. ends \subseteq Nat
    BY <1>1, <1>3
  <2>2. end \in ends /\ \A r \in ends : end <= r
    <3> HIDE DEF ends
    <3> QED
      BY <1>4, <1>7, <2>1, MinIs
  <2>3. /\ end \in at[m] .. Len(t) /\ t[end] = "["
        /\ \A q \in at[m] .. end - 1 : t[q] \in Space \/ \E u \in q + 1 .. end - 1 : t[u] \in Eol
    BY <2>2
  <2>4. end \in 1 .. Len(t) /\ end \in Nat /\ end >= at[m]
    <3>1. 1 < m /\ 1 \in 1 .. L + 1
      BY <1>1, <1>3
    <3>2. at[1] < at[m] /\ at[1] = 1
      BY <1>3, <3>1, LinesAscend DEF Written, Laid
    <3> QED
      BY <1>1, <1>3, <2>3, <3>2
  <2> HIDE DEF ends
  <2>5. PICK i \in 1 .. L : In(at, i, end)
    BY <2>4, InSomeLine
  <2>6. m <= i
    BY <1>3, <2>4, <2>5, LinesOrdered
  <2>7. /\ at[i] \in Nat /\ at[i + 1] \in Nat /\ at[i] <= end /\ end < at[i + 1]
        /\ i \in 1 .. L + 1 /\ i + 1 \in 1 .. L + 1
    <3>1. i \in 1 .. L + 1 /\ i + 1 \in 1 .. L + 1
      BY <1>1
    <3> QED
      BY <1>1, <2>5, <3>1 DEF In
  <2>8. at[m] <= at[i]
    <3>1. m < i => at[m] < at[i]
      BY <1>3, <2>7, LinesAscend
    <3>2. m = i \/ m < i
      BY <1>3, <2>6
    <3> QED
      BY <1>3, <2>7, <3>1, <3>2
  \* Before it in its line there are only blanks.
  <2>9. \A q \in at[i] .. end - 1 : t[q] \in Blank
    <3> SUFFICES ASSUME NEW q \in at[i] .. end - 1
                 PROVE  t[q] \in Blank
      OBVIOUS
    <3>1. PICK z \in at[i] .. at[i + 1] - 1 :
             \A x \in at[i] .. at[i + 1] - 1 : t[x] \in Eol <=> x >= z
      BY EolsOfLine
    <3>2. end \in at[i] .. at[i + 1] - 1
      BY <2>4, <2>7
    <3>3. end < z
      <4>1. t[end] \notin Eol
        BY <2>3 DEF Eol
      <4> QED
        BY SMTT(20), <2>4, <2>7, <3>1, <3>2, <4>1
    <3>4. ASSUME NEW x \in at[i] .. end - 1
          PROVE  t[x] \notin Eol
      <4>1. x \in at[i] .. at[i + 1] - 1 /\ ~(x >= z)
        BY SMTT(20), <2>4, <2>7, <3>1, <3>3
      <4> QED
        BY <3>1, <4>1
    <3>5. q \in at[m] .. end - 1
      <4> DEFINE a == at[m]
                 b == at[i]
      <4>1. a \in Nat /\ b \in Nat /\ a <= b /\ q \in b .. end - 1
        BY <1>3, <2>7, <2>8
      <4> HIDE DEF a, b
      <4>2. q \in a .. end - 1
        BY <2>4, <4>1
      <4> QED
        BY <4>2 DEF a
    <3>6. ~\E u \in q + 1 .. end - 1 : t[u] \in Eol
      <4> SUFFICES ASSUME NEW u \in q + 1 .. end - 1
                   PROVE  u \in at[i] .. end - 1
        BY <3>4
      <4> QED
        BY SMTT(20), <2>4, <2>7
    <3> QED
      BY <2>3, <3>4, <3>5, <3>6 DEF Space
  <2>10. ls[i].header # <<>>
    <3>1. Bracket(t, at, i, end)
      BY <2>3, <2>4, <2>7, <2>9 DEF Bracket
    <3> QED
      BY <2>4, <3>1, BracketIs
  <2>11. n <= i
    <3> SUFFICES ASSUME i < n
                 PROVE  FALSE
      BY <1>3
    <3>1. i \in f + 1 .. n - 1
      BY <1>3, <2>6
    <3> QED
      BY <1>2, <2>10, <3>1
  <2>12. i = n
    <3> SUFFICES ASSUME n < i
                 PROVE  FALSE
      BY <1>3, <2>11
    <3>1. n <= L /\ n + 1 \in 1 .. L + 1
      BY <1>1, <1>3
    <3>2. PICK r \in ends : r < at[n + 1]
      BY <1>5, <3>1
    <3>3. at[n + 1] <= at[i]
      <4>1. n + 1 < i => at[n + 1] < at[i]
        BY <2>7, <3>1, LinesAscend
      <4>2. n + 1 = i \/ n + 1 < i
        BY <1>3
      <4>3. at[n + 1] \in Nat
        BY <1>1, <3>1
      <4> QED
        BY <2>7, <4>1, <4>2, <4>3
    <3>4. end <= r /\ r \in Nat
      BY <2>1, <2>2, <3>2
    <3>5. at[n + 1] \in Nat
      BY <1>1, <3>1
    <3> QED
      BY <2>4, <2>7, <3>2, <3>3, <3>4, <3>5
  <2> QED
    BY <1>1, <2>4, <2>7, <2>9, <2>12 DEF EndAt
<1> QED
  BY <1>6, <1>7

-----------------------------------------------------------------------------
(* Keys and items of a line.                                               *)

\* x is the line of t from a up to and without z.
LineOf(t, x, a, z) ==
    /\ DOMAIN t = 1 .. Len(t) /\ Len(t) \in Nat /\ DOMAIN x = 1 .. Len(x) /\ Len(x) = z - a
    /\ a \in Nat /\ z \in Nat /\ 1 <= a /\ a < z /\ z <= Len(t) + 1
    /\ \A q \in a .. z - 1 : At(t, q) = At(x, q + 1 - a)
    /\ At(t, z - 1) \in Eol

\* Every line of a written text is one.
LEMMA LineOfIs ==
    ASSUME NEW t, NEW ls, NEW at, Written(t, ls, at), NEW i \in 1 .. Len(ls)
    PROVE  LineOf(t, ls[i].text, at[i], at[i + 1])
<1> DEFINE x == ls[i].text
           a == at[i]
           z == at[i + 1]
<1>1. LineAt(t, ls, at, i)
  BY LineStands
<1>2. /\ x \in Seq(Chars) /\ Len(x) \in Nat \ {0} /\ a \in 1 .. Len(t) /\ z \in 2 .. Len(t) + 1
      /\ z = a + Len(x) /\ \A q \in a .. z - 1 : t[q] = x[q + 1 - a]
      /\ t[z - 1] \in Eol
  BY <1>1 DEF LineAt
<1>3. t \in Seq(Chars) /\ Len(t) \in Nat /\ DOMAIN t = 1 .. Len(t) /\ DOMAIN x = 1 .. Len(x)
  BY <1>2 DEF Written
<1> HIDE DEF x, a, z
<1>4. a \in Nat /\ z \in Nat /\ 1 <= a /\ a < z /\ z <= Len(t) + 1 /\ Len(x) = z - a
  BY <1>2, <1>3
<1>5. ASSUME NEW q \in a .. z - 1
      PROVE  At(t, q) = At(x, q + 1 - a)
  <2>1. q \in 1 .. Len(t) /\ q + 1 - a \in 1 .. Len(x)
    BY <1>3, <1>4
  <2> QED
    BY <1>2, <1>3, <2>1 DEF At
<1>6. z - 1 \in 1 .. Len(t)
  BY <1>3, <1>4
<1>7. At(t, z - 1) \in Eol
  BY <1>2, <1>3, <1>6 DEF At
<1> QED
  BY <1>3, <1>4, <1>5, <1>7 DEF LineOf, x, a, z

\* The "=" behind a place of a line is in the line.
LEMMA EqualsInLine ==
    ASSUME NEW t, NEW x, NEW a, NEW z, LineOf(t, x, a, z),
           NEW p \in a .. z - 1, NEW end \in Nat, z <= end, NEW e \in Nat
    PROVE  EqualsAt(t, p, end, e) <=>
             e \in a .. z - 1 /\ EqualsAt(x, p + 1 - a, Len(x) + 1, e + 1 - a)
<1>1. /\ Len(t) \in Nat /\ Len(x) = z - a
      /\ a \in Nat /\ z \in Nat /\ 1 <= a /\ a < z /\ z <= Len(t) + 1
      /\ \A q \in a .. z - 1 : At(t, q) = At(x, q + 1 - a)
      /\ At(t, z - 1) \in Eol
  BY DEF LineOf
<1>2. ASSUME EqualsAt(t, p, end, e)
      PROVE  e \in a .. z - 1 /\ EqualsAt(x, p + 1 - a, Len(x) + 1, e + 1 - a)
  <2>1. e \in p .. end - 1 /\ At(t, e) = "=" /\ \A u \in p .. e - 1 : At(t, u) \in Blank
    BY <1>2 DEF EqualsAt
  <2>2. At(t, z - 1) \notin Blank /\ At(t, z - 1) # "="
    BY <1>1 DEF Eol, Blank
  <2>3. e < z
    <3> SUFFICES ASSUME e >= z
                 PROVE  FALSE
      BY <1>1
    <3>1. z - 1 \in p .. e - 1
      BY <1>1, <2>1
    <3> QED
      BY <2>1, <2>2, <3>1
  <2>4. e \in a .. z - 1 /\ e + 1 - a \in p + 1 - a .. Len(x) + 1 - 1
    BY <1>1, <2>1, <2>3
  <2>5. At(x, e + 1 - a) = "="
    BY <1>1, <2>1, <2>4
  <2>6. ASSUME NEW u \in p + 1 - a .. (e + 1 - a) - 1
        PROVE  At(x, u) \in Blank
    <3>1. a + u - 1 \in p .. e - 1 /\ a + u - 1 \in a .. z - 1 /\ (a + u - 1) + 1 - a = u
      BY <1>1, <2>4
    <3>2. At(t, a + u - 1) = At(x, u)
      BY <1>1, <3>1
    <3> QED
      BY <2>1, <3>1, <3>2
  <2> QED
    BY <2>4, <2>5, <2>6 DEF EqualsAt
<1>3. ASSUME e \in a .. z - 1, EqualsAt(x, p + 1 - a, Len(x) + 1, e + 1 - a)
      PROVE  EqualsAt(t, p, end, e)
  <2>1. /\ e + 1 - a \in p + 1 - a .. Len(x) + 1 - 1 /\ At(x, e + 1 - a) = "="
        /\ \A u \in p + 1 - a .. (e + 1 - a) - 1 : At(x, u) \in Blank
    BY <1>3 DEF EqualsAt
  <2>2. e \in p .. end - 1 /\ At(t, e) = "="
    BY <1>1, <1>3, <2>1
  <2>3. ASSUME NEW u \in p .. e - 1
        PROVE  At(t, u) \in Blank
    <3>1. u \in a .. z - 1 /\ u + 1 - a \in p + 1 - a .. (e + 1 - a) - 1
      BY <1>1, <1>3
    <3> QED
      BY <1>1, <2>1, <3>1
  <2> QED
    BY <2>2, <2>3 DEF EqualsAt
<1> QED
  BY <1>2, <1>3

\* A line has a key in the text exactly where it has one by itself.
LEMMA KeyMarkInLine ==
    ASSUME NEW t, NEW ls, NEW at, Written(t, ls, at), NEW i \in 1 .. Len(ls),
           NEW k \in Keys, NEW p \in Nat, In(at, i, p),
           NEW end \in Nat, at[i + 1] <= end
    PROVE  KeyMark(t, k, end, p) <=>
             KeyMark(ls[i].text, k, Len(ls[i].text) + 1, p + 1 - at[i])
<1> DEFINE x == ls[i].text
           a == at[i]
           z == at[i + 1]
           lk == ToLower(k)
           n == Len(k)
           r == p + 1 - a
<1>1. LineOf(t, x, a, z) /\ LowerLine(t, x, a, z)
  BY LineOfIs, LowerLineIs
<1>2. Wordlike(lk) /\ Len(lk) = n /\ n \in Nat \ {0}
  BY KeyWordlike DEF Wordlike
<1>3. Mark(ToLower(t), lk, p) <=> Mark(ToLower(x), lk, r)
  BY <1>2, MarkInLine
<1>4. /\ Len(t) \in Nat /\ Len(x) = z - a
      /\ a \in Nat /\ z \in Nat /\ 1 <= a /\ a < z /\ z <= Len(t) + 1
  BY <1>1 DEF LineOf
<1>5. p \in a .. z - 1 /\ r = p + 1 - a /\ z <= end
  BY <1>4 DEF In
<1>6. Mark(ToLower(t), lk, p) => p + n < z
  <2>1. SameOccurs(t, x, a, z, lk, p)
    BY <1>1, <1>2, <1>5, OccursInLine
  <2> QED
    BY <1>2, <2>1 DEF SameOccurs, Mark
<1> HIDE DEF x, a, z, lk, n, r
<1>7. ASSUME p + n < z
      PROVE  (\E e \in 1 .. end - 1 : EqualsAt(t, p + n, end, e)) <=>
               \E e \in 1 .. Len(x) + 1 - 1 : EqualsAt(x, r + n, Len(x) + 1, e)
  <2>1. p + n \in a .. z - 1 /\ (p + n) + 1 - a = r + n
    BY <1>2, <1>4, <1>5, <1>7
  <2>2. \A e \in Nat : EqualsAt(t, p + n, end, e) <=>
             e \in a .. z - 1 /\ EqualsAt(x, r + n, Len(x) + 1, e + 1 - a)
    BY <1>1, <1>5, <2>1, EqualsInLine
  <2>3. ASSUME NEW e \in 1 .. end - 1, EqualsAt(t, p + n, end, e)
        PROVE  \E y \in 1 .. Len(x) + 1 - 1 : EqualsAt(x, r + n, Len(x) + 1, y)
    <3>1. e \in a .. z - 1 /\ EqualsAt(x, r + n, Len(x) + 1, e + 1 - a)
      BY <2>2, <2>3
    <3>2. e + 1 - a \in 1 .. Len(x) + 1 - 1
      BY <1>4, <3>1
    <3> QED
      BY <3>1, <3>2
  <2>4. ASSUME NEW e \in 1 .. Len(x) + 1 - 1, EqualsAt(x, r + n, Len(x) + 1, e)
        PROVE  \E y \in 1 .. end - 1 : EqualsAt(t, p + n, end, y)
    <3>1. /\ a + e - 1 \in a .. z - 1 /\ (a + e - 1) + 1 - a = e
          /\ a + e - 1 \in 1 .. end - 1 /\ a + e - 1 \in Nat
      BY <1>4, <1>5
    <3>2. EqualsAt(t, p + n, end, a + e - 1)
      BY <2>2, <2>4, <3>1
    <3> QED
      BY <3>1, <3>2
  <2> QED
    BY <2>3, <2>4
<1>8. KeyMark(t, k, end, p) <=>
        Mark(ToLower(t), lk, p) /\ \E e \in 1 .. end - 1 : EqualsAt(t, p + n, end, e)
  BY DEF KeyMark, lk, n
<1>9. KeyMark(x, k, Len(x) + 1, r) <=>
        Mark(ToLower(x), lk, r) /\ \E e \in 1 .. Len(x) + 1 - 1 : EqualsAt(x, r + n, Len(x) + 1, e)
  BY DEF KeyMark, lk, n
<1>10. KeyMark(t, k, end, p) <=> KeyMark(x, k, Len(x) + 1, r)
  BY <1>3, <1>6, <1>7, <1>8, <1>9
<1> QED
  BY <1>10 DEF x, r, a

\* Where a key is, there is no space.
LEMMA KeyIsNoSpace ==
    ASSUME NEW t \in Seq(Chars), NEW k \in Keys, NEW p \in Nat, Occurs(ToLower(t), ToLower(k), p)
    PROVE  p \in 1 .. Len(t) /\ t[p] \notin Space
<1> DEFINE lt == ToLower(t)
           lk == ToLower(k)
<1>1. Len(lk) \in Nat \ {0} /\ DOMAIN lk = 1 .. Len(lk) /\ lk[1] \notin Space
  BY KeyWordlike, LinesAssumption DEF Wordlike
<1>2. Len(lt) = Len(t) /\ Len(t) \in Nat /\ DOMAIN lt = 1 .. Len(lt) /\ DOMAIN t = 1 .. Len(t)
  BY LowerIs DEF ToLower
<1> HIDE DEF lt, lk
<1>3. p \in 1 .. Len(lt)
  BY <1>1, <1>2, OccursIn DEF lt, lk
<1>4. lt[p] = lk[1]
  <2>1. 1 \in DOMAIN lk /\ \A i \in DOMAIN lk : lt[p + i - 1] = lk[i]
    BY <1>1 DEF Occurs, lt, lk
  <2>2. lt[p + 1 - 1] = lk[1]
    BY <2>1
  <2>3. p + 1 - 1 = p
    OBVIOUS
  <2> QED
    BY <2>2, <2>3
<1>5. t[p] \in Space => lt[p] = t[p]
  BY <1>2, <1>3, LowerAt DEF At, lt
<1> QED
  BY <1>1, <1>2, <1>3, <1>4, <1>5

\* The section of a header in line f, found from line m to a place in line n.
Section(t, ls, at, f, m, n, end) ==
    /\ Written(t, ls, at) /\ f \in 1 .. Len(ls) /\ SectionTo(ls, f, n) /\ m \in f + 1 .. n
    /\ end = SectionEnd(t, at[m]) /\ EndAt(t, at, n, end)

\* The lines' places, from m on.
LEMMA SectionIs ==
    ASSUME NEW t, NEW ls, NEW at, NEW f, NEW m, NEW n, NEW end, Section(t, ls, at, f, m, n, end)
    PROVE  /\ f \in Nat /\ m \in Nat /\ n \in Nat /\ Len(ls) \in Nat /\ m >= f + 1 /\ m <= n /\ f >= 1
           /\ m \in 1 .. Len(ls) + 1 /\ n \in 1 .. Len(ls) + 1 /\ end \in Nat
           /\ at[m] \in Nat /\ at[n] \in Nat /\ at[n] <= end /\ end <= Len(t) + 1 /\ at[m] > 1
           /\ Len(t) \in Nat /\ t \in Seq(Chars) /\ at[m] <= at[n]
           /\ \A i \in m .. n - 1 :
                /\ i \in 1 .. Len(ls) /\ ls[i] \in GoodLines /\ ls[i].header = <<>>
                /\ at[i] \in Nat /\ at[i + 1] \in Nat /\ at[i + 1] <= at[n] /\ at[m] <= at[i]
<1>1. /\ Written(t, ls, at) /\ f \in 1 .. Len(ls) /\ m \in f + 1 .. n
      /\ n \in f + 1 .. Len(ls) + 1 /\ \A i \in f + 1 .. n - 1 : ls[i].header = <<>>
      /\ end \in Nat /\ at[n] <= end /\ end <= Len(t) + 1
  BY DEF Section, SectionTo, EndAt
<1>2. /\ t \in Seq(Chars) /\ Len(t) \in Nat /\ Len(ls) \in Nat /\ at \in [1 .. Len(ls) + 1 -> Nat]
      /\ at[1] = 1 /\ ls \in Seq(GoodLines)
  BY <1>1 DEF Written, Laid
<1>3. /\ f \in Nat /\ m \in Nat /\ n \in Nat /\ m >= f + 1 /\ m <= n /\ f >= 1
      /\ m \in 1 .. Len(ls) + 1 /\ n \in 1 .. Len(ls) + 1
  BY <1>1, <1>2
<1>4. at[m] \in Nat /\ at[n] \in Nat
  BY <1>2, <1>3
<1>5. at[m] > 1
  <2>1. 1 < m /\ 1 \in 1 .. Len(ls) + 1
    BY <1>2, <1>3
  <2>2. at[1] < at[m]
    BY <1>1, <1>3, <2>1, LinesAscend
  <2> QED
    BY <1>2, <1>4, <2>2
<1>6. at[m] <= at[n]
  <2>1. m < n => at[m] < at[n]
    BY <1>1, <1>3, LinesAscend
  <2>2. m = n \/ m < n
    BY <1>3
  <2> QED
    BY <1>4, <2>1, <2>2
<1>7. ASSUME NEW i \in m .. n - 1
      PROVE  /\ i \in 1 .. Len(ls) /\ ls[i] \in GoodLines /\ ls[i].header = <<>>
             /\ at[i] \in Nat /\ at[i + 1] \in Nat /\ at[i + 1] <= at[n] /\ at[m] <= at[i]
  <2>1. /\ i \in 1 .. Len(ls) /\ i \in 1 .. Len(ls) + 1 /\ i + 1 \in 1 .. Len(ls) + 1
        /\ i \in f + 1 .. n - 1
    BY <1>2, <1>3
  <2>2. at[i] \in Nat /\ at[i + 1] \in Nat
    BY <1>2, <2>1
  <2>3. at[i + 1] <= at[n]
    <3>1. i + 1 < n => at[i + 1] < at[n]
      BY <1>1, <1>3, <2>1, LinesAscend
    <3>2. i + 1 = n \/ i + 1 < n
      BY <1>3
    <3> QED
      BY <1>4, <2>2, <3>1, <3>2
  <2>4. at[m] <= at[i]
    <3>1. m < i => at[m] < at[i]
      BY <1>1, <1>3, <2>1, LinesAscend
    <3>2. m = i \/ m < i
      BY <1>3
    <3> QED
      BY <1>4, <2>2, <3>1, <3>2
  <2> QED
    BY <1>1, <1>2, <2>1, <2>2, <2>3, <2>4
<1> QED
  BY <1>1, <1>2, <1>3, <1>4, <1>5, <1>6, <1>7

\* A key found in the section is that of an item of it.
LEMMA KeyInSection ==
    ASSUME NEW t, NEW ls, NEW at, NEW f, NEW m, NEW n, NEW end, Section(t, ls, at, f, m, n, end),
           NEW k \in Keys, NEW q \in Nat, q >= at[m], KeyMark(t, k, end, q)
    PROVE  \E i \in m .. n - 1 : In(at, i, q) /\ ls[i].key = k
<1>1. /\ f \in Nat /\ m \in Nat /\ n \in Nat /\ Len(ls) \in Nat /\ m >= f + 1 /\ m <= n
      /\ m \in 1 .. Len(ls) + 1 /\ n \in 1 .. Len(ls) + 1 /\ end \in Nat
      /\ at[m] \in Nat /\ at[n] \in Nat /\ at[n] <= end /\ end <= Len(t) + 1
      /\ Len(t) \in Nat /\ t \in Seq(Chars)
  BY SectionIs
<1>2. Written(t, ls, at) /\ \A x \in at[n] .. end - 1 : t[x] \in Blank
  BY DEF Section, EndAt
<1>3. Occurs(ToLower(t), ToLower(k), q)
  BY DEF KeyMark, Mark
<1>4. q \in 1 .. Len(t) /\ t[q] \notin Space
  BY <1>1, <1>3, KeyIsNoSpace
<1>5. PICK i \in 1 .. Len(ls) : In(at, i, q)
  BY <1>2, <1>4, InSomeLine
<1>6. m <= i
  BY <1>1, <1>2, <1>5, LinesOrdered
<1>7. q < end
  <2>1. PICK e \in 1 .. end - 1 : EqualsAt(t, q + Len(k), end, e)
    BY DEF KeyMark
  <2>2. Len(k) \in Nat
    BY KeyWordlike DEF Wordlike
  <2>3. e \in q + Len(k) .. end - 1
    BY <2>1 DEF EqualsAt
  <2> QED
    BY <1>1, <2>2, <2>3
<1>8. q < at[n]
  <2> SUFFICES ASSUME q >= at[n]
               PROVE  FALSE
    BY <1>1
  <2>1. q \in at[n] .. end - 1
    BY <1>1, <1>7
  <2> QED
    BY <1>2, <1>4, <2>1 DEF Space
<1>9. i < n
  BY <1>1, <1>2, <1>5, <1>8, LinesOrdered
<1>10. i \in m .. n - 1
  BY <1>1, <1>6, <1>9
<1>11. ls[i] \in GoodLines /\ ls[i].header = <<>> /\ at[i + 1] <= end /\ at[i] \in Nat /\ at[i + 1] \in Nat
  <2>1. ls[i] \in GoodLines /\ ls[i].header = <<>> /\ at[i + 1] \in Nat /\ at[i] \in Nat /\ at[i + 1] <= at[n]
    BY <1>10, SectionIs
  <2> QED
    BY <1>1, <2>1
<1> DEFINE x == ls[i].text
           r == q + 1 - at[i]
<1>12. KeyMark(x, k, Len(x) + 1, r)
  BY <1>1, <1>2, <1>5, <1>11, KeyMarkInLine
<1>13. r \in 1 .. Len(x)
  <2>1. LineOf(t, x, at[i], at[i + 1])
    BY <1>2, LineOfIs
  <2>2. Len(x) = at[i + 1] - at[i]
    BY <2>1 DEF LineOf
  <2>3. at[i] <= q /\ q < at[i + 1]
    BY <1>5 DEF In
  <2> QED
    BY <1>11, <2>2, <2>3
<1>14. ls[i].key = k
  <2>1. WellWritten(ls[i])
    BY <1>11, GoodLinesAre
  <2>2. ls[i].key # k => \A p \in 1 .. Len(x) : ~KeyMark(x, k, Len(x) + 1, p)
    BY <1>11, <2>1 DEF WellWritten
  <2> QED
    BY <1>12, <1>13, <2>2
<1> QED
  BY <1>5, <1>10, <1>14

\* The item in line i of the text: blanks up to the key at p, the "=" at e,
\* blanks up to the value at b, the line's end at z.
ItemStands(t, k, value, a, c, end, p, e, b, z) ==
    /\ p \in a .. c - 1 /\ e \in a .. c - 1 /\ b \in a .. c - 1 /\ z \in a .. c - 1
    /\ \A q \in a .. p - 1 : t[q] \in Blank
    /\ KeyMark(t, k, end, p) /\ EqualsAt(t, p + Len(k), end, e)
    /\ e < b /\ \A q \in e + 1 .. b - 1 : t[q] \in Blank
    /\ t[b] \notin Blank /\ b <= z /\ \A q \in b .. z : t[q] \in Eol <=> q = z
    /\ value = SubSeq(t, b, z - 1)

\* There is such an item.
ItemThere(t, k, value, a, c, end) ==
    \E p, e, b, z \in Nat : ItemStands(t, k, value, a, c, end, p, e, b, z)

\* The line of an item is one, and its value fits the buffer.
LEMMA ItemIs ==
    ASSUME NEW t, NEW ls, NEW at, Written(t, ls, at), NEW i \in 1 .. Len(ls),
           NEW k \in Keys, ls[i].header = <<>>, ls[i].key = k,
           NEW end \in Nat, at[i + 1] <= end
    PROVE  /\ ItemThere(t, k, ls[i].value, at[i], at[i + 1], end)
           /\ Cut(ls[i].value, BufSize) = ls[i].value
<1> DEFINE x == ls[i].text
           a == at[i]
           c == at[i + 1]
           n == Len(k)
           y == Len(x)
           v == ls[i].value
<1>1. /\ x \in Seq(Chars) /\ y \in Nat \ {0} /\ ls[i] \in GoodLines
      /\ \A q \in a .. c - 1 : t[q] = x[q + 1 - a]
  <2>1. LineAt(t, ls, at, i)
    BY LineStands
  <2> QED
    BY <2>1 DEF LineAt
<1>2. LineOf(t, x, a, c)
  BY LineOfIs
<1>3. /\ Len(t) \in Nat /\ y = c - a
      /\ a \in Nat /\ c \in Nat /\ 1 <= a /\ a < c /\ c <= Len(t) + 1
  BY <1>2 DEF LineOf
<1>4. IsItem(x, k, v) /\ Cut(v, BufSize) = v
  <2>1. WellWritten(ls[i])
    BY <1>1, GoodLinesAre
  <2> QED
    BY <2>1 DEF WellWritten
<1>5. PICK p \in 1 .. y, e \in 1 .. y, b \in 1 .. y, z \in 1 .. y :
       /\ \A q \in 1 .. p - 1 : x[q] \in Blank
       /\ Mark(ToLower(x), ToLower(k), p) /\ EqualsAt(x, p + n, y + 1, e)
       /\ e < b /\ \A q \in e + 1 .. b - 1 : x[q] \in Blank
       /\ x[b] \notin Blank /\ b <= z /\ \A q \in b .. z : x[q] \in Eol <=> q = z
       /\ v = SubSeq(x, b, z - 1)
  BY <1>4 DEF IsItem
<1> DEFINE d == a - 1
<1>6. n \in Nat \ {0} /\ t \in Seq(Chars)
  BY KeyWordlike DEF Wordlike, Written
<1>7. KeyMark(x, k, y + 1, p)
  <2>1. e \in 1 .. (y + 1) - 1
    BY <1>1
  <2> QED
    BY <1>5, <2>1 DEF KeyMark
<1>8. c <= end /\ d = a - 1
  OBVIOUS
<1> HIDE DEF x, a, c, n, y, v, d
<1>9. d \in Nat /\ a = d + 1 /\ c = d + y + 1 /\ c <= end
  BY <1>3, <1>8
<1>10. b <= z /\ e < b
  BY <1>5
<1>11. EqualsAt(x, p + n, y + 1, e)
  BY <1>5
<1>12. y \in Nat /\ d \in Nat /\ a = d + 1 /\ c = d + y + 1
  BY <1>1, <1>9
<1>13. ASSUME NEW q \in 1 .. y
      PROVE  d + q \in a .. c - 1 /\ (d + q) + 1 - a = q /\ d + q \in Nat
  BY <1>12
<1>14. \A q \in 1 .. y : t[d + q] = x[q]
  BY <1>1, <1>13
<1>15. KeyMark(t, k, end, d + p)
  <2>1. In(at, i, d + p)
    <3> DEFINE p2 == d + p
    <3>1. p2 \in a .. c - 1
      BY <1>13
    <3> HIDE DEF p2
    <3>2. a <= p2 /\ p2 < c
      BY <1>3, <3>1
    <3> QED
      BY <3>2 DEF In, a, c, p2
  <2>2. KeyMark(t, k, end, d + p) <=> KeyMark(x, k, y + 1, (d + p) + 1 - a)
    BY <1>9, <1>13, <2>1, KeyMarkInLine DEF x, y, a, c
  <2> QED
    BY <1>7, <1>13, <2>2
<1>16. EqualsAt(t, (d + p) + n, end, d + e)
  <2>1. p + n \in 1 .. y
    <3>1. e \in p + n .. (y + 1) - 1
      BY <1>11, Zenon DEF EqualsAt
    <3> QED
      BY <1>1, <1>6, <3>1
  <2>2. d + (p + n) \in a .. c - 1 /\ (d + (p + n)) + 1 - a = p + n /\ d + (p + n) = (d + p) + n
    BY <1>6, <1>9, <1>13, <2>1
  <2> DEFINE s == d + (p + n)
             u == d + e
  <2>3. s \in a .. c - 1 /\ u \in Nat /\ s + 1 - a = p + n /\ u + 1 - a = e /\ u \in a .. c - 1
    BY <1>13, <2>2
  <2> HIDE DEF s, u
  <2>4. EqualsAt(t, s, end, u) <=>
          u \in a .. c - 1 /\ EqualsAt(x, s + 1 - a, Len(x) + 1, u + 1 - a)
    BY <1>2, <1>9, <2>3, EqualsInLine
  <2>5. EqualsAt(t, s, end, u)
    BY <1>11, <2>3, <2>4 DEF y
  <2> QED
    BY <2>2, <2>5 DEF s, u
<1>17. \A q \in a .. (d + p) - 1 : t[q] \in Blank
  <2> SUFFICES ASSUME NEW q \in a .. (d + p) - 1
               PROVE  t[q] \in Blank
    OBVIOUS
  <2> DEFINE r == q - d
  <2>1. r \in 1 .. p - 1 /\ r \in 1 .. y /\ d + r = q
    BY <1>12
  <2> HIDE DEF r
  <2>2. t[d + r] = x[r] /\ x[r] \in Blank
    BY <1>5, <1>14, <2>1
  <2> QED
    BY <2>1, <2>2
<1>18. d + e < d + b /\ \A q \in d + e + 1 .. (d + b) - 1 : t[q] \in Blank
  <2>1. d + e < d + b
    BY <1>1, <1>5, <1>9
  <2> SUFFICES ASSUME NEW q \in d + e + 1 .. (d + b) - 1
               PROVE  t[q] \in Blank
    BY <2>1
  <2> DEFINE r == q - d
  <2>2. r \in e + 1 .. b - 1 /\ r \in 1 .. y /\ d + r = q
    BY <1>1, <1>9
  <2> HIDE DEF r
  <2>3. t[d + r] = x[r] /\ x[r] \in Blank
    BY <1>5, <1>14, <2>2
  <2> QED
    BY <2>2, <2>3
<1>19. /\ t[d + b] \notin Blank /\ d + b <= d + z
       /\ \A q \in d + b .. d + z : t[q] \in Eol <=> q = d + z
  <2>1. t[d + b] \notin Blank /\ d + b <= d + z
    BY <1>1, <1>5, <1>9, <1>14
  <2> SUFFICES ASSUME NEW q \in d + b .. d + z
               PROVE  t[q] \in Eol <=> q = d + z
    BY <2>1
  <2> DEFINE r == q - d
  <2>2. r \in b .. z /\ r \in 1 .. y /\ d + r = q /\ (r = z <=> q = d + z)
    BY <1>1, <1>9
  <2> HIDE DEF r
  <2>3. t[d + r] = x[r] /\ (x[r] \in Eol <=> r = z)
    BY <1>5, <1>14, <2>2
  <2> QED
    BY <2>2, <2>3
<1>20. v = SubSeq(t, d + b, (d + z) - 1)
  <2>1. /\ b \in Nat /\ z - 1 \in Nat /\ 1 <= b /\ b <= (z - 1) + 1 /\ z - 1 <= y
    BY <1>1, <1>5
  <2>2. /\ d + b \in Nat /\ (d + z) - 1 \in Nat /\ 1 <= d + b /\ d + b <= ((d + z) - 1) + 1
        /\ (d + z) - 1 <= Len(t)
        /\ ((d + z) - 1) + 1 - (d + b) = (z - 1) + 1 - b
    <3>1. b \in Nat /\ z \in Nat /\ 1 <= b /\ b <= z /\ z <= y /\ y \in Nat /\ Len(t) \in Nat
      BY <1>1, <1>3, <1>10
    <3>2. d \in Nat /\ d + y <= Len(t)
      BY <1>1, <1>3, <1>9
    <3> QED
      BY <3>1, <3>2
  <2> DEFINE s1 == SubSeq(x, b, z - 1)
             s2 == SubSeq(t, d + b, (d + z) - 1)
             w == (z - 1) + 1 - b
  <2>3. /\ s1 \in Seq(Chars) /\ Len(s1) = w
        /\ \A j \in 1 .. w : s1[j] = x[b + j - 1]
    BY <1>1, <2>1, PartIs DEF y
  <2>4. /\ s2 \in Seq(Chars) /\ Len(s2) = w
        /\ \A j \in 1 .. w : s2[j] = t[(d + b) + j - 1]
    <3>1. /\ s2 \in Seq(Chars) /\ Len(s2) = ((d + z) - 1) + 1 - (d + b)
          /\ \A j \in 1 .. ((d + z) - 1) + 1 - (d + b) : s2[j] = t[(d + b) + j - 1]
      BY <1>6, <2>2, PartIs
    <3> QED
      BY <2>2, <3>1
  <2>5. \A j \in 1 .. w : s1[j] = s2[j]
    <3> SUFFICES ASSUME NEW j \in 1 .. w
                 PROVE  x[b + j - 1] = t[(d + b) + j - 1]
      BY <2>3, <2>4
    <3>1. b + j - 1 \in 1 .. y /\ d + (b + j - 1) = (d + b) + j - 1
      <4>1. /\ b \in Nat /\ z \in Nat /\ 1 <= b /\ b <= z /\ z <= y /\ y \in Nat /\ d \in Nat
            /\ j \in 1 .. (z - 1) + 1 - b
        BY <1>1, <1>9, <1>10
      <4> QED
        BY <4>1
    <3> QED
      BY <1>14, <3>1
  <2> HIDE DEF s1, s2, w
  <2>6. s1 = s2
    BY <2>3, <2>4, <2>5, SameText
  <2> QED
    BY <1>5, <2>6 DEF s1, s2
<1>21. ItemStands(t, k, v, a, c, end, d + p, d + e, d + b, d + z)
  <2> DEFINE p2 == d + p
             e2 == d + e
             b2 == d + b
             z2 == d + z
  <2>1. p2 \in a .. c - 1 /\ e2 \in a .. c - 1 /\ b2 \in a .. c - 1 /\ z2 \in a .. c - 1
    BY <1>13
  <2>2. KeyMark(t, k, end, p2) /\ EqualsAt(t, p2 + n, end, e2)
    BY <1>15, <1>16
  <2>3. /\ \A q \in a .. p2 - 1 : t[q] \in Blank
        /\ e2 < b2 /\ \A q \in e2 + 1 .. b2 - 1 : t[q] \in Blank
    BY <1>17, <1>18, Zenon
  <2>4. /\ t[b2] \notin Blank /\ b2 <= z2
        /\ \A q \in b2 .. z2 : t[q] \in Eol <=> q = z2
    BY <1>19
  <2>5. v = SubSeq(t, b2, z2 - 1)
    BY <1>20
  <2> HIDE DEF p2, e2, b2, z2
  <2>6. ItemStands(t, k, v, a, c, end, p2, e2, b2, z2)
    BY <2>1, <2>2, <2>3, <2>4, <2>5, Zenon DEF ItemStands, n
  <2> QED
    BY <2>6 DEF p2, e2, b2, z2
<1>22. d + p \in Nat /\ d + e \in Nat /\ d + b \in Nat /\ d + z \in Nat
  BY <1>13
<1>23. ItemThere(t, k, v, a, c, end)
  BY <1>21, <1>22 DEF ItemThere
<1> QED
  BY <1>4, <1>23 DEF v, a, c

-----------------------------------------------------------------------------
(* The first item of a key in a section.                                   *)

\* at is the first place of the key in the section.
FirstKey(t, begin, k, end, at) ==
    /\ at \in Places
    /\ at.begin # 0 =>
         /\ at.begin >= begin /\ KeyMark(t, k, end, at.begin)
         /\ EqualsAt(t, at.begin + Len(k), end, at.end)
    /\ \A q \in Nat : q >= begin /\ KeyMark(t, k, end, q) => at.begin # 0 /\ at.begin <= q

\* LocateKey finds it.
LEMMA FirstKeyFound ==
    ASSUME NEW t, NEW ls, NEW at, NEW f, NEW m, NEW n, NEW end, Section(t, ls, at, f, m, n, end),
           NEW k \in Keys, NEW range, range = [begin |-> at[m], end |-> end]
    PROVE  /\ WithinText(t, range) /\ range # None
           /\ FirstKey(t, at[m], k, end, LocateKey(t, k, range))
<1> DEFINE lt == ToLower(t)
           lk == ToLower(k)
           kat == LocateKey(t, k, range)
<1>1. /\ f \in Nat /\ m \in Nat /\ Len(ls) \in Nat /\ m >= f + 1 /\ f >= 1
      /\ m \in 1 .. Len(ls) + 1 /\ n \in 1 .. Len(ls) + 1 /\ end \in Nat
      /\ at[m] \in Nat /\ at[n] \in Nat /\ at[n] <= end /\ end <= Len(t) + 1 /\ at[m] > 1
      /\ Len(t) \in Nat /\ t \in Seq(Chars) /\ at[m] <= at[n]
  BY SectionIs
<1>2. Written(t, ls, at) /\ end = SectionEnd(t, at[m]) /\ ls \in Seq(GoodLines)
  BY DEF Section, Written
<1>3. at[m] \in 1 .. Len(t) + 1 /\ end \in at[m] .. Len(t) + 1
  BY <1>1
<1>4. At(t, end) # "="
  BY <1>1, <1>2, <1>3, SectionEndIs
<1>5. WithinText(t, range) /\ range.begin = at[m] /\ range.end = end
  BY <1>3, <1>4 DEF WithinText
<1>6. range # None
  <2>1. None.begin = 0 /\ range.begin > 0
    BY <1>1, <1>5 DEF None
  <2> QED
    BY <2>1
<1>7. k \in Seq(Chars) /\ k # <<>>
  BY ArgumentsAreTexts
<1>8. KeyFound(t, k, end, at[m], kat)
  <2>1. KeyFound(t, k, range.end, range.begin, LocateKey(t, k, range))
    BY <1>1, <1>5, <1>6, <1>7, LocateKeyIs
  <2> QED
    BY <1>5, <2>1
<1>9. Wordlike(lk)
  BY KeyWordlike
<1>10. Distinct(t, k)
  <2>1. \A i \in 1 .. Len(ls) : Apart(ToLower(ls[i].text), lk)
    <3>1. \A i \in 1 .. Len(ls) : ls[i] \in GoodLines
      BY <1>2
    <3> QED
      BY <3>1, GoodLinesAre DEF WellWritten
  <2>2. Apart(lt, lk)
    BY <1>2, <1>9, <2>1, ApartInText
  <2> QED
    BY <2>2, LinesAssumption DEF Distinct
\* The section begins behind a line end.
<1>11. Clean(lt, lk, at[m])
  <2>1. m - 1 \in 1 .. Len(ls) /\ (m - 1) + 1 = m
    BY <1>1
  <2>2. LowerLine(t, ls[m - 1].text, at[m - 1], at[m])
    BY <1>2, <2>1, LowerLineIs
  <2>3. lt[at[m] - 1] \in Eol /\ at[m] - 1 \in 1 .. Len(t) /\ Len(lt) = Len(t) /\ lt \in Seq(Chars)
    <3>1. lt[at[m] - 1] \in Eol /\ Len(lt) = Len(t) /\ lt \in Seq(Chars)
      BY <2>2 DEF LowerLine
    <3>2. at[m] - 1 \in 1 .. Len(t)
      <4> DEFINE a == at[m]
      <4>1. a \in Nat /\ a > 1 /\ a <= Len(t) + 1
        BY <1>1
      <4> HIDE DEF a
      <4>2. a - 1 \in 1 .. Len(t)
        BY <1>1, <4>1
      <4> QED
        BY <4>2 DEF a
    <3> QED
      BY <3>1, <3>2
  <2>4. At(lt, at[m] - 1) \in Space
    <3>1. DOMAIN lt = 1 .. Len(lt)
      BY <2>3
    <3> HIDE DEF lt
    <3> QED
      BY <2>3, <3>1 DEF At, Space
  <2> QED
    BY <2>4 DEF Clean
<1> HIDE DEF kat, lt, lk
<1>12. /\ kat \in Places
       /\ kat.begin # 0 =>
            /\ kat.begin >= at[m]
            /\ EqualsAt(t, kat.begin + Len(k), end, kat.end)
       /\ kat.begin # 0 => KeyMark(t, k, end, kat.begin)
       /\ \A q \in Nat : q >= at[m] /\ KeyMark(t, k, end, q) => kat.begin # 0 /\ kat.begin <= q
  BY <1>8, <1>10, <1>11 DEF KeyFound, lt, lk
<1>13. FirstKey(t, at[m], k, end, kat)
  BY <1>12, Zenon DEF FirstKey
<1> QED
  BY <1>5, <1>6, <1>13 DEF kat

\* There is one "=" behind a key at most.
LEMMA OneEquals ==
    ASSUME NEW t, NEW p \in Nat, NEW end \in Nat, NEW e \in Nat, NEW d \in Nat,
           EqualsAt(t, p, end, e), EqualsAt(t, p, end, d)
    PROVE  e = d
<1>1. /\ e >= p /\ At(t, e) = "=" /\ \A u \in p .. e - 1 : At(t, u) \in Blank
      /\ d >= p /\ At(t, d) = "=" /\ \A u \in p .. d - 1 : At(t, u) \in Blank
  BY DEF EqualsAt
<1>2. "=" \notin Blank
  BY DEF Blank
<1>3. ~(e < d)
  BY <1>1, <1>2
<1>4. ~(d < e)
  BY <1>1, <1>2
<1> QED
  BY <1>3, <1>4

\* With no item of the key in the section nothing is found.
LEMMA NoItem ==
    ASSUME NEW t, NEW ls, NEW at, NEW f, NEW m, NEW n, NEW end, Section(t, ls, at, f, m, n, end),
           NEW k \in Keys, NEW kat, FirstKey(t, at[m], k, end, kat),
           \A i \in m .. n - 1 : ls[i].key # k
    PROVE  kat.begin = 0
<1>1. /\ kat.begin \in Nat
      /\ kat.begin # 0 => kat.begin >= at[m] /\ KeyMark(t, k, end, kat.begin)
  BY DEF FirstKey, Places
<1> QED
  BY <1>1, KeyInSection

\* Otherwise its first item.
ItemFirst(ls, m, n, j, k) ==
    j \in m .. n - 1 /\ ls[j].key = k /\ \A i \in m .. j - 1 : ls[i].key # k

\* The search has found the item.
Hit(t, k, value, a, c, end, kat) ==
    /\ kat.begin # 0
    /\ \E b, z \in Nat : ItemStands(t, k, value, a, c, end, kat.begin, kat.end, b, z)

\* With an item of the key in the section, its first is found.
LEMMA FirstItem ==
    ASSUME NEW t, NEW ls, NEW at, NEW f, NEW m, NEW n, NEW end, Section(t, ls, at, f, m, n, end),
           NEW k \in Keys, NEW kat, FirstKey(t, at[m], k, end, kat),
           NEW j, ItemFirst(ls, m, n, j, k), ItemThere(t, k, ls[j].value, at[j], at[j + 1], end)
    PROVE  Hit(t, k, ls[j].value, at[j], at[j + 1], end, kat)
<1>1. j \in m .. n - 1 /\ ls[j].key = k /\ \A i \in m .. j - 1 : ls[i].key # k
  BY DEF ItemFirst
<1>2. PICK p \in Nat, e \in Nat, b \in Nat, z \in Nat :
        ItemStands(t, k, ls[j].value, at[j], at[j + 1], end, p, e, b, z)
  BY DEF ItemThere
<1>3. /\ m \in Nat /\ n \in Nat /\ end \in Nat /\ at[m] \in Nat /\ at[m] > 1
      /\ t \in Seq(Chars) /\ Len(t) \in Nat
      /\ \A i \in m .. n - 1 :
           /\ i \in 1 .. Len(ls) /\ at[i] \in Nat /\ at[i + 1] \in Nat /\ at[m] <= at[i]
  BY SectionIs
<1>4. /\ kat \in Places /\ kat.begin \in Nat /\ kat.end \in Nat
      /\ kat.begin # 0 =>
           /\ kat.begin >= at[m] /\ KeyMark(t, k, end, kat.begin)
           /\ EqualsAt(t, kat.begin + Len(k), end, kat.end)
      /\ \A q \in Nat : q >= at[m] /\ KeyMark(t, k, end, q) => kat.begin # 0 /\ kat.begin <= q
  BY DEF FirstKey, Places
<1>5. ASSUME kat.begin # 0
      PROVE  \E i \in m .. n - 1 : In(at, i, kat.begin) /\ ls[i].key = k
  BY <1>4, <1>5, KeyInSection
<1>6. /\ p \in at[j] .. at[j + 1] - 1 /\ \A q \in at[j] .. p - 1 : t[q] \in Blank
      /\ KeyMark(t, k, end, p) /\ EqualsAt(t, p + Len(k), end, e)
  BY <1>2 DEF ItemStands
<1>7. at[j] \in Nat /\ at[j + 1] \in Nat /\ at[m] <= at[j] /\ j \in Nat
  BY <1>1, <1>3
<1>8. p >= at[m]
  BY <1>3, <1>6, <1>7
<1>9. kat.begin # 0 /\ kat.begin <= p
  BY <1>4, <1>6, <1>8
<1>10. PICK i \in m .. n - 1 : In(at, i, kat.begin) /\ ls[i].key = k
  BY <1>5, <1>9
<1>11. i \in Nat /\ i >= m /\ i \in 1 .. Len(ls) /\ at[i] \in Nat /\ at[i] <= kat.begin
  BY <1>3, <1>10 DEF In
<1>12. j <= i
  <2> SUFFICES ASSUME i < j
               PROVE  FALSE
    BY <1>7, <1>11
  <2>1. i \in m .. j - 1
    BY <1>3, <1>7, <1>11
  <2> QED
    BY <1>1, <1>10, <2>1
<1>13. i <= j
  <2>1. In(at, j, p) /\ at[i] <= p
    <3> DEFINE a == at[i]
    <3>1. a \in Nat /\ a <= kat.begin /\ kat.begin \in Nat /\ kat.begin <= p
      BY <1>4, <1>9, <1>11
    <3> HIDE DEF a
    <3>2. a <= p
      BY <3>1
    <3>3. In(at, j, p)
      BY <1>6, <1>7 DEF In
    <3> QED
      BY <3>2, <3>3 DEF a
  <2>2. j \in 1 .. Len(ls) /\ i \in 1 .. Len(ls) + 1
    BY <1>1, <1>3, <1>11
  <2>3. Written(t, ls, at)
    BY DEF Section
  <2> QED
    BY <2>1, <2>2, <2>3, LinesOrdered
<1>14. at[j] <= kat.begin
  BY <1>7, <1>11, <1>12, <1>13
<1>15. kat.begin = p
  <2> SUFFICES ASSUME kat.begin < p
               PROVE  FALSE
    BY <1>4, <1>9
  <2>1. kat.begin \in at[j] .. p - 1
    BY <1>4, <1>7, <1>14
  <2>2. t[kat.begin] \in Space
    BY <1>6, <2>1 DEF Space
  <2>3. Occurs(ToLower(t), ToLower(k), kat.begin)
    BY <1>4, <1>9 DEF KeyMark, Mark
  <2> QED
    BY <1>3, <1>4, <2>2, <2>3, KeyIsNoSpace
<1>16. kat.end = e
  <2>1. Len(k) \in Nat
    BY KeyWordlike DEF Wordlike
  <2>2. p + Len(k) \in Nat
    BY <2>1
  <2> QED
    BY <1>3, <1>4, <1>6, <1>9, <1>15, <2>2, OneEquals
<1> QED
  BY <1>2, <1>9, <1>15, <1>16 DEF Hit

-----------------------------------------------------------------------------
(* What the lookups return for what was written.                           *)

\* The value found is the one the line has.
LEMMA ValueIs ==
    ASSUME NEW t \in Seq(Chars), NEW range, WithinText(t, range), NEW at \in Places,
           NEW k, NEW v, NEW a \in Nat, NEW c \in Nat, c <= range.end, a >= 1,
           Hit(t, k, v, a, c, range.end, at), Cut(v, BufSize) = v
    PROVE  ItemAt(t, AfterKey(t, at, range), BufSize) = v
<1> DEFINE r == ValueRange(t, at, range)
           end == range.end
           p == at.begin
           e == at.end
<1>1. PICK b \in Nat, z \in Nat : ItemStands(t, k, v, a, c, end, p, e, b, z)
  BY DEF Hit
<1>2. p # 0 /\ p \in Nat /\ e \in Nat
  BY DEF Hit, Places
<1>3. /\ Len(t) \in Nat /\ DOMAIN t = 1 .. Len(t) /\ end \in Nat /\ end <= Len(t) + 1
  BY DEF WithinText
<1>4. /\ e \in a .. c - 1 /\ b \in a .. c - 1 /\ z \in a .. c - 1
      /\ e < b /\ \A q \in e + 1 .. b - 1 : t[q] \in Blank
      /\ t[b] \notin Blank /\ b <= z /\ \A q \in b .. z : t[q] \in Eol <=> q = z
      /\ v = SubSeq(t, b, z - 1) /\ EqualsAt(t, p + Len(k), end, e)
  BY <1>1 DEF ItemStands
<1>5. e \in 1 .. end - 1 /\ At(t, e) = "="
  <2>1. At(t, e) = "="
    BY <1>4 DEF EqualsAt
  <2>2. e \in 1 .. end - 1
    BY <1>3, <1>4
  <2> QED
    BY <2>1, <2>2
<1>6. /\ r.begin \in at.end + 1 .. end /\ r.end \in r.begin .. end
      /\ Passed(t, at.end + 1, end, Blank, r.begin)
      /\ Reached(t, r.begin, end, Eol, r.end)
  BY <1>5, ValueRangeIs
<1>7. \A q \in 1 .. Len(t) : At(t, q) = t[q]
  BY <1>3 DEF At
<1> DEFINE rb == r.begin
           re == r.end
<1>8. /\ rb \in Nat /\ re \in Nat /\ rb >= e + 1 /\ rb <= end /\ re >= rb /\ re <= end
      /\ \A q \in e + 1 .. rb - 1 : At(t, q) \in Blank
      /\ rb < end => At(t, rb) \notin Blank
      /\ \A q \in rb .. re - 1 : At(t, q) \notin Eol \/ q >= end
      /\ re < end => At(t, re) \in Eol
  <2>1. rb \in Nat /\ re \in Nat /\ rb >= e + 1 /\ rb <= end /\ re >= rb /\ re <= end
    BY <1>3, <1>6, <1>2
  <2>2. /\ \A q \in e + 1 .. rb - 1 : At(t, q) \in Blank
        /\ rb < end => At(t, rb) \notin Blank
    BY <1>6 DEF Passed
  <2>3. /\ \A q \in rb .. re - 1 : At(t, q) \notin Eol \/ q >= end
        /\ re < end => At(t, re) \in Eol
    BY <1>6 DEF Reached
  <2> QED
    BY <2>1, <2>2, <2>3
<1> HIDE DEF r, rb, re, end, p, e
<1>9. b \in 1 .. Len(t) /\ z \in 1 .. Len(t) /\ b < end /\ z < end /\ b >= e + 1
  BY <1>3, <1>4 DEF end
<1>10. rb = b
  <2>1. ~(b < rb)
    <3> SUFFICES ASSUME b < rb
                 PROVE  FALSE
      OBVIOUS
    <3>1. b \in e + 1 .. rb - 1
      BY <1>8, <1>9, <1>2
    <3> QED
      BY <1>4, <1>7, <1>8, <1>9, <3>1
  <2>2. ~(rb < b)
    <3> SUFFICES ASSUME rb < b
                 PROVE  FALSE
      OBVIOUS
    <3>1. rb \in e + 1 .. b - 1 /\ rb \in 1 .. Len(t) /\ rb < end
      BY <1>3, <1>8, <1>9, <1>2
    <3> QED
      BY <1>4, <1>7, <1>8, <3>1
  <2> QED
    BY <1>8, <2>1, <2>2
<1>11. re = z
  <2>1. t[z] \in Eol
    BY <1>4
  <2>2. ~(z < re)
    <3> SUFFICES ASSUME z < re
                 PROVE  FALSE
      OBVIOUS
    <3>1. z \in rb .. re - 1
      BY <1>4, <1>8, <1>10
    <3> QED
      BY <1>3, <1>7, <1>8, <1>9, <2>1, <3>1
  <2>3. ~(re < z)
    <3> SUFFICES ASSUME re < z
                 PROVE  FALSE
      OBVIOUS
    <3>1. re \in b .. z /\ re \in 1 .. Len(t) /\ re < end /\ re # z
      BY <1>3, <1>8, <1>9, <1>10
    <3> QED
      BY <1>4, <1>7, <1>8, <3>1
  <2> QED
    BY <1>8, <2>2, <2>3
<1>12. AfterKey(t, at, range) = NotEmpty(r)
  BY <1>2 DEF AfterKey, r, p
<1>13. CASE z <= b
  <2>1. z = b
    BY <1>4, <1>13
  <2>2. NotEmpty(r) = None
    BY <1>10, <1>11, <1>13 DEF NotEmpty, rb, re
  <2>3. ItemAt(t, AfterKey(t, at, range), BufSize) = <<>>
    BY <1>12, <2>2 DEF ItemAt
  <2>4. v = <<>>
    <3>1. v = SubSeq(t, b, b - 1) /\ 1 <= b /\ b <= (b - 1) + 1 /\ b - 1 <= Len(t) /\ b - 1 \in Nat
      BY <1>3, <1>4, <1>9, <2>1
    <3>2. v \in Seq(Chars) /\ Len(v) = (b - 1) + 1 - b
      BY <3>1, PartIs
    <3>3. Len(v) = 0
      BY <3>2
    <3> QED
      BY <3>2, <3>3
  <2> QED
    BY <2>3, <2>4
<1>14. CASE z > b
  <2>1. NotEmpty(r) = r
    BY <1>10, <1>11, <1>14 DEF NotEmpty, rb, re
  <2>2. r # None
    <3>1. r.begin > 0
      BY <1>9, <1>10 DEF rb
    <3>2. None.begin = 0
      BY DEF None
    <3> QED
      BY <3>1, <3>2
  <2>3. Between(t, r) = v
    BY <1>4, <1>10, <1>11 DEF Between, rb, re
  <2> QED
    BY <1>12, <2>1, <2>2, <2>3 DEF ItemAt
<1> QED
  BY <1>4, <1>13, <1>14

\* The file's lines mean that the item k of the section s has the value v.
Means(ls, s, k, v) ==
    \/ (\A i \in 1 .. Len(ls) : ls[i].header # s) /\ v = <<>>
    \/ \E f \in 1 .. Len(ls) : \E n \in f + 1 .. Len(ls) + 1 :
         /\ HeaderAt(ls, s, f) /\ SectionTo(ls, f, n)
         /\ \/ (\A i \in f + 1 .. n - 1 : ls[i].key # k) /\ v = <<>>
            \/ \E j \in f + 1 .. n - 1 :
                 ls[j].key = k /\ (\A i \in f + 1 .. j - 1 : ls[i].key # k) /\ v = ls[j].value

\* The section of a header begins and ends where LocateSection says.
LEMMA SectionFound ==
    ASSUME NEW t, NEW ls, NEW at, Written(t, ls, at), NEW s \in Sections
    PROVE  /\ (\A i \in 1 .. Len(ls) : ls[i].header # s) => LocateSection(t, s) = None
           /\ \A f \in 1 .. Len(ls) : \A n \in f + 1 .. Len(ls) + 1 :
                HeaderAt(ls, s, f) /\ SectionTo(ls, f, n) =>
                  \E m \in f + 1 .. n, end \in Nat :
                    /\ Section(t, ls, at, f, m, n, end)
                    /\ LocateSection(t, s) = [begin |-> at[m], end |-> end]
                    /\ \A i \in f + 1 .. m - 1 : Empty(ls[i])
<1> DEFINE w == HeaderWord(s)
           p == LocateStr(ToLower(t), 1, Len(t) + 1, w)
           u == Until(t, p + Len(w), Len(t) + 1, Eol)
           begin == Skip(t, u, Len(t) + 1, Eol)
<1>1. LocateSection(t, s) = IF p = 0 THEN None ELSE [begin |-> begin, end |-> SectionEnd(t, begin)]
  BY DEF LocateSection
<1>2. /\ p \in Nat
      /\ p = 0 <=> \A i \in 1 .. Len(ls) : ls[i].header # s
      /\ \A f : HeaderAt(ls, s, f) => p # 0 /\ In(at, f, p) /\ In(at, f, p + Len(w))
  BY HeaderFound
<1>3. Len(w) \in Nat /\ ls \in Seq(GoodLines) /\ Len(ls) \in Nat
  BY HeaderWordlike DEF Wordlike, Written
<1>4. ASSUME NEW f \in 1 .. Len(ls), NEW n \in f + 1 .. Len(ls) + 1,
             HeaderAt(ls, s, f), SectionTo(ls, f, n)
      PROVE  \E m \in f + 1 .. n, end \in Nat :
                    /\ Section(t, ls, at, f, m, n, end)
                    /\ LocateSection(t, s) = [begin |-> at[m], end |-> end]
                    /\ \A i \in f + 1 .. m - 1 : Empty(ls[i])
  <2>1. p # 0 /\ In(at, f, p + Len(w)) /\ p + Len(w) \in Nat
    BY <1>2, <1>3, <1>4
  <2>2. PICK m : BodyAt(ls, at, f, m, begin)
    BY <2>1, BodyBegins
  <2>3. /\ m \in f + 1 .. Len(ls) + 1 /\ begin = at[m]
        /\ \A i \in f + 1 .. m - 1 : Empty(ls[i])
    BY <2>2 DEF BodyAt
  \* A header is no empty line.
  <2>4. m <= n
    <3> SUFFICES ASSUME n < m
                 PROVE  FALSE
      BY <1>3, <2>3
    <3>1. n \in f + 1 .. m - 1 /\ n \in 1 .. Len(ls) /\ n <= Len(ls)
      BY <1>3, <2>3
    <3>2. ls[n] \in GoodLines /\ Empty(ls[n])
      BY <1>3, <2>3, <3>1
    <3> QED
      BY <1>4, <3>1, <3>2, EmptyLine DEF SectionTo
  <2> DEFINE end == SectionEnd(t, at[m])
  <2>5. m \in f + 1 .. n
    BY <1>3, <2>3, <2>4
  <2>6. EndAt(t, at, n, end)
    BY <1>4, <2>5, BodyEnds
  <2>7. Section(t, ls, at, f, m, n, end)
    BY <1>4, <2>5, <2>6 DEF Section
  <2>8. LocateSection(t, s) = [begin |-> at[m], end |-> end]
    BY <1>1, <2>1, <2>3
  <2>9. end \in Nat
    BY <2>6 DEF EndAt
  <2> QED
    BY <2>3, <2>5, <2>7, <2>8, <2>9
<1>5. ASSUME \A i \in 1 .. Len(ls) : ls[i].header # s
      PROVE  LocateSection(t, s) = None
  BY <1>1, <1>2, <1>5
<1> QED
  BY <1>4, <1>5

\* A lookup gives what the lines mean.
LEMMA LookupFinds ==
    ASSUME NEW t, NEW ls, NEW at, Written(t, ls, at), NEW s \in Sections, NEW k \in Keys,
           NEW v, Means(ls, s, k, v)
    PROVE  GetItemValue(t, s, k, BufSize) = v
<1> DEFINE range == LocateSection(t, s)
           kat == LocateKey(t, k, range)
<1>1. GetItemValue(t, s, k, BufSize) = ItemAt(t, AfterKey(t, kat, range), BufSize)
  BY DEF GetItemValue, LocateKeyValue
<1>2. ItemAt(t, None, BufSize) = <<>>
  BY DEF ItemAt
<1>3. ASSUME \A i \in 1 .. Len(ls) : ls[i].header # s, v = <<>>
      PROVE  GetItemValue(t, s, k, BufSize) = v
  <2>1. range = None
    BY <1>3, SectionFound
  <2>2. kat = None
    BY <2>1 DEF LocateKey
  <2>3. AfterKey(t, kat, range) = None
    BY <2>2 DEF AfterKey, None
  <2> QED
    BY <1>1, <1>2, <1>3, <2>3
<1>4. ASSUME NEW f \in 1 .. Len(ls), NEW n \in f + 1 .. Len(ls) + 1,
             HeaderAt(ls, s, f), SectionTo(ls, f, n),
             \/ (\A i \in f + 1 .. n - 1 : ls[i].key # k) /\ v = <<>>
             \/ \E j \in f + 1 .. n - 1 :
                  ls[j].key = k /\ (\A i \in f + 1 .. j - 1 : ls[i].key # k) /\ v = ls[j].value
      PROVE  GetItemValue(t, s, k, BufSize) = v
  <2>1. PICK m \in f + 1 .. n, end \in Nat :
          /\ Section(t, ls, at, f, m, n, end)
          /\ range = [begin |-> at[m], end |-> end]
          /\ \A i \in f + 1 .. m - 1 : Empty(ls[i])
    BY <1>4, SectionFound
  <2>2. /\ f \in Nat /\ m \in Nat /\ n \in Nat /\ m >= f + 1 /\ m <= n /\ at[n] <= end
        /\ m \in 1 .. Len(ls) + 1 /\ n \in 1 .. Len(ls) + 1 /\ Len(ls) \in Nat
        /\ t \in Seq(Chars) /\ at[m] \in Nat /\ at[m] > 1 /\ at[n] \in Nat
    BY <2>1, SectionIs
  <2>3. WithinText(t, range) /\ range # None /\ FirstKey(t, at[m], k, end, kat)
    BY <2>1, FirstKeyFound
  <2>4. kat \in Places
    BY <2>3 DEF FirstKey
  <2> HIDE DEF range, kat
  <2>5. CASE \A i \in f + 1 .. n - 1 : ls[i].key # k
    <3>1. v = <<>>
      BY <1>4, <2>5
    <3>2. \A i \in m .. n - 1 : ls[i].key # k
      BY <2>2, <2>5
    <3>3. kat.begin = 0
      BY <2>1, <2>3, <3>2, NoItem
    <3>4. AfterKey(t, kat, range) = None
      BY <3>3 DEF AfterKey
    <3> QED
      BY <1>1, <1>2, <3>1, <3>4
  <2>6. CASE ~\A i \in f + 1 .. n - 1 : ls[i].key # k
    <3>1. PICK j \in f + 1 .. n - 1 :
            ls[j].key = k /\ (\A i \in f + 1 .. j - 1 : ls[i].key # k) /\ v = ls[j].value
      BY <1>4, <2>6
    \* An empty line has no key.
    <3>2. j >= m
      <4> SUFFICES ASSUME j < m
                   PROVE  FALSE
        BY <2>2
      <4>1. j \in f + 1 .. m - 1 /\ j \in 1 .. Len(ls)
        BY <2>2
      <4>2. ls[j] \in GoodLines /\ Empty(ls[j])
        BY <2>1, <4>1 DEF Written
      <4> QED
        BY <3>1, <4>2, EmptyLine
    <3>3. j \in m .. n - 1 /\ \A i \in m .. j - 1 : ls[i].key # k
      BY <2>2, <3>1, <3>2
    <3>4. /\ j \in 1 .. Len(ls) /\ ls[j].header = <<>>
          /\ at[j] \in Nat /\ at[j + 1] \in Nat /\ at[j + 1] <= at[n] /\ at[m] <= at[j]
      BY <2>1, <3>3, SectionIs
    <3>5. at[j + 1] <= end /\ at[j] >= 1
      <4> DEFINE a == at[j]
                 b == at[m]
                 c == at[j + 1]
                 d == at[n]
      <4>1. /\ a \in Nat /\ b \in Nat /\ c \in Nat /\ d \in Nat
            /\ c <= d /\ d <= end /\ b <= a /\ b > 1
        BY <2>2, <3>4
      <4> HIDE DEF a, b, c, d
      <4>2. c <= end /\ a >= 1
        BY <4>1
      <4> QED
        BY <4>2 DEF a, c
    <3>6. /\ ItemThere(t, k, ls[j].value, at[j], at[j + 1], end)
          /\ Cut(ls[j].value, BufSize) = ls[j].value
      BY <3>1, <3>4, <3>5, ItemIs
    <3>7. ItemFirst(ls, m, n, j, k)
      BY <3>1, <3>3 DEF ItemFirst
    <3>8. Hit(t, k, ls[j].value, at[j], at[j + 1], end, kat)
      BY <2>1, <2>3, <3>6, <3>7, FirstItem
    <3>9. range.end = end
      BY <2>1
    <3>10. ItemAt(t, AfterKey(t, kat, range), BufSize) = ls[j].value
      BY <2>2, <2>3, <2>4, <3>4, <3>5, <3>6, <3>8, <3>9, ValueIs
    <3> QED
      BY <1>1, <3>1, <3>10
  <2> QED
    BY <2>5, <2>6
<1> QED
  BY <1>3, <1>4 DEF Means

\* The first place of a set of numbers, 0 for none.
FirstOf(S) == IF S # {} THEN Min(S) ELSE 0

\* It is 0 exactly where there is none.
LEMMA FirstOfIs ==
    ASSUME NEW S, S \subseteq Nat \ {0}
    PROVE  /\ FirstOf(S) \in Nat
           /\ FirstOf(S) = 0 <=> S = {}
           /\ FirstOf(S) # 0 => FirstOf(S) \in S /\ \A i \in S : FirstOf(S) <= i
<1>1. CASE S = {}
  BY <1>1 DEF FirstOf
<1>2. CASE S # {}
  <2>1. S \subseteq Nat
    OBVIOUS
  <2>2. Min(S) \in S /\ \A i \in S : Min(S) <= i
    BY <1>2, <2>1, MinIs
  <2> QED
    BY <1>2, <2>2 DEF FirstOf
<1> QED
  BY <1>1, <1>2

\* The author's reading of the file is that meaning.
LEMMA ValueOfIs ==
    ASSUME file \in Seq(GoodLines), NEW s \in Sections, NEW k \in Keys
    PROVE  Means(file, s, k, ValueOf(s, k))
<1> DEFINE L == Len(file)
           H == {i \in 1 .. L : file[i].header = s}
           first == FirstOf(H)
           B == {i \in first + 1 .. L : file[i].header # <<>>}
           next == IF first = 0 THEN 0 ELSE FirstOf(B)
           lines == SectionLines(s)
           K == {i \in 1 .. Len(lines) : lines[i].key = k}
           place == FirstOf(K)
<1>1. lines = IF first = 0 THEN <<>> ELSE SubSeq(file, first + 1, IF next = 0 THEN L ELSE next - 1)
  BY Zenon DEF SectionLines, SelectInSeq, SelectInSubSeq, FirstOf
<1>2. ValueOf(s, k) = IF place = 0 THEN <<>> ELSE lines[place].value
  BY Zenon DEF ValueOf, SelectInSeq, FirstOf
<1>3. L \in Nat
  OBVIOUS
<1>4. H \subseteq Nat \ {0}
  BY <1>3
<1>5. /\ first \in Nat /\ (first = 0 <=> H = {})
      /\ first # 0 => first \in H /\ \A i \in H : first <= i
  <2> HIDE DEF H
  <2> QED
    BY <1>4, FirstOfIs
<1>6. \A i \in 1 .. L : file[i].header = s <=> i \in H
  OBVIOUS
<1>7. CASE first = 0
  <2>1. \A i \in 1 .. L : file[i].header # s
    BY <1>5, <1>6, <1>7
  <2>2. lines = <<>>
    BY <1>1, <1>7
  <2>3. Len(lines) = 0
    <3> HIDE DEF lines
    <3> QED
      BY <2>2
  <2>4. K = {}
    <3> HIDE DEF lines
    <3> QED
      BY <2>3
  <2>5. ValueOf(s, k) = <<>>
    <3>1. place = 0
      BY <2>4 DEF FirstOf
    <3> QED
      BY <1>2, <3>1
  <2> QED
    BY <2>1, <2>5 DEF Means
<1>8. CASE first # 0
  <2>1. first \in 1 .. L /\ file[first].header = s
    BY <1>5, <1>8
  <2>2. \A i \in 1 .. first - 1 : file[i].header # s
    <3> SUFFICES ASSUME NEW i \in 1 .. first - 1, file[i].header = s
                 PROVE  FALSE
      OBVIOUS
    <3> HIDE DEF first
    <3>1. i \in 1 .. L /\ i < first
      BY <1>3, <2>1
    <3> QED
      BY <1>3, <1>5, <1>6, <1>8, <2>1, <3>1
  <2>3. HeaderAt(file, s, first)
    BY <2>1, <2>2 DEF HeaderAt
  <2> HIDE DEF first, H
  <2>4. B \subseteq Nat \ {0}
    BY <1>3, <2>1
  <2>5. next = FirstOf(B)
    BY <1>8
  <2>6. /\ next \in Nat /\ (next = 0 <=> B = {})
        /\ next # 0 => next \in B /\ \A i \in B : next <= i
    <3> HIDE DEF B, next
    <3> QED
      BY <2>4, <2>5, FirstOfIs
  <2> DEFINE n == IF next = 0 THEN L + 1 ELSE next
  <2>7. \A i \in first + 1 .. L : file[i].header # <<>> <=> i \in B
    OBVIOUS
  <2>8. /\ n \in first + 1 .. L + 1 /\ (n <= L => file[n].header # <<>>)
        /\ \A i \in first + 1 .. n - 1 : file[i].header = <<>>
    <3>1. next # 0 => next \in first + 1 .. L
      <4>1. B \subseteq first + 1 .. L
        OBVIOUS
      <4> HIDE DEF B, next
      <4> QED
        BY <2>6, <4>1
    <3> HIDE DEF B, next
    <3>2. CASE next = 0
      <4>1. n = L + 1 /\ B = {}
        BY <2>6, <3>2
      <4> QED
        BY <1>3, <2>1, <2>7, <4>1
    <3>3. CASE next # 0
      <4>1. n = next /\ next \in B /\ next \in first + 1 .. L /\ \A i \in B : next <= i
        BY <2>6, <3>1, <3>3
      <4>2. first \in Nat
        BY <1>5
      <4> HIDE DEF n
      <4>3. ASSUME NEW i \in first + 1 .. n - 1
            PROVE  file[i].header = <<>>
        <5>1. i \in first + 1 .. L /\ i < next
          BY <1>3, <4>1, <4>2
        <5>2. i \notin B
          BY <4>1, <4>2, <5>1
        <5> QED
          BY <2>7, <5>1, <5>2
      <4>4. n \in first + 1 .. L + 1
        BY <1>3, <4>1, <4>2
      <4> QED
        BY <2>7, <4>1, <4>3, <4>4
    <3> QED
      BY <3>2, <3>3
  <2>9. SectionTo(file, first, n)
    BY <2>8 DEF SectionTo
  <2> HIDE DEF B
  <2>10. lines = SubSeq(file, first + 1, n - 1)
    <3>1. (IF next = 0 THEN L ELSE next - 1) = n - 1
      <4> HIDE DEF next
      <4> QED
        BY <1>3, <2>6
    <3>2. lines = SubSeq(file, first + 1, IF next = 0 THEN L ELSE next - 1)
      BY <1>1, <1>8
    <3> QED
      BY <3>1, <3>2
  <2> HIDE DEF n, next, lines
  <2>11. /\ Len(lines) = n - 1 - first /\ n - 1 - first \in Nat
         /\ \A i \in 1 .. n - 1 - first : lines[i] = file[first + i]
    <3>1. first + 1 \in 1 .. L + 1 /\ n - 1 \in first .. L
      BY <1>3, <2>1, <2>8
    <3> QED
      BY <1>3, <2>1, <2>8, <2>10, <3>1
  <2>12. K \subseteq Nat \ {0}
    BY <2>11
  <2>13. /\ place \in Nat /\ (place = 0 <=> K = {})
         /\ place # 0 => place \in K /\ \A i \in K : place <= i
    <3> HIDE DEF K
    <3> QED
      BY <2>12, FirstOfIs
  <2>14. first \in Nat /\ n \in Nat
    BY <1>5, <2>8
  <2>15. CASE place = 0
    <3>1. \A i \in first + 1 .. n - 1 : file[i].key # k
      <4> SUFFICES ASSUME NEW i \in first + 1 .. n - 1, file[i].key = k
                   PROVE  FALSE
        OBVIOUS
      <4>1. i - first \in 1 .. n - 1 - first /\ first + (i - first) = i
        BY <2>14
      <4>2. lines[i - first].key = k /\ i - first \in 1 .. Len(lines)
        BY <2>11, <4>1
      <4> QED
        BY <2>13, <2>15, <4>2
    <3>2. ValueOf(s, k) = <<>>
      BY <1>2, <2>15
    <3> QED
      BY <2>1, <2>3, <2>8, <2>9, <3>1, <3>2 DEF Means
  <2>16. CASE place # 0
    <3>1. place \in 1 .. Len(lines) /\ lines[place].key = k /\ \A i \in K : place <= i
      BY <2>13, <2>16
    <3> DEFINE j == first + place
    <3> HIDE DEF place
    <3>2. j \in first + 1 .. n - 1 /\ lines[place] = file[j] /\ place \in 1 .. n - 1 - first
      BY <2>11, <2>14, <3>1
    <3>3. ASSUME NEW i \in first + 1 .. j - 1
          PROVE  file[i].key # k
      <4>1. /\ i - first \in 1 .. n - 1 - first /\ first + (i - first) = i
            /\ i - first < place
        BY <2>14, <3>2
      <4>2. lines[i - first] = file[i] /\ i - first \in 1 .. Len(lines)
        BY <2>11, <4>1
      <4>3. i - first \notin K
        BY <3>1, <3>2, <4>1
      <4> QED
        BY <4>2, <4>3
    <3>4. ValueOf(s, k) = file[j].value
      BY <1>2, <2>16, <3>2
    <3>5. file[j].key = k
      BY <3>1, <3>2
    <3> HIDE DEF j
    <3>6. \E i \in first + 1 .. n - 1 :
            file[i].key = k /\ (\A x \in first + 1 .. i - 1 : file[x].key # k) /\ ValueOf(s, k) = file[i].value
      BY <3>2, <3>3, <3>4, <3>5
    <3> QED
      BY <2>1, <2>3, <2>8, <2>9, <3>6 DEF Means
  <2> QED
    BY <2>15, <2>16
<1> QED
  BY <1>7, <1>8

-----------------------------------------------------------------------------
(* Files the author writes, and FindsTheItem.                              *)

\* An empty file is written in no lines.
LEMMA NothingWritten ==
    Written(<<>>, <<>>, [i \in 1 .. 1 |-> 1])
<1> DEFINE at == [i \in 1 .. 1 |-> 1]
<1>1. <<>> \in Seq(Chars) /\ <<>> \in Seq(GoodLines) /\ Len(<<>>) = 0
  OBVIOUS
<1>2. at \in [1 .. 0 + 1 -> Nat] /\ at[1] = 1 /\ at[0 + 1] = 0 + 1
  OBVIOUS
<1> HIDE DEF at
<1>3. \A i \in 1 .. 0 : FALSE
  OBVIOUS
<1>4. Laid(<<>>, <<>>, at)
  BY <1>1, <1>2, <1>3 DEF Laid
<1> QED
  BY <1>1, <1>4 DEF Written, at

\* One more line.
LEMMA LineWritten ==
    ASSUME NEW t, NEW ls, NEW at, Written(t, ls, at), NEW l \in GoodLines
    PROVE  \E at2 : Written(t \o l.text, Append(ls, l), at2)
<1> DEFINE n == Len(ls)
           x == l.text
           m == Len(x)
           at2 == [i \in 1 .. (n + 1) + 1 |-> IF i <= n + 1 THEN at[i] ELSE Len(t) + 1 + m]
           new == t \o x
           ls2 == Append(ls, l)
<1>1. /\ t \in Seq(Chars) /\ Len(t) \in Nat /\ ls \in Seq(GoodLines) /\ n \in Nat
      /\ at \in [1 .. n + 1 -> Nat] /\ at[1] = 1 /\ at[n + 1] = Len(t) + 1
      /\ \A i \in 1 .. n :
           /\ at[i + 1] = at[i] + Len(ls[i].text)
           /\ \A j \in 1 .. Len(ls[i].text) : t[at[i] + j - 1] = ls[i].text[j]
  BY DEF Written, Laid
<1>2. x \in Seq(Chars) /\ m \in Nat \ {0}
  BY LineIs
<1>3. /\ new \in Seq(Chars) /\ Len(new) = Len(t) + m
      /\ \A i \in 1 .. Len(t) : new[i] = t[i]
      /\ \A i \in 1 .. m : new[Len(t) + i] = x[i]
  BY <1>1, <1>2, JoinedIs
<1>4. /\ ls2 \in Seq(GoodLines) /\ Len(ls2) = n + 1 /\ ls2[n + 1] = l
      /\ \A i \in 1 .. n : ls2[i] = ls[i]
  BY <1>1
<1>5. \A i \in 1 .. n : LineAt(t, ls, at, i)
  BY LineStands
<1> HIDE DEF n, x, m, new, ls2
<1>6. at2 \in [1 .. (n + 1) + 1 -> Nat]
  BY <1>1, <1>2
<1>7. /\ \A i \in 1 .. n + 1 : at2[i] = at[i]
      /\ at2[(n + 1) + 1] = Len(t) + 1 + m
  BY <1>1
<1> HIDE DEF at2
<1>8. at2[1] = 1 /\ at2[(n + 1) + 1] = Len(new) + 1
  <2>1. 1 \in 1 .. n + 1
    BY <1>1
  <2>2. Len(t) + 1 + m = (Len(t) + m) + 1
    BY <1>1, <1>2
  <2> QED
    BY <1>1, <1>3, <1>7, <2>1, <2>2
<1>9. ASSUME NEW i \in 1 .. n + 1
      PROVE  /\ at2[i + 1] = at2[i] + Len(ls2[i].text)
             /\ \A j \in 1 .. Len(ls2[i].text) : new[at2[i] + j - 1] = ls2[i].text[j]
  <2>1. CASE i = n + 1
    <3>1. /\ at2[i] = Len(t) + 1 /\ at2[i + 1] = Len(t) + 1 + m /\ ls2[i] = l
          /\ Len(ls2[i].text) = m
      BY <1>1, <1>4, <1>7, <2>1 DEF m, x
    <3>2. \A j \in 1 .. m : (Len(t) + 1) + j - 1 = Len(t) + j
      BY <1>1, <1>2
    <3>3. at2[i + 1] = at2[i] + Len(ls2[i].text)
      BY <3>1
    <3>4. \A j \in 1 .. Len(ls2[i].text) : new[at2[i] + j - 1] = ls2[i].text[j]
      BY <1>3, <3>1, <3>2 DEF x
    <3> QED
      BY <3>3, <3>4
  <2>2. CASE i # n + 1
    <3>1. i \in 1 .. n /\ i \in 1 .. n + 1 /\ i + 1 \in 1 .. n + 1
      BY <1>1, <2>2
    <3>2. at2[i] = at[i] /\ at2[i + 1] = at[i + 1] /\ ls2[i] = ls[i]
      BY <1>4, <1>7, <3>1
    <3>3. LineAt(t, ls, at, i)
      BY <1>5, <3>1
    <3> DEFINE a == at[i]
               y == Len(ls[i].text)
    <3>4. a \in 1 .. Len(t) /\ at[i + 1] \in 2 .. Len(t) + 1 /\ at[i + 1] = a + y /\ y \in Nat
      BY <3>3 DEF LineAt
    <3>5. \A j \in 1 .. y : t[a + j - 1] = ls[i].text[j]
      BY <1>1, <3>1
    <3>6. at2[i + 1] = at2[i] + Len(ls2[i].text)
      BY <3>2, <3>4
    <3>7. ASSUME NEW j \in 1 .. y
          PROVE  new[a + j - 1] = ls[i].text[j]
      <4>1. a + j - 1 \in 1 .. Len(t)
        <5>1. a + y <= Len(t) + 1
          BY <1>1, <3>4
        <5> HIDE DEF a, y
        <5> QED
          BY <1>1, <3>4, <5>1
      <4> QED
        BY <1>3, <3>5, <4>1
    <3> QED
      BY <3>2, <3>6, <3>7
  <2> QED
    BY <2>1, <2>2
<1>10. Laid(new, ls2, at2)
  <2>1. (n + 1) + 1 = Len(ls2) + 1
    BY <1>4
  <2> QED
    BY <1>4, <1>6, <1>8, <1>9, <2>1 DEF Laid
<1> QED
  BY <1>3, <1>4, <1>10 DEF Written, new, x, ls2

\* The file is made of the lines of its author, who writes none while it is open.
Composed ==
    /\ file \in Seq(Lines)
    /\ file # <<>> => \E at : Written(disk, file, at)
    /\ isOpen => file = <<>> /\ answer # "none"

\* No call disturbs that.
LEMMA ComposedStep ==
    ASSUME Composed, [Next]_vars
    PROVE  Composed'
<1> USE DEF Composed
<1>1. CASE WriteLine
  <2>1. PICK l \in Lines : file' = Append(file, l) /\ disk' = disk \o l.text
    BY <1>1 DEF WriteLine, File
  <2>2. \E at : Written(disk, file, at)
    <3>1. CASE file = <<>>
      <4>1. disk = <<>>
        BY <1>1, <3>1 DEF WriteLine
      <4> QED
        BY <3>1, <4>1, NothingWritten
    <3>2. CASE file # <<>>
      BY <3>2
    <3> QED
      BY <3>1, <3>2
  <2>3. \E at : Written(disk', file', at)
    BY <2>1, <2>2, LineWritten, LinesAreGood
  <2>4. ~isOpen' /\ file' \in Seq(Lines)
    BY <1>1, <2>1 DEF WriteLine
  <2> QED
    BY <2>3, <2>4
<1>2. CASE Edit
  BY <1>2 DEF Edit
<1>3. CASE OpenFile
  BY <1>3 DEF OpenFile
<1>4. CASE CloseFile
  BY <1>4 DEF CloseFile
<1>5. ASSUME NEW s \in Sections, Refused(s)
      PROVE  Composed'
  BY <1>5 DEF Refused
<1>6. ASSUME NEW s \in Sections, NEW k \in Keys, NEW v \in SetValues,
             SetItemValue(s, k, v) \/ SetCannotOpen(s, k, v) \/ SetCutShort(s, k, v)
      PROVE  Composed'
  <2>1. isOpen /\ isOpen' /\ file' = file /\ answer' # "none"
    BY <1>6 DEF SetItemValue, SetCannotOpen, SetCutShort, NewTexts
  <2> QED
    BY <2>1
<1>7. CASE UNCHANGED vars
  BY <1>7 DEF vars
<1> QED
  BY <1>1, <1>2, <1>3, <1>4, <1>5, <1>6, <1>7 DEF Next

\* So it always holds.
LEMMA ComposedAlways == Spec => []Composed
<1>1. Init => Composed
  BY DEF Init, Composed
<1>2. Composed /\ [Next]_vars => Composed'
  BY ComposedStep
<1> QED
  BY <1>1, <1>2, PTL DEF Spec

\* Every lookup finds the item's line, and its value, in any file its author has
\* written line by line; and no other line.
THEOREM FindsTheItemHolds == Spec => []FindsTheItem
<1>1. ASSUME Mirrored, Composed
      PROVE  FindsTheItem
  <2> SUFFICES ASSUME file # <<>>, NEW s \in Sections, NEW k \in Keys
               PROVE  saved[<<s, k>>] = ValueOf(s, k)
    BY DEF FindsTheItem
  <2>1. PICK at : Written(disk, file, at)
    BY <1>1 DEF Composed
  <2>2. Means(file, s, k, ValueOf(s, k))
    BY <1>1, ValueOfIs, AuthorsAreGood DEF Composed
  <2>3. GetItemValue(disk, s, k, BufSize) = ValueOf(s, k)
    BY <2>1, <2>2, LookupFinds
  <2>4. saved[<<s, k>>] = GetItemValue(disk, s, k, BufSize)
    BY <1>1 DEF Mirrored, Items
  <2> QED
    BY <2>3, <2>4
<1> QED
  BY <1>1, MirroredAlways, ComposedAlways, PTL

-----------------------------------------------------------------------------
(* Whole characters in written files.                                      *)

\* A line as a part of the text.
LEMMA PartOfLine ==
    ASSUME NEW t, NEW ls, NEW at, NEW i, LineAt(t, ls, at, i)
    PROVE  LET v == ls[i].text
               n == Len(v)
               b == at[i] - 1
           IN  /\ b \in Nat /\ n \in Nat \ {0} /\ at[i + 1] - 1 = b + n
               /\ \A m \in 1 .. n : v[m] = t[b + m]
               /\ v[n] \in Eol /\ v \in Seq(Chars) /\ ls[i] \in GoodLines
<1> DEFINE v == ls[i].text
           n == Len(v)
           a == at[i]
           z == at[i + 1]
           b == a - 1
<1>1. /\ a \in Nat \ {0} /\ n \in Nat \ {0} /\ z = a + n
      /\ \A q \in a .. z - 1 : t[q] = v[q + 1 - a]
      /\ t[z - 1] \in Eol /\ v \in Seq(Chars) /\ ls[i] \in GoodLines
  <2>1. a \in 1 .. Len(t) /\ n \in Nat \ {0}
    BY DEF LineAt
  <2>2. a \in Nat \ {0}
    <3> HIDE DEF a
    <3> QED
      BY <2>1
  <2>3. \A q \in a .. z - 1 : t[q] = v[q + 1 - a]
    BY DEF LineAt
  <2>4. z = a + n /\ t[z - 1] \in Eol /\ v \in Seq(Chars) /\ ls[i] \in GoodLines
    BY DEF LineAt
  <2> QED
    BY <2>1, <2>2, <2>3, <2>4
<1> HIDE DEF v, n, a, z
<1>2. ASSUME NEW m \in 1 .. n
      PROVE  v[m] = t[b + m]
  <2>1. b + m \in a .. z - 1 /\ (b + m) + 1 - a = m
    BY <1>1
  <2> QED
    BY <1>1, <2>1
<1>3. z - 1 = b + n /\ b \in Nat /\ n \in 1 .. n
  BY <1>1
<1>4. v[n] \in Eol
  BY <1>1, <1>2, <1>3
<1> QED
  BY <1>1, <1>2, <1>3, <1>4 DEF v, n, a, z

\* In front of every line there are whole characters only.
LEMMA LinesWhole ==
    ASSUME NEW t, NEW ls, NEW at, Written(t, ls, at),
           \A j \in 1 .. Len(ls) : WholeCharacters(ls[j].text), NEW i \in 1 .. Len(ls) + 1
    PROVE  at[i] - 1 \in Nat /\ Count(t, at[i] - 1) % 2 = 0
<1> DEFINE Bad == {x \in 1 .. Len(ls) + 1 : Count(t, at[x] - 1) % 2 # 0}
<1>1. Len(ls) \in Nat /\ at[1] = 1
  BY DEF Written, Laid
<1>2. Bad = {}
  <2> SUFFICES ASSUME Bad # {}
               PROVE  FALSE
    OBVIOUS
  <2>1. Bad \subseteq Nat
    BY <1>1
  <2>2. PICK x \in Bad : \A y \in Bad : x <= y
    <3> HIDE DEF Bad
    <3> QED
      BY <2>1, LeastOne
  <2>3. x \in 1 .. Len(ls) + 1 /\ Count(t, at[x] - 1) % 2 # 0
    OBVIOUS
  <2>4. x # 1
    <3> SUFFICES ASSUME x = 1
                 PROVE  FALSE
      OBVIOUS
    <3>1. at[x] - 1 = 0
      BY <1>1
    <3>2. Count(t, 0) = 0 /\ 0 % 2 = 0
      BY CountIs
    <3> QED
      BY <2>3, <3>1, <3>2
  <2> DEFINE j == x - 1
  <2>5. j \in 1 .. Len(ls) /\ j \notin Bad /\ j + 1 = x /\ j \in 1 .. Len(ls) + 1
    <3>1. j \in 1 .. Len(ls) /\ j \in 1 .. Len(ls) + 1 /\ j + 1 = x /\ ~(x <= j)
      BY <1>1, <2>3, <2>4
    <3> HIDE DEF Bad, j
    <3> QED
      BY <2>2, <3>1
  <2>6. Count(t, at[j] - 1) % 2 = 0
    BY <2>5
  <2> HIDE DEF Bad, j
  <2>7. LineAt(t, ls, at, j)
    BY <2>5, LineStands
  <2> DEFINE v == ls[j].text
             n == Len(v)
             b == at[j] - 1
  <2>8. /\ b \in Nat /\ n \in Nat \ {0} /\ at[x] - 1 = b + n
        /\ \A m \in 1 .. n : v[m] = t[b + m]
        /\ v[n] \in Eol /\ v \in Seq(Chars) /\ ls[j] \in GoodLines
    BY <2>5, <2>7, PartOfLine
  <2> HIDE DEF v, n, b
  <2>9. Count(t, b + n) = Count(t, b) + Count(v, n)
    <3>1. n \in Nat /\ n \in 0 .. n
      BY <2>8
    <3>2. Alike(t, b, v, n)
      BY <2>8, <3>1, CountPart
    <3> QED
      BY <3>1, <3>2 DEF Alike
  <2>10. Count(v, n) % 2 = 0
    <3>1. v[n] \notin High /\ n \in 1 .. Len(v)
      BY <2>8, CapsAssumption DEF Space, n
    <3>2. WholeCharacters(v)
      BY <2>5 DEF v
    <3> QED
      BY <3>1, <3>2 DEF WholeCharacters
  <2>11. Count(t, b) \in Nat /\ Count(v, n) \in Nat /\ Count(t, b) % 2 = 0
    BY <2>6, <2>8, CountIs DEF b
  <2>12. \A y, z \in Nat : y % 2 = 0 /\ z % 2 = 0 => (y + z) % 2 = 0
    OBVIOUS
  <2>13. Count(t, at[x] - 1) % 2 = 0
    BY <2>8, <2>9, <2>10, <2>11, <2>12, Zenon
  <2> QED
    BY <2>3, <2>13
<1>3. at[i] - 1 \in Nat
  <2>1. at[i] \in Nat /\ 1 \in 1 .. Len(ls) + 1
    BY <1>1 DEF Written, Laid
  <2>2. 1 < i => at[1] < at[i]
    BY <2>1, LinesAscend
  <2> QED
    BY <1>1, <2>1, <2>2
<1> QED
  BY <1>2, <1>3

\* So there are in front of every single-byte character of the file.
LEMMA WrittenWhole ==
    ASSUME NEW t, NEW ls, NEW at, Written(t, ls, at),
           \A j \in 1 .. Len(ls) : WholeCharacters(ls[j].text)
    PROVE  WholeCharacters(t)
<1> SUFFICES ASSUME NEW p \in 1 .. Len(t), t[p] \notin High
             PROVE  Count(t, p) % 2 = 0
  BY DEF WholeCharacters
<1>1. PICK i \in 1 .. Len(ls) : In(at, i, p)
  BY InSomeLine
<1>2. LineAt(t, ls, at, i)
  BY LineStands
<1> DEFINE v == ls[i].text
           n == Len(v)
           b == at[i] - 1
           m == p - b
<1>3. /\ b \in Nat /\ n \in Nat \ {0} /\ at[i + 1] - 1 = b + n
      /\ \A x \in 1 .. n : v[x] = t[b + x]
      /\ ls[i] \in GoodLines
  BY <1>2, PartOfLine
<1>4. i \in 1 .. Len(ls) + 1
  BY DEF Written, Laid
<1>5. Count(t, b) % 2 = 0
  BY <1>4, LinesWhole
<1>6. at[i] \in Nat /\ at[i + 1] \in Nat /\ at[i] <= p /\ p < at[i + 1]
  BY <1>1, <1>2 DEF In, LineAt
<1>7. m \in 1 .. n /\ b + m = p
  <2>1. b + 1 <= p /\ p <= b + n
    BY <1>3, <1>6
  <2> HIDE DEF b, n
  <2> QED
    BY <1>3, <2>1
<1> HIDE DEF v, n, b, m
<1>8. Count(t, b + m) = Count(t, b) + Count(v, m)
  <2>1. Alike(t, b, v, n) /\ m \in 0 .. n
    BY <1>3, <1>7, CountPart
  <2> QED
    BY <2>1 DEF Alike
<1>9. Count(v, m) % 2 = 0
  <2>1. v[m] \notin High /\ m \in 1 .. Len(v)
    BY <1>3, <1>7 DEF n
  <2>2. WholeCharacters(v)
    BY <1>3 DEF v
  <2> QED
    BY <2>1, <2>2 DEF WholeCharacters
<1>10. Count(t, b) \in Nat /\ Count(v, m) \in Nat
  BY SMTT(20), <1>3, <1>7, CountIs
<1>11. \A x, y \in Nat : x % 2 = 0 /\ y % 2 = 0 => (x + y) % 2 = 0
  OBVIOUS
<1>12. Count(t, p) = Count(t, b) + Count(v, m)
  BY <1>7, <1>8
<1> QED
  BY <1>5, <1>9, <1>10, <1>11, <1>12, Zenon

\* In a file its author has written line by line, in whole characters, no value
\* is cut inside one, except where the property says so.
THEOREM CutsInWrittenFiles ==
    ASSUME \A l \in Lines : WholeCharacters(l.text)
    PROVE  Spec => [](file # <<>> => CutsBetweenCharacters)
<1>1. Composed => (file # <<>> => WholeCharacters(disk))
  BY WrittenWhole DEF Composed
<1> QED
  BY <1>1, ComposedAlways, CutsBetweenCharactersHolds, PTL

-----------------------------------------------------------------------------
(* An item's line with blanks in front of it.                              *)

\* t is the line x behind blanks; x begins at a.
Indented(t, x, a) ==
    /\ t \in Seq(Chars) /\ x \in Seq(Chars) /\ Len(t) \in Nat /\ Len(x) \in Nat \ {0}
    /\ a \in Nat \ {0} /\ Len(t) + 1 = a + Len(x)
    /\ \A q \in 1 .. a - 1 : t[q] \in Blank
    /\ \A q \in 1 .. Len(x) : t[(a - 1) + q] = x[q]
    /\ x[Len(x)] \in Eol

\* The line stands in it.
LEMMA IndentedLine ==
    ASSUME NEW t, NEW x, NEW a, Indented(t, x, a)
    PROVE  LowerLine(t, x, a, Len(t) + 1) /\ LineOf(t, x, a, Len(t) + 1)
<1> DEFINE z == Len(t) + 1
           n == Len(x)
<1>1. /\ t \in Seq(Chars) /\ x \in Seq(Chars) /\ Len(t) \in Nat /\ n \in Nat \ {0}
      /\ a \in Nat \ {0} /\ z = a + n /\ Len(t) + 1 = z /\ z \in Nat
      /\ \A q \in 1 .. n : t[(a - 1) + q] = x[q]
      /\ x[n] \in Eol /\ DOMAIN t = 1 .. Len(t) /\ DOMAIN x = 1 .. n
  BY DEF Indented
<1> HIDE DEF z, n
<1>2. a \in 1 .. Len(t) /\ z \in a + 1 .. Len(t) + 1 /\ n = z - a /\ a < z
  BY <1>1
<1>3. ASSUME NEW q \in a .. z - 1
      PROVE  q \in 1 .. Len(t) /\ q + 1 - a \in 1 .. n /\ t[q] = x[q + 1 - a]
  <2> DEFINE r == q + 1 - a
  <2>1. r \in 1 .. n /\ (a - 1) + r = q /\ q \in 1 .. Len(t)
    BY <1>1, <1>2
  <2> HIDE DEF r
  <2>2. t[q] = x[r]
    BY <1>1, <2>1
  <2> QED
    BY <2>1, <2>2 DEF r
<1>4. /\ ToLower(t) \in Seq(Chars) /\ Len(ToLower(t)) = Len(t)
      /\ ToLower(x) \in Seq(Chars) /\ Len(ToLower(x)) = n
  BY <1>1, LowerIs DEF n
<1>5. ASSUME NEW q \in a .. z - 1
      PROVE  ToLower(t)[q] = ToLower(x)[q + 1 - a]
  BY <1>1, <1>3, LowerIs DEF n
<1>6. z - 1 \in a .. z - 1 /\ (z - 1) + 1 - a = n
  BY <1>1, <1>2
<1>7. t[z - 1] \in Eol /\ z - 1 \in 1 .. Len(t)
  BY <1>1, <1>3, <1>6
<1>8. ToLower(t)[z - 1] \in Eol
  <2>1. t[z - 1] \notin DOMAIN Caps
    BY <1>7, CapsAssumption DEF Space
  <2> QED
    BY <1>1, <1>7, <2>1, LowerIs
<1>9. LowerLine(t, x, a, z)
  BY <1>1, <1>2, <1>4, <1>5, <1>8 DEF LowerLine, n
<1>10. \A q \in a .. z - 1 : At(t, q) = At(x, q + 1 - a)
  BY <1>1, <1>3 DEF At
<1>11. At(t, z - 1) \in Eol
  BY <1>1, <1>7 DEF At
<1>12. LineOf(t, x, a, z)
  BY <1>1, <1>2, <1>10, <1>11 DEF LineOf, n
<1> QED
  BY <1>9, <1>12 DEF z

\* A word that begins with no space stands and is a mark where it was.
LEMMA IndentedMarks ==
    ASSUME NEW t, NEW x, NEW a, Indented(t, x, a), NEW w, Wordlike(w), w[1] \notin Space, NEW p \in Nat
    PROVE  /\ Occurs(ToLower(t), w, p) <=> p >= a /\ Occurs(ToLower(x), w, p + 1 - a)
           /\ Mark(ToLower(t), w, p) <=> p >= a /\ Mark(ToLower(x), w, p + 1 - a)
<1> DEFINE lt == ToLower(t)
           lx == ToLower(x)
           z == Len(t) + 1
           n == Len(w)
           r == p + 1 - a
<1>1. /\ Len(lt) = Len(t) /\ Len(t) \in Nat /\ Len(lx) = z - a /\ Len(x) = z - a
      /\ a \in 1 .. Len(t) /\ z \in a + 1 .. Len(t) + 1
      /\ \A q \in a .. z - 1 : lt[q] = lx[q + 1 - a]
      /\ DOMAIN lt = 1 .. Len(t) /\ DOMAIN lx = 1 .. Len(lx)
  BY IndentedLine DEF LowerLine
<1>2. n \in Nat \ {0} /\ DOMAIN w = 1 .. n /\ a \in Nat \ {0} /\ z \in Nat /\ z = Len(t) + 1
  BY <1>1 DEF Wordlike
<1>3. \A q \in 1 .. a - 1 : q \in 1 .. Len(t) /\ t[q] \in Blank /\ lt[q] = t[q]
  <2> SUFFICES ASSUME NEW q \in 1 .. a - 1
               PROVE  q \in 1 .. Len(t) /\ t[q] \in Blank /\ lt[q] = t[q]
    OBVIOUS
  <2>1. q \in 1 .. Len(t) /\ t[q] \in Blank /\ t \in Seq(Chars)
    BY <1>1, <1>2 DEF Indented
  <2>2. t[q] \notin DOMAIN Caps
    BY <2>1, CapsAssumption DEF Space
  <2> QED
    BY <2>1, <2>2, LowerIs
<1>4. Occurs(lt, w, p) => p \in a .. z - 1
  <2> SUFFICES ASSUME Occurs(lt, w, p)
               PROVE  p \in a .. z - 1
    OBVIOUS
  <2>1. p \in 1 .. Len(t) + 1 - n /\ lt[p + 1 - 1] = w[1]
    <3>1. p \in 1 .. Len(lt) + 1 - n /\ \A i \in 1 .. n : lt[p + i - 1] = w[i]
      BY <1>2 DEF Occurs
    <3> HIDE DEF lt, n
    <3> QED
      BY <1>1, <1>2, <3>1
  <2>2. p + 1 - 1 = p
    BY <2>1
  <2>3. lt[p] \notin Blank
    BY <2>1, <2>2 DEF Space
  <2> HIDE DEF lt, n
  <2>4. ~(p \in 1 .. a - 1)
    BY <1>3, <2>3
  <2> QED
    BY <1>1, <1>2, <2>1, <2>4
<1>5. Occurs(lx, w, r) => r \in 1 .. z - a
  BY <1>1, <1>2 DEF Occurs
<1>6. p >= a /\ r \in 1 .. z - a => p \in a .. z - 1
  BY <1>1, <1>2
<1>7. ASSUME p \in a .. z - 1
      PROVE  (Occurs(lt, w, p) <=> Occurs(lx, w, r)) /\ (Occurs(lt, w, p) => p + n < z)
  BY <1>7, IndentedLine, OccursInLine DEF SameOccurs
<1>8. Occurs(lt, w, p) <=> p >= a /\ Occurs(lx, w, r)
  <2>1. p \in a .. z - 1 => p >= a
    BY <1>2
  <2> HIDE DEF lt, lx, r, n, z
  <2> QED
    BY <1>4, <1>5, <1>6, <1>7, <2>1
<1>9. ASSUME Occurs(lt, w, p)
      PROVE  (p = 1 \/ At(lt, p - 1) \in Space) <=> (r = 1 \/ At(lx, r - 1) \in Space)
  <2>1. p \in a .. z - 1
    BY <1>4, <1>9
  <2> HIDE DEF lt, lx, z, n
  <2>2. CASE p = a
    <3>1. r = 1
      BY <1>2, <2>2
    <3>2. p # 1 => p - 1 \in 1 .. a - 1
      BY <1>2, <2>2
    <3>3. p # 1 => At(lt, p - 1) \in Space
      BY <1>1, <1>3, <3>2 DEF At, Space
    <3> QED
      BY <3>1, <3>3
  <2>3. CASE p # a
    <3> DEFINE s == p - 1
    <3>1. s \in a .. z - 1 /\ s \in 1 .. Len(t) /\ s + 1 - a = r - 1 /\ r - 1 \in 1 .. Len(lx) /\ r # 1 /\ p # 1
      BY <1>1, <1>2, <2>1, <2>3
    <3> HIDE DEF s, r
    <3>2. lt[s] = lx[r - 1]
      BY <1>1, <3>1
    <3>3. At(lt, s) = At(lx, r - 1)
      BY <1>1, <3>1, <3>2 DEF At
    <3> QED
      BY <3>1, <3>3 DEF s
  <2> QED
    BY <2>2, <2>3
<1>10. ASSUME Occurs(lt, w, p)
       PROVE  At(lt, p + n) = At(lx, r + n)
  <2> DEFINE s == p + n
  <2>1. p \in a .. z - 1 /\ p + n < z
    BY <1>4, <1>7, <1>10
  <2> HIDE DEF lt, lx, z, n
  <2>2. s \in a .. z - 1 /\ s \in 1 .. Len(t) /\ s + 1 - a = r + n /\ r + n \in 1 .. Len(lx)
    BY <1>1, <1>2, <2>1
  <2> HIDE DEF s, r
  <2>3. lt[s] = lx[r + n]
    BY <1>1, <2>2
  <2> QED
    BY <1>1, <2>2, <2>3 DEF At, s
<1>11. Mark(lt, w, p) <=> p >= a /\ Mark(lx, w, r)
  <2> HIDE DEF lt, lx, r
  <2> QED
    BY <1>8, <1>9, <1>10 DEF Mark, n
<1> QED
  BY <1>8, <1>11

\* A word's places in it stand apart if those in the line do.
LEMMA IndentedApart ==
    ASSUME NEW t, NEW x, NEW a, Indented(t, x, a), NEW w, Wordlike(w), w[1] \notin Space,
           Apart(ToLower(x), w)
    PROVE  Apart(ToLower(t), w)
<1> DEFINE lt == ToLower(t)
           lx == ToLower(x)
           n == Len(w)
<1>1. a \in Nat \ {0} /\ Len(x) \in Nat /\ Len(lx) = Len(x) /\ n \in Nat \ {0}
  BY LowerIs DEF Indented, Wordlike
<1> SUFFICES ASSUME NEW p \in 1 .. Len(lt), NEW q \in 1 .. Len(lt),
                    Occurs(lt, w, p), Occurs(lt, w, q), p < q
             PROVE  p + n < q
  BY DEF Apart
<1>2. /\ p >= a /\ Occurs(lx, w, p + 1 - a)
      /\ q >= a /\ Occurs(lx, w, q + 1 - a)
  <2> HIDE DEF lt, lx
  <2>1. p \in Nat /\ q \in Nat
    OBVIOUS
  <2> QED
    BY <2>1, IndentedMarks DEF lt, lx
<1> DEFINE u == p + 1 - a
           v == q + 1 - a
<1>3. u \in 1 .. Len(lx) /\ v \in 1 .. Len(lx)
  <2>1. Len(lx) \in Nat
    BY <1>1
  <2> QED
    BY <1>1, <1>2, <2>1, OccursIn
<1>4. u < v /\ (u + n < v => p + n < q)
  <2> HIDE DEF lt, n
  <2> QED
    BY <1>1, <1>2
<1> HIDE DEF u, v, lx, lt
<1>5. u + n < v
  BY <1>2, <1>3, <1>4 DEF Apart, lx, n, u, v
<1> QED
  BY <1>4, <1>5

\* A key has its "=" behind it where it had it.
LEMMA IndentedKey ==
    ASSUME NEW t, NEW x, NEW a, Indented(t, x, a), NEW k \in Keys, NEW p \in Nat
    PROVE  KeyMark(t, k, Len(t) + 1, p) <=> p >= a /\ KeyMark(x, k, Len(x) + 1, p + 1 - a)
<1> DEFINE lk == ToLower(k)
           n == Len(k)
           z == Len(t) + 1
           y == Len(x)
           r == p + 1 - a
<1>1. Wordlike(lk) /\ Len(lk) = n /\ lk[1] \notin Space /\ n \in Nat \ {0}
  <2>1. Wordlike(lk) /\ Len(lk) = n /\ lk[1] \notin Space
    BY KeyWordlike, LinesAssumption
  <2> QED
    BY <2>1 DEF Wordlike
<1>2. Mark(ToLower(t), lk, p) <=> p >= a /\ Mark(ToLower(x), lk, r)
  BY <1>1, IndentedMarks
<1>3. LowerLine(t, x, a, z) /\ LineOf(t, x, a, z)
  BY IndentedLine
<1>4. a \in Nat \ {0} /\ z \in Nat /\ y \in Nat /\ z = a + y /\ Len(t) \in Nat /\ z = Len(t) + 1
  BY DEF Indented
<1> HIDE DEF z, y, n, lk, r
<1>5. ASSUME p >= a, Mark(ToLower(x), lk, r)
      PROVE  p + n \in a .. z - 1 /\ (p + n) + 1 - a = r + n /\ r + n \in Nat
  <2>1. r \in 1 .. y + 1 - n
    <3>1. Len(ToLower(x)) = y
      BY LowerIs DEF Indented, y
    <3> QED
      BY <1>1, <1>5, <3>1 DEF Mark, Occurs
  <2>2. r + n # y + 1
    <3> SUFFICES ASSUME r + n = y + 1
                 PROVE  FALSE
      OBVIOUS
    <3>1. r + n \in 1 .. y + 1
      BY <1>1, <1>4, <2>1
    <3>2. Occurs(ToLower(x), lk, r)
      BY <1>5 DEF Mark
    <3>3. p \in a .. z - 1
      BY <1>1, <1>4, <2>1 DEF r
    <3>4. p + Len(lk) < z
      BY <1>1, <1>3, <3>2, <3>3, OccursInLine DEF SameOccurs, r
    <3> QED
      BY <1>1, <1>4, <3>4, <3>3 DEF r
  <2> QED
    BY <1>1, <1>4, <2>1, <2>2 DEF r
<1>6. ASSUME p >= a, Mark(ToLower(x), lk, r)
      PROVE  (\E e \in 1 .. z - 1 : EqualsAt(t, p + n, z, e)) <=>
             (\E e \in 1 .. (y + 1) - 1 : EqualsAt(x, r + n, y + 1, e))
  <2> DEFINE s == p + n
             u == r + n
  <2>1. s \in a .. z - 1 /\ s + 1 - a = u /\ u \in Nat
    BY <1>5, <1>6
  <2> HIDE DEF s, u
  <2>2. ASSUME NEW e \in Nat
        PROVE  EqualsAt(t, s, z, e) <=>
                 e \in a .. z - 1 /\ EqualsAt(x, u, y + 1, e + 1 - a)
    <3>1. z <= z
      BY <1>4
    <3> QED
      BY <1>3, <1>4, <2>1, <3>1, EqualsInLine DEF y
  <2>3. ASSUME NEW e \in 1 .. z - 1, EqualsAt(t, s, z, e)
        PROVE  \E d \in 1 .. (y + 1) - 1 : EqualsAt(x, u, y + 1, d)
    <3>1. e \in a .. z - 1 /\ EqualsAt(x, u, y + 1, e + 1 - a)
      BY <2>2, <2>3
    <3>2. e + 1 - a \in 1 .. (y + 1) - 1
      BY <1>4, <3>1
    <3> QED
      BY <3>1, <3>2
  <2>4. ASSUME NEW d \in 1 .. (y + 1) - 1, EqualsAt(x, u, y + 1, d)
        PROVE  \E e \in 1 .. z - 1 : EqualsAt(t, s, z, e)
    <3> DEFINE e == (a - 1) + d
    <3>1. e \in a .. z - 1 /\ e \in 1 .. z - 1 /\ e + 1 - a = d /\ e \in Nat
      BY <1>4
    <3> HIDE DEF e
    <3> QED
      BY <2>2, <2>4, <3>1
  <2> QED
    BY <2>3, <2>4 DEF s, u
<1>7. KeyMark(t, k, z, p) <=> Mark(ToLower(t), lk, p) /\ \E e \in 1 .. z - 1 : EqualsAt(t, p + n, z, e)
  BY DEF KeyMark, lk, n
<1>8. KeyMark(x, k, y + 1, r) <=>
        Mark(ToLower(x), lk, r) /\ \E e \in 1 .. (y + 1) - 1 : EqualsAt(x, r + n, y + 1, e)
  BY DEF KeyMark, lk, n
<1>9. KeyMark(t, k, z, p) <=> p >= a /\ KeyMark(x, k, y + 1, r)
  BY <1>2, <1>6, <1>7, <1>8
<1> QED
  BY <1>9 DEF z, y, r

\* And it is the same item.
LEMMA IndentedItem ==
    ASSUME NEW t, NEW x, NEW a, Indented(t, x, a), NEW k \in Keys, NEW value, IsItem(x, k, value)
    PROVE  IsItem(t, k, value)
<1> DEFINE lk == ToLower(k)
           n == Len(k)
           y == Len(x)
           d == a - 1
           L == Len(t)
<1>1. /\ t \in Seq(Chars) /\ x \in Seq(Chars) /\ L \in Nat /\ y \in Nat \ {0}
      /\ a \in Nat \ {0} /\ d \in Nat /\ L = d + y /\ d + 1 = a
      /\ \A q \in 1 .. d : t[q] \in Blank
      /\ \A q \in 1 .. y : t[d + q] = x[q]
  BY DEF Indented
<1>2. Wordlike(lk) /\ Len(lk) = n /\ lk[1] \notin Space /\ n \in Nat \ {0}
  <2>1. Wordlike(lk) /\ Len(lk) = n /\ lk[1] \notin Space
    BY KeyWordlike, LinesAssumption
  <2> QED
    BY <2>1 DEF Wordlike
<1>3. PICK p \in 1 .. y, e \in 1 .. y, b \in 1 .. y, z \in 1 .. y :
       /\ \A q \in 1 .. p - 1 : x[q] \in Blank
       /\ Mark(ToLower(x), lk, p) /\ EqualsAt(x, p + n, y + 1, e)
       /\ e < b /\ \A q \in e + 1 .. b - 1 : x[q] \in Blank
       /\ x[b] \notin Blank /\ b <= z /\ \A q \in b .. z : x[q] \in Eol <=> q = z
       /\ value = SubSeq(x, b, z - 1)
  BY DEF IsItem
<1>4. LineOf(t, x, a, L + 1)
  BY IndentedLine
<1> HIDE DEF L, y, n, d, lk
<1>5. L \in Nat /\ y \in Nat \ {0} /\ a \in Nat \ {0} /\ d \in Nat /\ L = d + y /\ d + 1 = a
  BY <1>1
<1>6. ASSUME NEW q \in 1 .. y
      PROVE  d + q \in 1 .. L /\ d + q \in a .. (L + 1) - 1 /\ (d + q) + 1 - a = q /\ d + q \in Nat
  BY <1>5
<1>7. \A q \in 1 .. (d + p) - 1 : t[q] \in Blank
  <2> SUFFICES ASSUME NEW q \in 1 .. (d + p) - 1
               PROVE  t[q] \in Blank
    OBVIOUS
  <2>1. CASE q <= d
    BY <1>1, <2>1
  <2>2. CASE q > d
    <3> DEFINE r == q - d
    <3>1. r \in 1 .. p - 1 /\ r \in 1 .. y /\ d + r = q
      BY <1>5, <2>2
    <3> HIDE DEF r
    <3>2. t[d + r] = x[r] /\ x[r] \in Blank
      BY <1>1, <1>3, <3>1
    <3> QED
      BY <3>1, <3>2
  <2> QED
    BY <1>5, <2>1, <2>2
<1>8. Mark(ToLower(t), lk, d + p)
  <2> DEFINE q == d + p
  <2>1. q \in Nat /\ q >= a /\ q + 1 - a = p
    BY <1>5
  <2> HIDE DEF q
  <2> QED
    BY <1>2, <1>3, <2>1, IndentedMarks DEF q
<1>9. EqualsAt(t, (d + p) + n, L + 1, d + e)
  <2>1. p + n \in 1 .. y
    <3>1. e \in p + n .. (y + 1) - 1
      BY <1>3, Zenon DEF EqualsAt
    <3> QED
      BY <1>5, <1>2, <3>1
  <2> DEFINE s == (d + p) + n
             u == d + e
  <2>2. /\ s \in a .. (L + 1) - 1 /\ s + 1 - a = p + n
        /\ u \in a .. (L + 1) - 1 /\ u + 1 - a = e /\ u \in Nat
    BY <1>5, <1>2, <2>1
  <2> HIDE DEF s, u
  <2>3. EqualsAt(t, s, L + 1, u) <=>
          u \in a .. (L + 1) - 1 /\ EqualsAt(x, s + 1 - a, Len(x) + 1, u + 1 - a)
    <3>1. L + 1 \in Nat /\ L + 1 <= L + 1
      BY <1>5
    <3> QED
      BY <1>4, <2>2, <3>1, EqualsInLine
  <2> QED
    BY <1>3, <2>2, <2>3 DEF s, u, y
<1>10. d + e < d + b /\ \A q \in (d + e) + 1 .. (d + b) - 1 : t[q] \in Blank
  <2>1. d + e < d + b
    BY <1>1, <1>3
  <2> SUFFICES ASSUME NEW q \in (d + e) + 1 .. (d + b) - 1
               PROVE  t[q] \in Blank
    BY <2>1
  <2> DEFINE r == q - d
  <2>2. r \in e + 1 .. b - 1 /\ r \in 1 .. y /\ d + r = q
    BY <1>5
  <2> HIDE DEF r
  <2>3. t[d + r] = x[r] /\ x[r] \in Blank
    BY <1>1, <1>3, <2>2
  <2> QED
    BY <2>2, <2>3
<1>11. /\ t[d + b] \notin Blank /\ d + b <= d + z
       /\ \A q \in d + b .. d + z : t[q] \in Eol <=> q = d + z
  <2>1. t[d + b] \notin Blank
    BY <1>1, <1>3
  <2>2. d + b <= d + z
    BY <1>1, <1>3
  <2> SUFFICES ASSUME NEW q \in d + b .. d + z
               PROVE  t[q] \in Eol <=> q = d + z
    BY <2>1, <2>2
  <2> DEFINE r == q - d
  <2>3. r \in b .. z /\ r \in 1 .. y /\ d + r = q /\ (r = z <=> q = d + z)
    BY <1>5
  <2> HIDE DEF r
  <2>4. t[d + r] = x[r] /\ (x[r] \in Eol <=> r = z)
    BY <1>1, <1>3, <2>3
  <2> QED
    BY <2>3, <2>4
<1>12. value = SubSeq(t, d + b, (d + z) - 1)
  <2> DEFINE i1 == z - 1
             b2 == d + b
             i2 == (d + z) - 1
             v == SubSeq(x, b, i1)
             w == SubSeq(t, b2, i2)
             m == z - b
  <2>1. /\ b \in Nat /\ i1 \in Nat /\ 1 <= b /\ b <= i1 + 1 /\ i1 <= y
        /\ m \in Nat /\ i1 + 1 - b = m
    BY <1>1, <1>3
  <2>2. /\ b2 \in Nat /\ i2 \in Nat /\ 1 <= b2 /\ b2 <= i2 + 1
        /\ i2 <= L /\ i2 + 1 - b2 = m
    BY <1>1, <1>3
  <2> HIDE DEF m, i1, i2, b2
  <2>3. v \in Seq(Chars) /\ Len(v) = m /\ \A i \in 1 .. m : v[i] = x[b + i - 1]
    <3>1. x \in Seq(Chars) /\ i1 <= Len(x)
      BY <1>1, <2>1 DEF y
    <3> QED
      BY <2>1, <3>1, PartIs
  <2>4. w \in Seq(Chars) /\ Len(w) = m /\ \A i \in 1 .. m : w[i] = t[b2 + i - 1]
    <3>1. t \in Seq(Chars) /\ i2 <= Len(t)
      BY <1>1, <2>2 DEF L
    <3> QED
      BY <2>2, <3>1, PartIs
  <2> HIDE DEF v, w
  <2>5. ASSUME NEW i \in 1 .. m
        PROVE  v[i] = w[i]
    <3> DEFINE r == b + i - 1
    <3>1. r \in 1 .. y /\ d + r = b2 + i - 1
      BY <1>1, <2>1 DEF b2
    <3> HIDE DEF r
    <3>2. t[d + r] = x[r]
      BY <1>1, <3>1
    <3> QED
      BY <2>3, <2>4, <3>1, <3>2 DEF r
  <2>6. v = w
    BY <2>3, <2>4, <2>5, SameText
  <2> QED
    BY <1>3, <2>6 DEF v, w, i1, i2, b2
<1>13. \E p2, e2, b2, z2 \in 1 .. L :
       /\ \A q \in 1 .. p2 - 1 : t[q] \in Blank
       /\ Mark(ToLower(t), lk, p2) /\ EqualsAt(t, p2 + n, L + 1, e2)
       /\ e2 < b2 /\ \A q \in e2 + 1 .. b2 - 1 : t[q] \in Blank
       /\ t[b2] \notin Blank /\ b2 <= z2 /\ \A q \in b2 .. z2 : t[q] \in Eol <=> q = z2
       /\ value = SubSeq(t, b2, z2 - 1)
  <2> /\ d + p \in 1 .. L /\ d + e \in 1 .. L
      /\ d + b \in 1 .. L /\ d + z \in 1 .. L
    BY <1>6
  <2> WITNESS d + p \in 1 .. L, d + e \in 1 .. L, d + b \in 1 .. L, d + z \in 1 .. L
  <2> QED
    BY <1>6, <1>7, <1>8, <1>9, <1>10, <1>11, <1>12
<1> QED
  BY <1>13 DEF IsItem, L, n, lk

\* An item's line stays well written behind blanks.
LEMMA IndentedGood ==
    ASSUME NEW l \in GoodLines, l.header = <<>>, NEW t, NEW a, Indented(t, l.text, a)
    PROVE  Item(l.key, l.value, t) \in GoodLines
<1> DEFINE x == l.text
           L == Len(t)
           y == Len(x)
           d == a - 1
           new == Item(l.key, l.value, t)
<1>1. /\ t \in Seq(Chars) /\ x \in Seq(Chars) /\ L \in Nat /\ y \in Nat \ {0}
      /\ a \in Nat \ {0} /\ d \in Nat /\ L = d + y /\ d + 1 = a
      /\ \A q \in 1 .. d : t[q] \in Blank
      /\ \A q \in 1 .. y : t[d + q] = x[q]
  BY DEF Indented
<1>2. /\ WellWritten(l)
      /\ l.key \in Seq(Chars) /\ l.value \in Seq(Chars)
  BY DEF GoodLines
<1>3. new.header = <<>> /\ new.key = l.key /\ new.value = l.value /\ new.text = t
  BY DEF Item
<1>4. new \in [header: Seq(Chars), key: Seq(Chars), value: Seq(Chars), text: Seq(Chars)]
  <2>1. <<>> \in Seq(Chars)
    OBVIOUS
  <2> QED
    BY <1>1, <1>2, <2>1 DEF Item
<1> HIDE DEF new
<1>5. ASSUME NEW z \in 1 .. y, \A i \in 1 .. y : x[i] \in Eol <=> i >= z
      PROVE  \E u \in 1 .. L : \A i \in 1 .. L : t[i] \in Eol <=> i >= u
  <2> HIDE DEF L, y, d
  <2>1. d + z \in 1 .. L
    BY <1>1
  <2>2. ASSUME NEW i \in 1 .. L
        PROVE  t[i] \in Eol <=> i >= d + z
    <3>1. CASE i <= d
      <4>1. t[i] \in Blank /\ ~(i >= d + z)
        BY <1>1, <3>1
      <4> QED
        BY <4>1 DEF Blank, Eol
    <3>2. CASE i > d
      <4> DEFINE r == i - d
      <4>1. r \in 1 .. y /\ d + r = i /\ (r >= z <=> i >= d + z)
        BY <1>1, <3>2
      <4> HIDE DEF r
      <4>2. t[d + r] = x[r]
        BY <1>1, <4>1
      <4> QED
        BY <1>5, <4>1, <4>2
    <3> QED
      BY <1>1, <3>1, <3>2
  <2> QED
    BY <2>1, <2>2
<1>6. \E z \in 1 .. y : \A i \in 1 .. y : x[i] \in Eol <=> i >= z
  BY <1>2 DEF WellWritten
<1>7. ~\E r \in 1 .. y : x[r] = "[" /\ \A q \in 1 .. r - 1 : x[q] \in Blank
  BY <1>2 DEF WellWritten
<1>8. ~\E r \in 1 .. L : t[r] = "[" /\ \A q \in 1 .. r - 1 : t[q] \in Blank
  <2> HIDE DEF L, y, d, x
  <2> SUFFICES ASSUME NEW r \in 1 .. L, t[r] = "[", \A q \in 1 .. r - 1 : t[q] \in Blank
               PROVE  FALSE
    OBVIOUS
  <2>1. r > d
    <3> SUFFICES ASSUME r <= d
                 PROVE  FALSE
      BY <1>1
    <3>1. t[r] \in Blank
      BY <1>1
    <3> QED
      BY <3>1 DEF Blank
  <2> DEFINE p == r - d
  <2>2. p \in 1 .. y /\ d + p = r
    BY <1>1, <2>1
  <2> HIDE DEF p
  <2>3. x[p] = "["
    BY <1>1, <2>2
  <2>4. ASSUME NEW q \in 1 .. p - 1
        PROVE  x[q] \in Blank
    <3>1. q \in 1 .. y /\ d + q \in 1 .. r - 1
      BY <1>1, <2>2
    <3> QED
      BY <1>1, <3>1
  <2> QED
    BY <1>7, <2>2, <2>3, <2>4
<1>9. ASSUME NEW s \in Sections
      PROVE  /\ Apart(ToLower(t), HeaderWord(s))
             /\ <<>> = s <=> \E p \in 1 .. L : Mark(ToLower(t), HeaderWord(s), p)
  <2> DEFINE w == HeaderWord(s)
  <2>1. Wordlike(w) /\ w[1] \notin Space
    <3>1. Wordlike(w) /\ w[1] = "["
      BY HeaderWordlike
    <3> QED
      BY <3>1 DEF Space, Eol, Blank
  <2>2. Apart(ToLower(x), w) /\ ~\E p \in 1 .. y : Mark(ToLower(x), w, p)
    <3>1. Apart(ToLower(x), w) /\ (<<>> = s <=> \E p \in 1 .. y : Mark(ToLower(x), w, p))
      BY <1>2 DEF WellWritten
    <3>2. <<>> # s
      BY TextsAssumption
    <3> QED
      BY <3>1, <3>2
  <2> HIDE DEF w
  <2>3. Apart(ToLower(t), w)
    BY <2>1, <2>2, IndentedApart DEF x
  <2>4. ASSUME NEW p \in 1 .. L, Mark(ToLower(t), w, p)
        PROVE  FALSE
    <3>1. p \in Nat /\ Indented(t, x, a)
      BY <1>1
    <3> HIDE DEF x
    <3>2. p >= a /\ Mark(ToLower(x), w, p + 1 - a)
      BY <2>1, <2>4, <3>1, IndentedMarks
    <3> HIDE DEF L, y, d
    <3>3. p + 1 - a \in 1 .. y
      BY <1>1, <3>2
    <3> QED
      BY <2>2, <3>2, <3>3
  <2>5. <<>> # s
    BY TextsAssumption
  <2> QED
    BY <2>3, <2>4, <2>5 DEF w
<1>10. ASSUME NEW k \in Keys
       PROVE  /\ Apart(ToLower(t), ToLower(k))
              /\ l.key # k => \A p \in 1 .. L : ~KeyMark(t, k, L + 1, p)
              /\ l.key = k => IsItem(t, k, l.value) /\ Cut(l.value, BufSize) = l.value
  <2>1. /\ Apart(ToLower(x), ToLower(k))
        /\ l.key # k => \A p \in 1 .. y : ~KeyMark(x, k, y + 1, p)
        /\ l.key = k => IsItem(x, k, l.value) /\ Cut(l.value, BufSize) = l.value
    BY <1>2 DEF WellWritten
  <2>2. Indented(t, x, a)
    OBVIOUS
  <2> HIDE DEF x
  <2>3. Apart(ToLower(t), ToLower(k))
    <3>1. Wordlike(ToLower(k)) /\ ToLower(k)[1] \notin Space
      BY KeyWordlike, LinesAssumption
    <3> QED
      BY <2>1, <2>2, <3>1, IndentedApart
  <2>4. ASSUME l.key # k, NEW p \in 1 .. L, KeyMark(t, k, L + 1, p)
        PROVE  FALSE
    <3>1. p \in Nat
      BY <1>1
    <3>2. p >= a /\ KeyMark(x, k, Len(x) + 1, p + 1 - a)
      BY <2>2, <2>4, <3>1, IndentedKey
    <3>3. KeyMark(x, k, y + 1, p + 1 - a)
      BY <3>2
    <3> HIDE DEF L, y, d
    <3>4. p + 1 - a \in 1 .. y
      BY <1>1, <3>2
    <3> QED
      BY <2>1, <2>4, <3>3, <3>4
  <2>5. l.key = k => IsItem(t, k, l.value)
    BY <2>1, <2>2, IndentedItem
  <2> QED
    BY <2>1, <2>3, <2>4, <2>5
<1> HIDE DEF x, y
<1>11. WellWritten(new)
  <2> DEFINE u == new.text
             n == Len(u)
  <2>1. u = t /\ n = L /\ new.header = <<>> /\ new.key = l.key /\ new.value = l.value
    BY <1>3
  <2> HIDE DEF u, n, L
  <2>2. \E z \in 1 .. n : \A i \in 1 .. n : u[i] \in Eol <=> i >= z
    BY <1>5, <1>6, <2>1
  <2>3. new.header # <<>> <=> \E r \in 1 .. n : u[r] = "[" /\ \A q \in 1 .. r - 1 : u[q] \in Blank
    BY <1>8, <2>1
  <2>4. \A s \in Sections :
             /\ Apart(ToLower(u), HeaderWord(s))
             /\ new.header = s <=> \E p \in 1 .. n : Mark(ToLower(u), HeaderWord(s), p)
    BY <1>9, <2>1
  <2>5. \A k \in Keys :
             /\ Apart(ToLower(u), ToLower(k))
             /\ new.header = <<>> /\ new.key # k => \A p \in 1 .. n : ~KeyMark(u, k, n + 1, p)
             /\ new.header = <<>> /\ new.key = k =>
                  IsItem(u, k, new.value) /\ Cut(new.value, BufSize) = new.value
    BY <1>10, <2>1
  <2> QED
    BY <2>2, <2>3, <2>4, <2>5 DEF WellWritten, u, n
<1> QED
  BY <1>4, <1>11 DEF GoodLines, new

-----------------------------------------------------------------------------
(* A line put in place of lines.                                           *)

\* The lines with those from c up to and without d replaced by one line.
Swapped(ls, c, d, l) ==
    [i \in 1 .. (Len(ls) + c + 1) - d |->
        IF i < c THEN ls[i] ELSE IF i = c THEN l ELSE ls[(i + d) - (c + 1)]]

\* ls2 are lines, and which of them is where.
Replacing(ls, c, d, l, ls2) ==
    /\ ls2 \in Seq(GoodLines)
    /\ Len(ls2) = (Len(ls) + c + 1) - d
    /\ \A i \in 1 .. c - 1 : ls2[i] = ls[i]
    /\ ls2[c] = l
    /\ \A i \in d .. Len(ls) : ls2[(i + c + 1) - d] = ls[i]

\* They are.
LEMMA SwappedIs ==
    ASSUME NEW ls \in Seq(GoodLines), NEW c \in 1 .. Len(ls) + 1, NEW d \in c .. Len(ls) + 1,
           NEW l \in GoodLines
    PROVE  Replacing(ls, c, d, l, Swapped(ls, c, d, l))
<1> DEFINE n == Len(ls)
           m == (n + c + 1) - d
           new == Swapped(ls, c, d, l)
<1>1. /\ n \in Nat /\ c \in Nat \ {0} /\ d \in Nat /\ c <= d /\ d <= n + 1 /\ m \in Nat \ {0}
      /\ c <= m /\ \A i \in 1 .. n : ls[i] \in GoodLines
  OBVIOUS
<1>2. new = [i \in 1 .. m |-> IF i < c THEN ls[i] ELSE IF i = c THEN l ELSE ls[(i + d) - (c + 1)]]
  BY DEF Swapped
<1> HIDE DEF n, new
<1>3. ASSUME NEW i \in 1 .. m
      PROVE  new[i] \in GoodLines
  <2>1. CASE i < c
    <3>1. i \in 1 .. n
      BY <1>1, <2>1
    <3> QED
      BY <1>1, <1>2, <2>1, <3>1
  <2>2. CASE i = c
    <3>1. ~(i < c)
      BY <1>1, <2>2
    <3> QED
      BY <1>2, <2>2, <3>1
  <2>3. CASE i > c
    <3>1. (i + d) - (c + 1) \in 1 .. n /\ ~(i < c) /\ i # c
      BY <1>1, <2>3
    <3> QED
      BY <1>1, <1>2, <3>1
  <2> QED
    BY <1>1, <2>1, <2>2, <2>3
<1>4. new \in Seq(GoodLines) /\ Len(new) = m
  <2>1. new = [i \in 1 .. m |-> new[i]]
    BY <1>2
  <2>2. new \in [1 .. m -> GoodLines]
    BY <1>3, <2>1
  <2> HIDE DEF m
  <2>3. DOMAIN new = 1 .. m
    BY <2>2
  <2>4. new \in Seq(GoodLines)
    BY <1>1, <2>2
  <2>5. Len(new) \in Nat /\ DOMAIN new = 1 .. Len(new)
    BY <2>4
  <2> QED
    BY <1>1, <2>3, <2>4, <2>5
<1>5. \A i \in 1 .. c - 1 : new[i] = ls[i]
  BY <1>1, <1>2
<1>6. new[c] = l
  BY <1>1, <1>2
<1>7. ASSUME NEW i \in d .. n
      PROVE  new[(i + c + 1) - d] = ls[i]
  <2> DEFINE j == (i + c + 1) - d
  <2>1. j \in 1 .. m /\ ~(j < c) /\ j # c /\ (j + d) - (c + 1) = i
    BY <1>1
  <2> HIDE DEF j
  <2>2. new[j] = ls[i]
    BY <1>2, <2>1
  <2> QED
    BY <2>2 DEF j
<1> QED
  BY <1>4, <1>5, <1>6, <1>7 DEF n, new, Replacing

\* A line put in the place of others is written among the rest.
LEMMA LinesReplaced ==
    ASSUME NEW t, NEW ls, NEW at, Written(t, ls, at),
           NEW c \in 1 .. Len(ls) + 1, NEW d \in c .. Len(ls) + 1, NEW l \in GoodLines,
           NEW new, Spliced(t, [begin |-> at[c], end |-> at[d]], l.text, new)
    PROVE  \E at2 : Written(new, Swapped(ls, c, d, l), at2)
<1> DEFINE n == Len(ls)
           m == (n + c + 1) - d
           x == l.text
           y == Len(x)
           L == Len(t)
           ac == at[c]
           ad == at[d]
           ls2 == Swapped(ls, c, d, l)
           at2 == [i \in 1 .. m + 1 |->
                     IF i <= c THEN at[i] ELSE (at[(i + d) - (c + 1)] + ac + y) - ad]
<1>1. /\ t \in Seq(Chars) /\ ls \in Seq(GoodLines) /\ n \in Nat /\ L \in Nat
      /\ at \in [1 .. n + 1 -> Nat] /\ at[1] = 1 /\ at[n + 1] = L + 1
  BY DEF Written, Laid
<1>2. c \in Nat \ {0} /\ d \in Nat /\ c <= d /\ d <= n + 1 /\ c \in 1 .. n + 1 /\ d \in 1 .. n + 1
  BY <1>1
<1>3. x \in Seq(Chars) /\ y \in Nat \ {0}
  BY LineIs
<1>4. /\ ls2 \in Seq(GoodLines) /\ Len(ls2) = m
      /\ \A i \in 1 .. c - 1 : ls2[i] = ls[i]
      /\ ls2[c] = l
      /\ \A i \in d .. n : ls2[(i + c + 1) - d] = ls[i]
  <2>1. ls \in Seq(GoodLines)
    BY <1>1
  <2>2. Replacing(ls, c, d, l, ls2)
    BY <2>1, SwappedIs
  <2> HIDE DEF ls2
  <2>3. /\ ls2 \in Seq(GoodLines) /\ Len(ls2) = (Len(ls) + c + 1) - d
        /\ \A i \in 1 .. c - 1 : ls2[i] = ls[i]
        /\ ls2[c] = l
        /\ \A i \in d .. Len(ls) : ls2[(i + c + 1) - d] = ls[i]
    BY <2>2, Zenon DEF Replacing
  <2>4. n = Len(ls) /\ m = (Len(ls) + c + 1) - d
    OBVIOUS
  <2> HIDE DEF n, m
  <2> QED
    BY <2>3, <2>4
<1>5. /\ new \in Seq(Chars)
      /\ Len(new) = L + y - (ad - ac)
      /\ \A q \in 1 .. ac - 1 : new[q] = t[q]
      /\ \A q \in 1 .. y : new[(ac - 1) + q] = x[q]
      /\ \A q \in 0 .. L - ad : new[ac + y + q] = t[ad + q]
  <2> DEFINE r == [begin |-> at[c], end |-> at[d]]
  <2>1. r.begin = ac /\ r.end = ad
    OBVIOUS
  <2>2. Spliced(t, r, x, new)
    OBVIOUS
  <2> HIDE DEF r, ac, ad, x
  <2>3. /\ new \in Seq(Chars)
        /\ Len(new) = L + y - (r.end - r.begin)
        /\ \A q \in 1 .. r.begin - 1 : new[q] = t[q]
        /\ \A q \in 1 .. y : new[r.begin - 1 + q] = x[q]
        /\ \A q \in 0 .. L - r.end : new[r.begin + y + q] = t[r.end + q]
    BY <2>2 DEF Spliced
  <2> HIDE DEF y, L
  <2> QED
    BY <2>1, <2>3
<1>6. /\ ac \in Nat \ {0} /\ ad \in Nat /\ ac <= ad /\ ad <= L + 1
      /\ \A i \in d .. n + 1 : at[i] \in Nat /\ ad <= at[i]
      /\ \A i \in 1 .. c : at[i] \in Nat /\ 1 <= at[i] /\ at[i] <= ac
  <2>1. ASSUME NEW i \in 1 .. n + 1, NEW j \in 1 .. n + 1, i <= j
        PROVE  at[i] <= at[j] /\ at[i] \in Nat /\ at[j] \in Nat
    <3>1. at[i] \in Nat /\ at[j] \in Nat
      BY <1>1
    <3>2. CASE i = j
      BY <3>1, <3>2
    <3>3. CASE i < j
      BY <3>1, <3>3, LinesAscend
    <3> QED
      BY <1>1, <2>1, <3>1, <3>2, <3>3
  <2>2. 1 \in 1 .. n + 1 /\ n + 1 \in 1 .. n + 1
    BY <1>1
  <2> HIDE DEF n
  <2>3. ac \in Nat /\ ad \in Nat /\ 1 <= ac /\ ac <= ad /\ ad <= L + 1
    BY <1>1, <1>2, <2>1, <2>2
  <2>4. ASSUME NEW i \in d .. n + 1
        PROVE  at[i] \in Nat /\ ad <= at[i]
    <3>1. i \in 1 .. n + 1 /\ d <= i
      BY <1>1, <1>2
    <3> QED
      BY <1>2, <2>1, <3>1
  <2>5. ASSUME NEW i \in 1 .. c
        PROVE  at[i] \in Nat /\ 1 <= at[i] /\ at[i] <= ac
    <3>1. i \in 1 .. n + 1 /\ i <= c /\ 1 <= i
      BY <1>1, <1>2
    <3> QED
      BY <1>1, <1>2, <2>1, <2>2, <3>1
  <2> QED
    BY <2>3, <2>4, <2>5
<1>7. ASSUME NEW i \in 1 .. n
      PROVE  /\ ls[i].text \in Seq(Chars) /\ Len(ls[i].text) \in Nat
             /\ at[i] \in Nat /\ at[i + 1] \in Nat
             /\ at[i + 1] = at[i] + Len(ls[i].text)
             /\ \A j \in 1 .. Len(ls[i].text) : t[at[i] + j - 1] = ls[i].text[j]
  <2>1. ls[i] \in GoodLines
    BY <1>1
  <2>2. ls[i].text \in Seq(Chars) /\ Len(ls[i].text) \in Nat
    BY <2>1, LineIs
  <2>3. at[i] \in Nat /\ at[i + 1] \in Nat
    <3>1. at \in [1 .. n + 1 -> Nat] /\ n \in Nat
      BY <1>1
    <3> HIDE DEF n
    <3>2. i \in 1 .. n + 1 /\ i + 1 \in 1 .. n + 1
      BY <3>1
    <3> QED
      BY <3>1, <3>2
  <2>4. Laid(t, ls, at)
    BY DEF Written
  <2>5. /\ at[i + 1] = at[i] + Len(ls[i].text)
        /\ \A j \in 1 .. Len(ls[i].text) : t[at[i] + j - 1] = ls[i].text[j]
    BY <2>4, Zenon DEF Laid
  <2> QED
    BY <2>2, <2>3, <2>5
<1>8. m \in Nat \ {0} /\ c <= m
  BY <1>1, <1>2
<1>9. at2 = [i \in 1 .. m + 1 |-> IF i <= c THEN at[i] ELSE (at[(i + d) - (c + 1)] + ac + y) - ad]
  OBVIOUS
<1> HIDE DEF n, L, y, x, ac, ad, at2, ls2
<1>10. /\ \A i \in 1 .. c : at2[i] = at[i]
       /\ \A i \in d .. n + 1 : at2[(i + c + 1) - d] = (at[i] + ac + y) - ad
  <2>1. ASSUME NEW i \in 1 .. c
        PROVE  at2[i] = at[i]
    <3>1. i \in 1 .. m + 1 /\ i <= c
      BY <1>2, <1>8
    <3> HIDE DEF m
    <3> QED
      BY <1>9, <3>1
  <2>2. ASSUME NEW i \in d .. n + 1
        PROVE  at2[(i + c + 1) - d] = (at[i] + ac + y) - ad
    <3> DEFINE j == (i + c + 1) - d
    <3>1. j \in 1 .. m + 1 /\ ~(j <= c) /\ (j + d) - (c + 1) = i
      BY <1>1, <1>2
    <3> HIDE DEF j, m
    <3>2. at2[j] = (at[i] + ac + y) - ad
      BY <1>9, <3>1
    <3> QED
      BY <3>2 DEF j
  <2> QED
    BY <2>1, <2>2
<1>11. ASSUME NEW i \in 1 .. m + 1
       PROVE  at2[i] \in Nat
  <2>1. CASE i <= c
    <3>1. i \in 1 .. c
      BY <1>2, <2>1
    <3> QED
      BY <1>6, <1>10, <3>1
  <2>2. CASE i > c
    <3> DEFINE j == (i + d) - (c + 1)
    <3>1. j \in d .. n + 1 /\ (j + c + 1) - d = i
      BY <1>1, <1>2, <2>2
    <3> HIDE DEF j, m
    <3>2. at2[i] = (at[j] + ac + y) - ad /\ at[j] \in Nat /\ ad <= at[j]
      BY <1>6, <1>10, <3>1
    <3> QED
      BY <1>3, <1>6, <3>2
  <2> QED
    BY <1>2, <2>1, <2>2
<1>12. at2 \in [1 .. m + 1 -> Nat]
  BY <1>9, <1>11
<1>13. at2[1] = 1
  BY <1>1, <1>2, <1>10
<1>14. at2[m + 1] = Len(new) + 1
  <2>1. n + 1 \in d .. n + 1 /\ (n + 1 + c + 1) - d = m + 1
    BY <1>1, <1>2
  <2> HIDE DEF m
  <2>2. at2[m + 1] = (at[n + 1] + ac + y) - ad
    BY <1>10, <2>1
  <2> QED
    BY <1>1, <1>3, <1>5, <1>6, <2>2
<1>15. ASSUME NEW i \in 1 .. m
       PROVE  /\ at2[i + 1] = at2[i] + Len(ls2[i].text)
              /\ \A j \in 1 .. Len(ls2[i].text) : new[at2[i] + j - 1] = ls2[i].text[j]
  <2>1. CASE i < c
    <3>1. i \in 1 .. c - 1 /\ i \in 1 .. c /\ i + 1 \in 1 .. c /\ i \in 1 .. n
      BY <1>1, <1>2, <2>1
    <3>2. ls2[i] = ls[i] /\ at2[i] = at[i] /\ at2[i + 1] = at[i + 1] /\ at[i + 1] <= ac
          /\ 1 <= at[i]
      BY <1>4, <1>6, <1>10, <3>1
    <3>3. ASSUME NEW j \in 1 .. Len(ls[i].text)
          PROVE  new[at[i] + j - 1] = ls[i].text[j]
      <4>1. t[at[i] + j - 1] = ls[i].text[j]
        BY <1>7, <3>1
      <4>2. /\ Len(ls[i].text) \in Nat /\ at[i] \in Nat
            /\ at[i + 1] = at[i] + Len(ls[i].text)
        BY <1>7, <3>1
      <4>3. \A A, B, Y \in Nat : 1 <= A /\ A + Y <= B => \A u \in 1 .. Y : A + u - 1 \in 1 .. B - 1
        OBVIOUS
      <4>4. ac \in Nat
        BY <1>6
      <4>5. at[i] + j - 1 \in 1 .. ac - 1
        BY <3>2, <4>2, <4>3, <4>4
      <4> QED
        BY <1>5, <4>1, <4>5
    <3> QED
      BY <1>7, <3>1, <3>2, <3>3
  <2>2. CASE i = c
    <3>1. ls2[i] = l /\ c \in 1 .. c
      BY <1>2, <1>4, <2>2
    <3>2. at2[i] = ac
      BY <1>10, <2>2, <3>1 DEF ac
    <3>3. d \in d .. n + 1 /\ (d + c + 1) - d = i + 1
      BY <1>1, <1>2, <2>2
    <3>4. at2[i + 1] = (ad + ac + y) - ad
      BY <1>10, <3>3 DEF ad
    <3>5. at2[i + 1] = ac + y
      BY <1>3, <1>6, <3>4
    <3>6. ASSUME NEW j \in 1 .. y
          PROVE  new[ac + j - 1] = x[j]
      <4>1. ac + j - 1 = (ac - 1) + j
        BY <1>3, <1>6
      <4> QED
        BY <1>5, <4>1
    <3> QED
      BY <3>1, <3>2, <3>5, <3>6 DEF x, y
  <2>3. CASE i > c
    <3> DEFINE r == (i + d) - (c + 1)
    <3>1. /\ r \in d .. n /\ (r + c + 1) - d = i /\ r \in d .. n + 1
          /\ r + 1 \in d .. n + 1 /\ ((r + 1) + c + 1) - d = i + 1 /\ r \in 1 .. n
      BY <1>1, <1>2, <2>3
    <3> HIDE DEF r, m
    <3>2. /\ ls2[i] = ls[r] /\ at2[i] = (at[r] + ac + y) - ad
          /\ at2[i + 1] = (at[r + 1] + ac + y) - ad
      BY <1>4, <1>10, <3>1
    <3> DEFINE v == ls[r].text
               ar == at[r]
               lv == Len(v)
    <3>3. /\ lv \in Nat /\ ar \in Nat /\ ad <= ar
          /\ at[r + 1] = ar + lv /\ at[r + 1] <= L + 1
      <4>1. lv \in Nat /\ ar \in Nat /\ at[r + 1] = ar + lv
        BY <1>7, <3>1
      <4>2. ad <= ar
        BY <1>6, <3>1
      <4>3. at[r + 1] <= L + 1
        <5>1. r + 1 \in 1 .. Len(ls) + 1 /\ Len(ls) + 1 \in 1 .. Len(ls) + 1
          BY <1>1, <3>1 DEF n
        <5>2. CASE r + 1 = n + 1
          BY <1>1, <5>2
        <5>3. CASE r + 1 < n + 1
          <6>1. at[r + 1] < at[n + 1]
            BY <5>1, <5>3, LinesAscend DEF n
          <6>2. at[n + 1] = L + 1 /\ L \in Nat
            BY <1>1
          <6>3. at[r + 1] \in Nat
            BY <4>1
          <6> HIDE DEF ar, lv
          <6> QED
            BY <6>1, <6>2, <6>3
        <5> QED
          BY <1>1, <3>1, <5>2, <5>3
      <4> QED
        BY <4>1, <4>2, <4>3
    <3>4. ASSUME NEW j \in 1 .. lv
          PROVE  new[at2[i] + j - 1] = v[j]
      <4>1. t[ar + j - 1] = v[j]
        BY <1>7, <3>1
      <4> DEFINE q == (ar + j - 1) - ad
      <4>2. /\ at2[i] = (ar + ac + y) - ad /\ ar + lv <= L + 1 /\ ad <= ar
            /\ lv \in Nat /\ ar \in Nat /\ ad \in Nat /\ ac \in Nat /\ y \in Nat /\ L \in Nat
        BY <1>1, <1>3, <1>6, <3>2, <3>3
      <4> HIDE DEF ar, lv, v
      <4>3. q \in 0 .. L - ad /\ ad + q = ar + j - 1 /\ ac + y + q = at2[i] + j - 1
        BY <4>2
      <4> HIDE DEF q
      <4>4. new[ac + y + q] = t[ad + q]
        BY <1>5, <4>3
      <4> QED
        BY <4>1, <4>3, <4>4
    <3>5. at2[i + 1] = at2[i] + lv
      <4> HIDE DEF lv, ar
      <4>1. /\ at2[i] = (ar + ac + y) - ad /\ at2[i + 1] = ((ar + lv) + ac + y) - ad
            /\ lv \in Nat /\ ar \in Nat /\ ad \in Nat /\ ac \in Nat /\ y \in Nat
        BY <1>3, <1>6, <3>2, <3>3 DEF ar
      <4> QED
        BY <4>1
    <3> QED
      BY <3>2, <3>4, <3>5
  <2> QED
    BY <1>2, <2>1, <2>2, <2>3
<1>16. Laid(new, ls2, at2)
  BY <1>4, <1>12, <1>13, <1>14, <1>15 DEF Laid
<1>17. Written(new, ls2, at2)
  BY <1>4, <1>5, <1>16 DEF Written
<1> QED
  BY <1>17 DEF ls2, n

-----------------------------------------------------------------------------
(* What the lines of a file mean when one is put among them.               *)

\* Lines c to d of the first section of the name are where a value of the key goes:
\* in front of them the key has none, and they are none of another key.
Putting(ls, s, k, f, n, c, d) ==
    /\ HeaderAt(ls, s, f) /\ SectionTo(ls, f, n) /\ c \in f + 1 .. n /\ d \in c .. n
    /\ \A i \in f + 1 .. c - 1 : ls[i].key # k
    /\ \A i \in c .. d - 1 : ls[i].key = k \/ ls[i].key \notin Keys

\* The lines after the replacement.
Put(ls, c, d, l, ls2) ==
    /\ ls \in Seq(GoodLines) /\ Len(ls) \in Nat /\ c \in Nat \ {0} /\ d \in Nat
    /\ c <= d /\ d <= Len(ls) + 1 /\ Len(ls2) = (Len(ls) + c + 1) - d
    /\ \A i \in 1 .. c - 1 : ls2[i] = ls[i]
    /\ ls2[c] = l
    /\ \A i \in d .. Len(ls) : ls2[(i + c + 1) - d] = ls[i]
    /\ \A j \in c + 1 .. Len(ls2) :
         (j + d) - (c + 1) \in d .. Len(ls) /\ ls2[j] = ls[(j + d) - (c + 1)]

\* A replacement is one.
LEMMA PutIs ==
    ASSUME NEW ls \in Seq(GoodLines), NEW c \in 1 .. Len(ls) + 1, NEW d \in c .. Len(ls) + 1,
           NEW l, NEW ls2, Replacing(ls, c, d, l, ls2)
    PROVE  Put(ls, c, d, l, ls2)
<1> DEFINE n == Len(ls)
           m == Len(ls2)
<1>1. n \in Nat /\ c \in Nat \ {0} /\ d \in Nat /\ c <= d /\ d <= n + 1
  OBVIOUS
<1>2. /\ m = (n + c + 1) - d
      /\ \A i \in 1 .. c - 1 : ls2[i] = ls[i]
      /\ ls2[c] = l
      /\ \A i \in d .. n : ls2[(i + c + 1) - d] = ls[i]
  BY DEF Replacing
<1> HIDE DEF n, m
<1>3. ASSUME NEW j \in c + 1 .. m
      PROVE  (j + d) - (c + 1) \in d .. n /\ ls2[j] = ls[(j + d) - (c + 1)]
  <2> DEFINE i == (j + d) - (c + 1)
  <2>1. i \in d .. n /\ (i + c + 1) - d = j
    BY <1>1, <1>2
  <2> HIDE DEF i
  <2>2. ls2[j] = ls[i]
    BY <1>2, <2>1
  <2> QED
    BY <2>1, <2>2 DEF i
<1> QED
  BY <1>1, <1>2, <1>3 DEF Put, n, m

\* The section begins where it began, and its end moves.
LEMMA SectionAround ==
    ASSUME NEW s \in Sections, NEW k \in Keys, NEW ls, NEW f, NEW n, NEW c, NEW d,
           Putting(ls, s, k, f, n, c, d), NEW l, l.header = <<>>,
           NEW ls2, Put(ls, c, d, l, ls2)
    PROVE  HeaderAt(ls2, s, f) /\ SectionTo(ls2, f, (n + c + 1) - d)
<1> DEFINE N == Len(ls)
           m == Len(ls2)
           n2 == (n + c + 1) - d
<1>1. /\ f \in 1 .. N /\ ls[f].header = s /\ \A i \in 1 .. f - 1 : ls[i].header # s
      /\ n \in f + 1 .. N + 1 /\ (n <= N => ls[n].header # <<>>)
      /\ \A i \in f + 1 .. n - 1 : ls[i].header = <<>>
      /\ c \in f + 1 .. n /\ d \in c .. n
      /\ \A i \in f + 1 .. c - 1 : ls[i].key # k
  BY DEF Putting, HeaderAt, SectionTo
<1>2. /\ N \in Nat /\ c \in Nat \ {0} /\ d \in Nat /\ c <= d /\ d <= N + 1 /\ m = (N + c + 1) - d
      /\ \A i \in 1 .. c - 1 : ls2[i] = ls[i]
      /\ ls2[c] = l
      /\ \A i \in d .. N : ls2[(i + c + 1) - d] = ls[i]
      /\ \A j \in c + 1 .. m : (j + d) - (c + 1) \in d .. N /\ ls2[j] = ls[(j + d) - (c + 1)]
  BY DEF Put
<1> HIDE DEF N, m
<1>3. /\ f \in Nat \ {0} /\ n \in Nat /\ f < c /\ c <= d /\ d <= n /\ n <= N + 1
      /\ m \in Nat /\ c <= m
  BY <1>1, <1>2
<1>4. /\ f \in 1 .. m /\ n2 \in f + 1 .. m + 1 /\ c \in f + 1 .. n2 - 1 /\ f \in 1 .. c - 1
      /\ n2 \in Nat
  <2>1. N \in Nat /\ c \in Nat \ {0} /\ d \in Nat /\ m = (N + c + 1) - d
    BY <1>2
  <2>2. n2 \in Nat /\ n2 + d = n + c + 1 /\ m + d = N + c + 1
    BY <1>3, <2>1
  <2> HIDE DEF n2
  <2> QED
    BY <1>3, <2>1, <2>2
<1>5. HeaderAt(ls2, s, f)
  <2>1. ls2[f] = ls[f]
    BY <1>2, <1>4
  <2>2. ASSUME NEW i \in 1 .. f - 1
        PROVE  ls2[i].header # s
    <3>1. i \in 1 .. c - 1
      BY <1>2, <1>3
    <3> QED
      BY <1>1, <1>2, <3>1
  <2> QED
    BY <1>1, <1>4, <2>1, <2>2 DEF HeaderAt, m
<1>6. SectionTo(ls2, f, n2)
  <2>1. ASSUME n2 <= m
        PROVE  ls2[n2].header # <<>>
    <3>1. n \in d .. N
      BY <1>2, <1>3, <2>1
    <3>2. ls2[n2] = ls[n]
      BY <1>2, <3>1
    <3>3. n <= N
      BY <1>2, <3>1
    <3> QED
      BY <1>1, <3>2, <3>3
  <2>2. ASSUME NEW i \in f + 1 .. n2 - 1
        PROVE  ls2[i].header = <<>>
    <3>1. CASE i < c
      <4>1. i \in 1 .. c - 1 /\ i \in f + 1 .. n - 1
        BY <1>2, <1>3, <3>1
      <4> QED
        BY <1>1, <1>2, <4>1
    <3>2. CASE i = c
      BY <1>2, <3>2
    <3>3. CASE i > c
      <4> DEFINE r == (i + d) - (c + 1)
      <4>1. i \in c + 1 .. m /\ r \in f + 1 .. n - 1
        BY <1>2, <1>3, <3>3
      <4> HIDE DEF r
      <4>2. ls2[i] = ls[r]
        BY <1>2, <4>1 DEF r
      <4> QED
        BY <1>1, <4>1, <4>2
    <3> QED
      BY <1>2, <1>3, <3>1, <3>2, <3>3
  <2> QED
    BY <1>4, <2>1, <2>2 DEF SectionTo, m
<1> QED
  BY <1>5, <1>6

\* The item means what was put there.
LEMMA MeaningSet ==
    ASSUME NEW s \in Sections, NEW k \in Keys, NEW ls, NEW f, NEW n, NEW c, NEW d,
           Putting(ls, s, k, f, n, c, d), NEW l, l.header = <<>>, l.key = k,
           NEW ls2, Put(ls, c, d, l, ls2)
    PROVE  Means(ls2, s, k, l.value)
<1> DEFINE m == Len(ls2)
           n2 == (n + c + 1) - d
<1>1. /\ f \in 1 .. Len(ls) /\ n \in f + 1 .. Len(ls) + 1 /\ c \in f + 1 .. n /\ d \in c .. n
      /\ \A i \in f + 1 .. c - 1 : ls[i].key # k
  BY DEF Putting, HeaderAt, SectionTo
<1>2. /\ Len(ls) \in Nat /\ c \in Nat \ {0} /\ d \in Nat /\ c <= d /\ m = (Len(ls) + c + 1) - d
      /\ \A i \in 1 .. c - 1 : ls2[i] = ls[i]
      /\ ls2[c] = l
  BY DEF Put
<1>3. HeaderAt(ls2, s, f) /\ SectionTo(ls2, f, n2)
  BY SectionAround
<1>4. f \in Nat \ {0} /\ f \in 1 .. m /\ n2 \in f + 1 .. m + 1 /\ c \in f + 1 .. n2 - 1
  <2> HIDE DEF m
  <2> QED
    BY <1>1, <1>2
<1> HIDE DEF m, n2
<1>5. ASSUME NEW i \in f + 1 .. c - 1
      PROVE  ls2[i].key # k
  <2>1. i \in 1 .. c - 1
    BY <1>2, <1>4
  <2> QED
    BY <1>1, <1>2, <2>1
<1>6. \E j \in f + 1 .. n2 - 1 :
         ls2[j].key = k /\ (\A i \in f + 1 .. j - 1 : ls2[i].key # k) /\ l.value = ls2[j].value
  BY <1>2, <1>4, <1>5
<1> QED
  BY <1>3, <1>4, <1>6 DEF Means, m

\* The first item of the key among the lines from f + 1 up to n is v.
ItemMeans(ls, f, n, k, v) ==
    \/ (\A i \in f + 1 .. n - 1 : ls[i].key # k) /\ v = <<>>
    \/ \E j \in f + 1 .. n - 1 :
         ls[j].key = k /\ (\A i \in f + 1 .. j - 1 : ls[i].key # k) /\ v = ls[j].value

\* A section in front of the place stays where it is.
LEMMA SectionBefore ==
    ASSUME NEW ls, NEW c, NEW d, NEW l, NEW ls2, Put(ls, c, d, l, ls2),
           NEW s, NEW k, NEW v, NEW f, NEW n, HeaderAt(ls, s, f), SectionTo(ls, f, n), n < c,
           ItemMeans(ls, f, n, k, v)
    PROVE  HeaderAt(ls2, s, f) /\ SectionTo(ls2, f, n) /\ ItemMeans(ls2, f, n, k, v)
<1> DEFINE N == Len(ls)
           m == Len(ls2)
<1>1. /\ f \in 1 .. N /\ ls[f].header = s /\ \A i \in 1 .. f - 1 : ls[i].header # s
      /\ n \in f + 1 .. N + 1 /\ (n <= N => ls[n].header # <<>>)
      /\ \A i \in f + 1 .. n - 1 : ls[i].header = <<>>
  BY DEF HeaderAt, SectionTo
<1>2. /\ N \in Nat /\ c \in Nat \ {0} /\ d \in Nat /\ c <= d /\ d <= N + 1 /\ m = (N + c + 1) - d
      /\ \A i \in 1 .. c - 1 : ls2[i] = ls[i]
  BY DEF Put
<1> HIDE DEF N, m
<1>3. /\ f \in Nat \ {0} /\ n \in Nat /\ f < n /\ m \in Nat /\ c <= m /\ n <= N
      /\ f \in 1 .. m /\ n \in f + 1 .. m + 1
      /\ f \in 1 .. c - 1 /\ n \in 1 .. c - 1
  BY <1>1, <1>2
<1>4. ASSUME NEW i \in 1 .. n
      PROVE  ls2[i] = ls[i]
  <2>1. i \in 1 .. c - 1
    BY <1>2, <1>3
  <2> QED
    BY <1>2, <2>1
<1>5. HeaderAt(ls2, s, f)
  <2>1. \A i \in 1 .. f - 1 : i \in 1 .. n
    BY <1>3
  <2>2. \A i \in 1 .. f - 1 : ls2[i].header # s
    BY <1>1, <1>4, <2>1
  <2>3. ls2[f].header = s
    BY <1>1, <1>3, <1>4
  <2> QED
    BY <1>3, <2>2, <2>3 DEF HeaderAt, m
<1>6. \A i \in f + 1 .. n - 1 : i \in 1 .. n /\ ls2[i] = ls[i]
  <2>1. \A i \in f + 1 .. n - 1 : i \in 1 .. n
    BY <1>3
  <2> QED
    BY <1>4, <2>1
<1>7. SectionTo(ls2, f, n)
  <2>1. \A i \in f + 1 .. n - 1 : ls2[i].header = <<>>
    BY <1>1, <1>6
  <2>2. ls2[n].header # <<>>
    BY <1>1, <1>3, <1>4
  <2> QED
    BY <1>3, <2>1, <2>2 DEF SectionTo, m
<1>8. ItemMeans(ls2, f, n, k, v)
  <2>1. CASE (\A i \in f + 1 .. n - 1 : ls[i].key # k) /\ v = <<>>
    BY <1>6, <2>1 DEF ItemMeans
  <2>2. ASSUME NEW j \in f + 1 .. n - 1,
               ls[j].key = k, \A i \in f + 1 .. j - 1 : ls[i].key # k, v = ls[j].value
        PROVE  ItemMeans(ls2, f, n, k, v)
    <3>1. \A i \in f + 1 .. j - 1 : i \in f + 1 .. n - 1
      BY <1>3
    <3>2. \A i \in f + 1 .. j - 1 : ls2[i].key # k
      BY <1>6, <2>2, <3>1
    <3>3. ls2[j] = ls[j]
      BY <1>6
    <3> QED
      BY <2>2, <3>2, <3>3 DEF ItemMeans
  <2> QED
    BY <2>1, <2>2 DEF ItemMeans
<1> QED
  BY <1>5, <1>7, <1>8

\* One behind it moves.
LEMMA SectionBehind ==
    ASSUME NEW ls, NEW c, NEW d, NEW l, NEW ls2, Put(ls, c, d, l, ls2),
           NEW s, NEW k, NEW v, NEW f, NEW n, HeaderAt(ls, s, f), SectionTo(ls, f, n), d <= f,
           l.header # s, ItemMeans(ls, f, n, k, v)
    PROVE  /\ HeaderAt(ls2, s, (f + c + 1) - d)
           /\ SectionTo(ls2, (f + c + 1) - d, (n + c + 1) - d)
           /\ ItemMeans(ls2, (f + c + 1) - d, (n + c + 1) - d, k, v)
<1> DEFINE N == Len(ls)
           m == Len(ls2)
           f2 == (f + c + 1) - d
           n2 == (n + c + 1) - d
<1>1. /\ f \in 1 .. N /\ ls[f].header = s /\ \A i \in 1 .. f - 1 : ls[i].header # s
      /\ n \in f + 1 .. N + 1 /\ (n <= N => ls[n].header # <<>>)
      /\ \A i \in f + 1 .. n - 1 : ls[i].header = <<>>
  BY DEF HeaderAt, SectionTo
<1>2. /\ N \in Nat /\ c \in Nat \ {0} /\ d \in Nat /\ c <= d /\ d <= N + 1 /\ m = (N + c + 1) - d
      /\ \A i \in 1 .. c - 1 : ls2[i] = ls[i]
      /\ ls2[c] = l
      /\ \A i \in d .. N : ls2[(i + c + 1) - d] = ls[i]
      /\ \A j \in c + 1 .. m : (j + d) - (c + 1) \in d .. N /\ ls2[j] = ls[(j + d) - (c + 1)]
  BY DEF Put
<1> HIDE DEF N, m
<1>3. /\ f \in Nat \ {0} /\ n \in Nat /\ f < n /\ m \in Nat /\ c <= m /\ d <= f /\ n <= N + 1
      /\ f2 \in 1 .. m /\ n2 \in f2 + 1 .. m + 1 /\ c < f2 /\ f2 \in Nat /\ n2 \in Nat
      /\ f \in d .. N /\ f2 + d = f + c + 1 /\ n2 + d = n + c + 1
  BY <1>1, <1>2
<1>4. ls2[f2] = ls[f]
  BY <1>2, <1>3
<1>5. n <= N => ls2[n2] = ls[n]
  <2> SUFFICES ASSUME n <= N
               PROVE  ls2[n2] = ls[n]
    OBVIOUS
  <2>1. n \in d .. N
    BY <1>2, <1>3
  <2> QED
    BY <1>2, <2>1
<1> HIDE DEF f2, n2
\* The lines of the section, one by one.
<1>6. ASSUME NEW i \in f2 + 1 .. n2 - 1
      PROVE  (i + d) - (c + 1) \in f + 1 .. n - 1 /\ ls2[i] = ls[(i + d) - (c + 1)]
  <2>1. i \in c + 1 .. m /\ (i + d) - (c + 1) \in f + 1 .. n - 1
    BY <1>2, <1>3
  <2> QED
    BY <1>2, <2>1
<1>7. HeaderAt(ls2, s, f2)
  <2>1. ASSUME NEW i \in 1 .. f2 - 1
        PROVE  ls2[i].header # s
    <3>1. CASE i < c
      <4>1. i \in 1 .. c - 1 /\ i \in 1 .. f - 1
        BY <1>2, <1>3, <3>1
      <4> QED
        BY <1>1, <1>2, <4>1
    <3>2. CASE i = c
      BY <1>2, <3>2
    <3>3. CASE i > c
      <4> DEFINE r == (i + d) - (c + 1)
      <4>1. i \in c + 1 .. m /\ r \in 1 .. f - 1
        BY <1>2, <1>3, <3>3
      <4>2. ls2[i] = ls[r]
        BY <1>2, <4>1
      <4> HIDE DEF r
      <4> QED
        BY <1>1, <4>1, <4>2
    <3> QED
      BY <1>2, <1>3, <3>1, <3>2, <3>3
  <2> QED
    BY <1>1, <1>3, <1>4, <2>1 DEF HeaderAt, m
<1>8. SectionTo(ls2, f2, n2)
  <2>1. \A i \in f2 + 1 .. n2 - 1 : ls2[i].header = <<>>
    BY <1>1, <1>6
  <2>2. n2 <= m => ls2[n2].header # <<>>
    <3>1. n2 <= m => n <= N
      BY <1>2, <1>3
    <3> QED
      BY <1>1, <1>5, <3>1
  <2> QED
    BY <1>3, <2>1, <2>2 DEF SectionTo, m
<1>9. ItemMeans(ls2, f2, n2, k, v)
  <2>1. CASE (\A i \in f + 1 .. n - 1 : ls[i].key # k) /\ v = <<>>
    <3>1. \A i \in f2 + 1 .. n2 - 1 : ls2[i].key # k
      BY <1>6, <2>1
    <3> QED
      BY <2>1, <3>1 DEF ItemMeans
  <2>2. ASSUME NEW j \in f + 1 .. n - 1,
               ls[j].key = k, \A i \in f + 1 .. j - 1 : ls[i].key # k, v = ls[j].value
        PROVE  ItemMeans(ls2, f2, n2, k, v)
    <3> DEFINE j2 == (j + c + 1) - d
    <3>1. j2 \in f2 + 1 .. n2 - 1 /\ j \in d .. N /\ j2 + d = j + c + 1 /\ j \in Nat /\ j2 \in Nat
      BY <1>2, <1>3
    <3>2. ls2[j2] = ls[j]
      BY <1>2, <3>1
    <3> HIDE DEF j2
    <3>3. ASSUME NEW i \in f2 + 1 .. j2 - 1
          PROVE  ls2[i].key # k
      <4> DEFINE r == (i + d) - (c + 1)
      <4>1. i \in f2 + 1 .. n2 - 1 /\ r \in f + 1 .. j - 1
        BY <1>2, <1>3, <3>1
      <4>2. ls2[i] = ls[r]
        BY <1>6, <4>1
      <4> HIDE DEF r
      <4> QED
        BY <2>2, <4>1, <4>2
    <3> QED
      BY <2>2, <3>1, <3>2, <3>3 DEF ItemMeans
  <2> QED
    BY <2>1, <2>2 DEF ItemMeans
<1> QED
  BY <1>7, <1>8, <1>9 DEF f2, n2

\* Other keys of the section mean what they meant.
LEMMA OtherKeys ==
    ASSUME NEW s \in Sections, NEW k \in Keys, NEW ls, NEW f, NEW n, NEW c, NEW d,
           Putting(ls, s, k, f, n, c, d), NEW l, l.header = <<>>, l.key = k,
           NEW ls2, Put(ls, c, d, l, ls2), NEW k2 \in Keys, k2 # k, NEW v, ItemMeans(ls, f, n, k2, v)
    PROVE  ItemMeans(ls2, f, (n + c + 1) - d, k2, v)
<1> DEFINE N == Len(ls)
           m == Len(ls2)
           n2 == (n + c + 1) - d
<1>1. /\ f \in 1 .. N /\ n \in f + 1 .. N + 1 /\ c \in f + 1 .. n /\ d \in c .. n
      /\ \A i \in c .. d - 1 : ls[i].key = k \/ ls[i].key \notin Keys
  BY DEF Putting, HeaderAt, SectionTo
<1>2. /\ N \in Nat /\ c \in Nat \ {0} /\ d \in Nat /\ c <= d /\ m = (N + c + 1) - d
      /\ \A i \in 1 .. c - 1 : ls2[i] = ls[i]
      /\ ls2[c] = l
      /\ \A i \in d .. N : ls2[(i + c + 1) - d] = ls[i]
      /\ \A j \in c + 1 .. m : (j + d) - (c + 1) \in d .. N /\ ls2[j] = ls[(j + d) - (c + 1)]
  BY DEF Put
<1> HIDE DEF N, m
<1>3. /\ f \in Nat \ {0} /\ n \in Nat /\ f < c /\ d <= n /\ n <= N + 1 /\ m \in Nat
      /\ n2 \in Nat /\ n2 + d = n + c + 1 /\ n2 <= m + 1
  BY <1>1, <1>2
<1>4. /\ N \in Nat /\ c \in Nat \ {0} /\ d \in Nat /\ c <= d /\ m = (N + c + 1) - d
      /\ f \in Nat \ {0} /\ n \in Nat /\ f < c /\ d <= n /\ n <= N + 1 /\ m \in Nat
      /\ n2 \in Nat /\ n2 + d = n + c + 1 /\ n2 <= m + 1
  BY <1>2, <1>3
<1> HIDE DEF n2
\* A line of the section is one from before, or the new one.
<1>5. ASSUME NEW i \in f + 1 .. n2 - 1
      PROVE  \/ i < c /\ i \in f + 1 .. n - 1 /\ ls2[i] = ls[i]
             \/ i = c /\ ls2[i].key = k
             \/ i > c /\ (i + d) - (c + 1) \in d .. n - 1 /\ ls2[i] = ls[(i + d) - (c + 1)]
  <2>1. CASE i < c
    <3>1. i \in 1 .. c - 1 /\ i \in f + 1 .. n - 1
      BY <1>4, <2>1
    <3>2. ls2[i] = ls[i]
      BY <1>2, <3>1
    <3> QED
      BY <2>1, <3>1, <3>2
  <2>2. CASE i = c
    BY <1>2, <2>2
  <2>3. CASE i > c
    <3>1. i \in c + 1 .. m /\ (i + d) - (c + 1) \in d .. n - 1
      BY <1>4, <2>3
    <3>2. ls2[i] = ls[(i + d) - (c + 1)]
      BY <1>2, <3>1
    <3> QED
      BY <2>3, <3>1, <3>2
  <2> QED
    BY <1>4, <2>1, <2>2, <2>3
<1>6. CASE (\A i \in f + 1 .. n - 1 : ls[i].key # k2) /\ v = <<>>
  <2>1. ASSUME NEW i \in f + 1 .. n2 - 1
        PROVE  ls2[i].key # k2
    <3>1. CASE i < c
      <4>1. i # c /\ ~(i > c)
        BY <1>4, <3>1
      <4> QED
        BY <1>5, <1>6, <4>1
    <3>2. CASE i = c
      <4>1. ~(i < c) /\ ~(i > c)
        BY <1>4, <3>2
      <4> QED
        BY <1>5, <4>1
    <3>3. CASE i > c
      <4> DEFINE r == (i + d) - (c + 1)
      <4>1. r \in d .. n - 1 /\ ls2[i] = ls[r]
        <5>1. ~(i < c) /\ i # c
          BY <1>4, <3>3
        <5> HIDE DEF r
        <5>2. r = (i + d) - (c + 1)
          BY DEF r
        <5> QED
          BY <1>5, <5>1, <5>2
      <4> HIDE DEF r
      <4>2. r \in f + 1 .. n - 1
        BY <1>4, <4>1
      <4> QED
        BY <1>6, <4>1, <4>2
    <3> QED
      BY <1>4, <3>1, <3>2, <3>3
  <2> QED
    BY <1>6, <2>1 DEF ItemMeans, n2
<1>7. ASSUME NEW j \in f + 1 .. n - 1,
             ls[j].key = k2, \A i \in f + 1 .. j - 1 : ls[i].key # k2, v = ls[j].value
      PROVE  ItemMeans(ls2, f, n2, k2, v)
  <2>1. j < c \/ j >= d
    <3> SUFFICES ASSUME ~(j < c), ~(j >= d)
                 PROVE  FALSE
      OBVIOUS
    <3>1. j \in c .. d - 1
      BY <1>2, <1>3
    <3> QED
      BY <1>1, <1>7, <3>1
  <2>2. CASE j < c
    <3>1. j \in 1 .. c - 1 /\ j \in f + 1 .. n2 - 1
      BY <1>4, <2>2
    <3>2. ls2[j] = ls[j]
      BY <1>2, <3>1
    <3>3. ASSUME NEW i \in f + 1 .. j - 1
          PROVE  ls2[i].key # k2
      <4>1. i \in 1 .. c - 1
        BY <1>4, <2>2, <3>1
      <4>2. ls2[i] = ls[i]
        BY <1>2, <4>1
      <4> QED
        BY <1>7, <4>2
    <3> QED
      BY <1>7, <3>1, <3>2, <3>3 DEF ItemMeans
  <2>3. CASE j >= d
    <3> DEFINE j2 == (j + c + 1) - d
    <3>1. j \in Nat /\ j >= d /\ j < n
      <4>1. f \in Nat /\ n \in Nat
        BY <1>4
      <4>2. j \in Nat /\ j < n
        BY <4>1
      <4> QED
        BY <2>3, <4>2
    <3>2. j2 \in Nat /\ j2 + d = j + c + 1 /\ j \in d .. N
      BY <1>4, <3>1
    <3>3. j2 \in f + 1 .. n2 - 1 /\ j \in d .. N /\ j2 + d = j + c + 1 /\ j \in Nat /\ j2 \in Nat
      <4> HIDE DEF j2
      <4> QED
        BY <1>4, <3>1, <3>2
    <3>4. ls2[j2] = ls[j]
      <4>1. \A i \in d .. N : ls2[(i + c + 1) - d] = ls[i]
        BY <1>2
      <4>2. j \in d .. N
        BY <3>3
      <4> QED
        BY <4>1, <4>2
    <3> HIDE DEF j2
    <3>5. ASSUME NEW i \in f + 1 .. j2 - 1
          PROVE  ls2[i].key # k2
      <4>1. i \in f + 1 .. n2 - 1
        BY <1>3, <3>3
      <4>2. CASE i < c
        <5>1. i \in f + 1 .. j - 1 /\ ls2[i] = ls[i]
          <6>1. i \in f + 1 .. j - 1 /\ i # c /\ ~(i > c)
            BY <1>4, <2>3, <4>1, <4>2
          <6> QED
            BY <1>5, <4>1, <6>1
        <5> QED
          BY <1>7, <5>1
      <4>3. CASE i = c
        BY <1>5, <4>1, <4>3
      <4>4. CASE i > c
        <5> DEFINE r == (i + d) - (c + 1)
        <5>1. ls2[i] = ls[r]
          <6>1. ~(i < c) /\ i # c
            BY <1>4, <4>4
          <6> QED
            BY <1>5, <4>1, <6>1
        <5>2. r \in f + 1 .. j - 1
          BY <1>4, <3>3, <4>4
        <5> HIDE DEF r
        <5> QED
          BY <1>7, <5>1, <5>2
      <4> QED
        BY <1>4, <4>2, <4>3, <4>4
    <3> QED
      BY <1>7, <3>3, <3>4, <3>5 DEF ItemMeans
  <2> QED
    BY <2>1, <2>2, <2>3
<1> QED
  BY <1>6, <1>7 DEF ItemMeans, n2

\* What other items mean is left as it is.
LEMMA MeaningKept ==
    ASSUME NEW s \in Sections, NEW k \in Keys, NEW ls, NEW f, NEW n, NEW c, NEW d,
           Putting(ls, s, k, f, n, c, d), NEW l, l.header = <<>>, l.key = k,
           NEW ls2, Put(ls, c, d, l, ls2),
           NEW s2 \in Sections, NEW k2 \in Keys, s2 # s \/ k2 # k, NEW v, Means(ls, s2, k2, v)
    PROVE  Means(ls2, s2, k2, v)
<1> DEFINE N == Len(ls)
           m == Len(ls2)
<1>1. /\ f \in 1 .. N /\ ls[f].header = s /\ \A i \in 1 .. f - 1 : ls[i].header # s
      /\ n \in f + 1 .. N + 1 /\ (n <= N => ls[n].header # <<>>)
      /\ \A i \in f + 1 .. n - 1 : ls[i].header = <<>>
      /\ c \in f + 1 .. n /\ d \in c .. n
  BY DEF Putting, HeaderAt, SectionTo
<1>2. /\ N \in Nat /\ c \in Nat \ {0} /\ d \in Nat /\ c <= d /\ m = (N + c + 1) - d
      /\ \A i \in 1 .. c - 1 : ls2[i] = ls[i]
      /\ ls2[c] = l
      /\ \A j \in c + 1 .. m : (j + d) - (c + 1) \in d .. N /\ ls2[j] = ls[(j + d) - (c + 1)]
  BY DEF Put
<1>3. s # <<>> /\ s2 # <<>> /\ l.header # s2
  BY TextsAssumption
<1>4. ASSUME NEW g \in 1 .. m, NEW h \in g + 1 .. m + 1,
             HeaderAt(ls2, s2, g), SectionTo(ls2, g, h), ItemMeans(ls2, g, h, k2, v)
      PROVE  Means(ls2, s2, k2, v)
  BY <1>4 DEF Means, ItemMeans
<1>5. ASSUME NEW g, NEW h, HeaderAt(ls2, s2, g), SectionTo(ls2, g, h), ItemMeans(ls2, g, h, k2, v)
      PROVE  Means(ls2, s2, k2, v)
  <2>1. g \in 1 .. m /\ h \in g + 1 .. m + 1
    BY <1>5 DEF HeaderAt, SectionTo
  <2> QED
    BY <1>4, <1>5, <2>1
<1> HIDE DEF N, m
<1>6. /\ f \in Nat \ {0} /\ n \in Nat /\ f < c /\ d <= n /\ n <= N + 1 /\ m \in Nat /\ c <= m
  BY <1>1, <1>2
<1>7. CASE (\A i \in 1 .. N : ls[i].header # s2) /\ v = <<>>
  <2>1. ASSUME NEW i \in 1 .. m
        PROVE  ls2[i].header # s2
    <3>1. CASE i < c
      <4>1. i \in 1 .. c - 1 /\ i \in 1 .. N
        BY <1>2, <1>6, <3>1
      <4> QED
        BY <1>2, <1>7, <4>1
    <3>2. CASE i = c
      BY <1>2, <1>3, <3>2
    <3>3. CASE i > c
      <4> DEFINE r == (i + d) - (c + 1)
      <4>1. i \in c + 1 .. m
        BY <1>2, <1>6, <3>3
      <4>2. r \in d .. N /\ ls2[i] = ls[r]
        BY <1>2, <4>1
      <4> HIDE DEF r
      <4>3. r \in 1 .. N
        BY <1>2, <4>2
      <4> QED
        BY <1>7, <4>2, <4>3
    <3> QED
      BY <1>2, <1>6, <3>1, <3>2, <3>3
  <2> QED
    BY <1>7, <2>1 DEF Means, m
<1>8. ASSUME NEW g \in 1 .. N, NEW h \in g + 1 .. N + 1,
             HeaderAt(ls, s2, g), SectionTo(ls, g, h), ItemMeans(ls, g, h, k2, v)
      PROVE  Means(ls2, s2, k2, v)
  <2>1. /\ ls[g].header = s2 /\ \A i \in 1 .. g - 1 : ls[i].header # s2
        /\ (h <= N => ls[h].header # <<>>)
        /\ \A i \in g + 1 .. h - 1 : ls[i].header = <<>>
        /\ g \in Nat \ {0} /\ h \in Nat /\ g < h /\ g <= N /\ h <= N + 1
    BY <1>2, <1>8 DEF HeaderAt, SectionTo, N
  <2>2. g <= f \/ d <= g
    <3> SUFFICES ASSUME g > f, g < d
                 PROVE  FALSE
      BY <1>2, <1>6, <2>1
    <3>1. g \in f + 1 .. n - 1
      BY <1>2, <1>6, <2>1
    <3> QED
      <4>1. ls[g].header = <<>>
        BY <1>1, <3>1
      <4> QED
        BY <1>3, <2>1, <4>1
  <2>3. CASE d <= g
    <3>1. /\ HeaderAt(ls2, s2, (g + c + 1) - d)
          /\ SectionTo(ls2, (g + c + 1) - d, (h + c + 1) - d)
          /\ ItemMeans(ls2, (g + c + 1) - d, (h + c + 1) - d, k2, v)
      BY <1>3, <1>8, <2>3, SectionBehind
    <3> QED
      BY <1>5, <3>1
  <2>4. CASE g < f
    <3>1. h <= f
      <4> SUFFICES ASSUME h > f
                   PROVE  FALSE
        BY <1>6, <2>1
      <4>1. f \in g + 1 .. h - 1
        BY <1>6, <2>1, <2>4
      <4> QED
        BY <1>1, <1>3, <2>1, <4>1
    <3>2. h < c
      BY <1>2, <1>6, <2>1, <3>1
    <3>3. HeaderAt(ls2, s2, g) /\ SectionTo(ls2, g, h) /\ ItemMeans(ls2, g, h, k2, v)
      BY <1>8, <3>2, SectionBefore
    <3> QED
      BY <1>5, <3>3
  <2>5. CASE g = f
    <3>1. s2 = s /\ k2 # k
      BY <1>1, <2>1, <2>5
    <3>2. h = n
      <4>1. CASE h < n
        <5>1. h \in f + 1 .. n - 1 /\ h <= N
          <6>1. /\ f \in Nat /\ h \in Nat /\ n \in Nat /\ N \in Nat
                /\ f < h /\ n <= N + 1
            BY <1>2, <1>6, <2>1, <2>5
          <6> QED
            BY <4>1, <6>1
        <5> QED
          BY <1>1, <2>1, <5>1
      <4>2. CASE h > n
        <5>1. n \in g + 1 .. h - 1 /\ n <= N
          BY <1>2, <1>6, <2>1, <2>5, <4>2
        <5> QED
          BY <1>1, <2>1, <5>1
      <4> QED
        BY <1>6, <2>1, <4>1, <4>2
    <3>3. HeaderAt(ls2, s2, f) /\ SectionTo(ls2, f, (n + c + 1) - d)
      BY <3>1, SectionAround
    <3>4. ItemMeans(ls2, f, (n + c + 1) - d, k2, v)
      BY <1>8, <2>5, <3>1, <3>2, OtherKeys
    <3> QED
      BY <1>5, <3>3, <3>4
  <2> QED
    BY <1>6, <2>1, <2>2, <2>3, <2>4, <2>5
<1>9. \/ (\A i \in 1 .. N : ls[i].header # s2) /\ v = <<>>
      \/ \E g \in 1 .. N : \E h \in g + 1 .. N + 1 :
           HeaderAt(ls, s2, g) /\ SectionTo(ls, g, h) /\ ItemMeans(ls, g, h, k2, v)
  BY DEF Means, ItemMeans, N
<1> QED
  BY <1>7, <1>8, <1>9

-----------------------------------------------------------------------------
(* Where a set puts its line.                                              *)

\* A set of places, if there is one, has a first.
LEMMA FirstPlaceIs ==
    ASSUME NEW a \in Nat, NEW b \in Nat, NEW S, S \subseteq a .. b, S # {}
    PROVE  \E x \in S : \A i \in a .. x - 1 : i \notin S
<1>1. S \subseteq Nat
  OBVIOUS
<1>2. PICK x \in S : \A y \in S : x <= y
  BY <1>1, LeastOne
<1>3. ASSUME NEW i \in a .. x - 1, i \in S
      PROVE  FALSE
  BY <1>1, <1>2, <1>3
<1> QED
  BY <1>3

\* Whatever the lines, they mean something.
LEMMA LinesMean ==
    ASSUME NEW ls \in Seq(GoodLines), NEW s \in Sections, NEW k \in Keys
    PROVE  \E v : Means(ls, s, k, v)
<1> DEFINE N == Len(ls)
           H == {i \in 1 .. N : ls[i].header = s}
<1>1. N \in Nat /\ 1 \in Nat
  OBVIOUS
<1> HIDE DEF N
<1>2. CASE H = {}
  <2>1. \A i \in 1 .. N : ls[i].header # s
    BY <1>2
  <2>2. Means(ls, s, k, <<>>)
    BY <2>1 DEF Means, N
  <2> QED
    BY <2>2
<1>3. CASE H # {}
  <2>1. H \subseteq 1 .. N
    OBVIOUS
  <2>2. PICK f \in H : \A i \in 1 .. f - 1 : i \notin H
    <3> HIDE DEF H
    <3> QED
      BY <1>1, <1>3, <2>1, FirstPlaceIs
  <2>3. f \in 1 .. N /\ ls[f].header = s
    BY <2>2
  <2>4. ASSUME NEW i \in 1 .. f - 1
        PROVE  ls[i].header # s
    <3>1. i \in 1 .. N
      BY <1>1, <2>3
    <3> QED
      BY <2>2, <3>1
  <2>5. HeaderAt(ls, s, f)
    BY <2>3, <2>4 DEF HeaderAt, N
  <2> DEFINE E == {i \in f + 1 .. N + 1 : i = N + 1 \/ ls[i].header # <<>>}
  <2>6. E \subseteq f + 1 .. N + 1 /\ f + 1 \in Nat /\ N + 1 \in Nat /\ N + 1 \in E
    BY <1>1, <2>3
  <2>7. PICK n \in E : \A i \in f + 1 .. n - 1 : i \notin E
    <3> HIDE DEF E
    <3>1. E # {}
      BY <2>6
    <3> QED
      BY <2>6, <3>1, FirstPlaceIs
  <2>8. n \in f + 1 .. N + 1 /\ (n <= N => ls[n].header # <<>>)
    <3>1. n \in f + 1 .. N + 1 /\ (n = N + 1 \/ ls[n].header # <<>>)
      BY <2>7
    <3>2. n <= N => n # N + 1
      BY <1>1, <2>3, <3>1
    <3> QED
      BY <3>1, <3>2
  <2>9. ASSUME NEW i \in f + 1 .. n - 1
        PROVE  ls[i].header = <<>>
    <3>1. i \in f + 1 .. N + 1 /\ i # N + 1
      BY <1>1, <2>3, <2>8
    <3> QED
      BY <2>7, <3>1
  <2>10. SectionTo(ls, f, n)
    BY <2>8, <2>9 DEF SectionTo, N
  <2> DEFINE K == {i \in f + 1 .. n - 1 : ls[i].key = k}
  <2>11. CASE K = {}
    <3>1. \A i \in f + 1 .. n - 1 : ls[i].key # k
      BY <2>11
    <3>2. Means(ls, s, k, <<>>)
      BY <2>3, <2>5, <2>8, <2>10, <3>1 DEF Means, N
    <3> QED
      BY <3>2
  <2>12. CASE K # {}
    <3>1. K \subseteq f + 1 .. n - 1 /\ f + 1 \in Nat /\ n - 1 \in Nat
      <4>1. f \in Nat /\ n \in Nat /\ n >= 1
        BY <1>1, <2>3, <2>8
      <4> QED
        BY <4>1
    <3>2. PICK j \in K : \A i \in f + 1 .. j - 1 : i \notin K
      <4> HIDE DEF K
      <4> QED
        BY <2>12, <3>1, FirstPlaceIs
    <3>3. j \in f + 1 .. n - 1 /\ ls[j].key = k
      BY <3>2
    <3>4. ASSUME NEW i \in f + 1 .. j - 1
          PROVE  ls[i].key # k
      <4>1. i \in f + 1 .. n - 1
        BY <1>1, <2>3, <2>8, <3>3
      <4> QED
        BY <3>2, <4>1
    <3>5. Means(ls, s, k, ls[j].value)
      BY <2>3, <2>5, <2>8, <2>10, <3>3, <3>4 DEF Means, N
    <3> QED
      BY <3>5
  <2> QED
    BY <2>11, <2>12
<1> QED
  BY <1>2, <1>3

\* A search that finds what it looks for does not need the text behind it.
LEMMA UntilSooner ==
    ASSUME NEW t, NEW p \in Nat, NEW end \in Nat, NEW all \in Nat, p <= end, end <= all, NEW S,
           NEW x \in p .. end - 1, At(t, x) \in S
    PROVE  Until(t, p, end, S) = Until(t, p, all, S) /\ Until(t, p, end, S) \in p .. x
<1> DEFINE u == Until(t, p, end, S)
           w == Until(t, p, all, S)
<1>1. Reached(t, p, end, S, u) /\ Reached(t, p, all, S, w)
  BY UntilIs
<1> HIDE DEF u, w
<1>2. /\ u \in Nat /\ u >= p /\ (u < end => At(t, u) \in S)
      /\ \A q \in p .. u - 1 : At(t, q) \notin S \/ q >= end
      /\ w \in Nat /\ w >= p /\ (w < all => At(t, w) \in S)
      /\ \A q \in p .. w - 1 : At(t, q) \notin S \/ q >= all
  BY <1>1 DEF Reached
<1>3. u <= x
  <2> SUFFICES ASSUME u > x
               PROVE  FALSE
    BY <1>2
  <2>1. x \in p .. u - 1 /\ ~(x >= end)
    BY <1>2
  <2> QED
    BY <1>2, <2>1
<1>4. w <= x
  <2> SUFFICES ASSUME w > x
               PROVE  FALSE
    BY <1>2
  <2>1. x \in p .. w - 1 /\ ~(x >= all)
    BY <1>2
  <2> QED
    BY <1>2, <2>1
<1>5. u < end /\ w < all /\ w < end /\ u < all
  BY <1>2, <1>3, <1>4
<1>6. ~(u < w)
  <2> SUFFICES ASSUME u < w
               PROVE  FALSE
    OBVIOUS
  <2>1. u \in p .. w - 1 /\ ~(u >= all)
    BY <1>2, <1>5
  <2> QED
    BY <1>2, <1>5, <2>1
<1>7. ~(w < u)
  <2> SUFFICES ASSUME w < u
               PROVE  FALSE
    OBVIOUS
  <2>1. w \in p .. u - 1 /\ ~(w >= end)
    BY <1>2, <1>5
  <2> QED
    BY <1>2, <1>5, <2>1
<1>8. u = w /\ u \in p .. x
  BY <1>2, <1>3, <1>6, <1>7
<1> QED
  BY <1>8 DEF u, w

\* Nor does a loop over characters that stops before it.
LEMMA SkipSooner ==
    ASSUME NEW t, NEW p \in Nat, NEW end \in Nat, NEW all \in Nat, p <= end, end <= all, NEW S,
           Skip(t, p, all, S) <= end
    PROVE  Skip(t, p, end, S) = Skip(t, p, all, S)
<1> DEFINE u == Skip(t, p, end, S)
           w == Skip(t, p, all, S)
<1>1. Passed(t, p, end, S, u) /\ Passed(t, p, all, S, w)
  BY SkipIs
<1>2. w <= end
  OBVIOUS
<1> HIDE DEF u, w
<1>3. /\ u \in Nat /\ u >= p /\ u <= end /\ (u < end => At(t, u) \notin S)
      /\ \A q \in p .. u - 1 : At(t, q) \in S
      /\ w \in Nat /\ w >= p /\ (w < all => At(t, w) \notin S)
      /\ \A q \in p .. w - 1 : At(t, q) \in S
  BY <1>1 DEF Passed
<1>4. ~(u < w)
  <2> SUFFICES ASSUME u < w
               PROVE  FALSE
    OBVIOUS
  <2>1. u \in p .. w - 1 /\ u < end
    BY <1>2, <1>3
  <2> QED
    BY <1>3, <2>1
<1>5. ~(w < u)
  <2> SUFFICES ASSUME w < u
               PROVE  FALSE
    OBVIOUS
  <2>1. w \in p .. u - 1 /\ w < all
    BY <1>3
  <2> QED
    BY <1>3, <2>1
<1>6. u = w
  BY <1>3, <1>4, <1>5
<1> QED
  BY <1>6 DEF u, w

\* Behind a line of the section come its line end and the empty lines that follow
\* it, and no more than the section.
LEMMA LineEnds ==
    ASSUME NEW t, NEW ls, NEW at, NEW f, NEW m, NEW n, NEW end, Section(t, ls, at, f, m, n, end),
           NEW j \in m .. n - 1, NEW p \in Nat, In(at, j, p)
    PROVE  \E d \in j + 1 .. n :
             /\ Skip(t, Until(t, p, end, Eol), end, Eol) = at[d]
             /\ \A i \in j + 1 .. d - 1 : Empty(ls[i])
<1> DEFINE N == Len(ls)
           all == Len(t) + 1
           u == Until(t, p, all, Eol)
           skip == Skip(t, u, all, Eol)
<1>1. /\ f \in Nat /\ m \in Nat /\ n \in Nat /\ N \in Nat /\ m >= f + 1 /\ m <= n /\ f >= 1
      /\ n \in 1 .. N + 1 /\ end \in Nat /\ at[n] \in Nat /\ at[n] <= end /\ end <= all
      /\ Len(t) \in Nat /\ t \in Seq(Chars)
      /\ j \in 1 .. N /\ at[j] \in Nat /\ at[j + 1] \in Nat /\ at[j + 1] <= at[n]
  BY SectionIs
<1>2. Written(t, ls, at) /\ SectionTo(ls, f, n)
  BY DEF Section
<1>3. LineAt(t, ls, at, j)
  BY <1>1, <1>2, LineStands
<1> DEFINE x == at[j + 1] - 1
<1>4. at[j + 1] \in 2 .. all /\ t[x] \in Eol /\ at[j] <= p /\ p < at[j + 1] /\ at[j] >= 1
  BY <1>3 DEF LineAt, In
<1>5. /\ x \in p .. end - 1 /\ x \in 1 .. Len(t) /\ p <= end /\ all \in Nat
      /\ x \in p .. all - 1 /\ p <= all /\ x < end /\ x \in Nat
  <2> DEFINE a == at[j + 1]
             b == at[n]
  <2>1. a \in Nat /\ b \in Nat /\ a <= b /\ b <= end /\ end <= all /\ p < a /\ 2 <= a /\ a <= all
        /\ end \in Nat /\ Len(t) \in Nat
    BY <1>1, <1>4
  <2> HIDE DEF a, b
  <2>2. x = a - 1
    BY DEF a
  <2> HIDE DEF x
  <2> QED
    BY <2>1, <2>2
<1>6. At(t, x) \in Eol
  <2>1. DOMAIN t = 1 .. Len(t)
    BY <1>1
  <2> HIDE DEF x
  <2> QED
    BY <1>4, <1>5, <2>1 DEF At
<1> HIDE DEF x, all
<1>7. Until(t, p, end, Eol) = u /\ u \in p .. x
  <2>1. /\ p <= end /\ end <= all /\ all \in Nat /\ end \in Nat
        /\ x \in p .. end - 1 /\ At(t, x) \in Eol
    BY <1>1, <1>5, <1>6
  <2>2. Until(t, p, end, Eol) = Until(t, p, all, Eol) /\ Until(t, p, end, Eol) \in p .. x
    BY <2>1, UntilSooner
  <2> QED
    BY <2>2
<1>8. \E d : BodyAt(ls, at, j, d, skip)
  BY <1>1, <1>2, BodyBegins DEF all
<1>9. PICK d : BodyAt(ls, at, j, d, skip)
  BY <1>8
<1>10. d \in j + 1 .. N + 1 /\ skip = at[d] /\ \A i \in j + 1 .. d - 1 : Empty(ls[i])
  BY <1>9 DEF BodyAt
<1> HIDE DEF N, u, skip
\* A header is no empty line.
<1>11. d <= n
  <2> SUFFICES ASSUME d > n
               PROVE  FALSE
    BY <1>1, <1>10
  <2>1. n \in j + 1 .. d - 1 /\ n \in 1 .. N /\ n <= N
    BY <1>1, <1>10
  <2>2. ls[n].header # <<>>
    BY <1>2, <2>1 DEF SectionTo, N
  <2>3. ls[n] \in GoodLines
    BY <1>2, <2>1 DEF Written, N
  <2> QED
    BY <1>10, <2>1, <2>2, <2>3, EmptyLine
<1>12. at[d] <= end
  <2>1. d \in 1 .. Len(ls) + 1 /\ n \in 1 .. Len(ls) + 1
    BY <1>1, <1>10 DEF N
  <2>2. d < n => at[d] < at[n]
    BY <1>2, <2>1, LinesAscend
  <2>3. d = n \/ d < n
    BY <1>1, <1>10, <1>11
  <2>4. at[d] \in Nat
    BY <1>2, <2>1 DEF Written, Laid
  <2> QED
    BY <1>1, <2>2, <2>3, <2>4
<1>13. Skip(t, u, end, Eol) = skip
  <2>1. u \in Nat /\ u <= end
    BY <1>1, <1>5, <1>7
  <2>2. Skip(t, u, all, Eol) <= end
    BY <1>10, <1>12 DEF skip
  <2> QED
    BY <1>1, <1>5, <2>1, <2>2, SkipSooner DEF skip
<1>14. d \in j + 1 .. n
  BY <1>1, <1>10, <1>11
<1> QED
  BY <1>7, <1>10, <1>13, <1>14

\* The range r is where a set puts the item: it begins behind the blanks of line c
\* and ends where line d begins.
Opening(t, ls, at, s, k, r, f, n, c, d) ==
    /\ Putting(ls, s, k, f, n, c, d)
    /\ r.begin \in Nat /\ r.end = at[d] /\ at[c] <= r.begin /\ r.begin <= at[d]
    /\ \A q \in at[c] .. r.begin - 1 : t[q] \in Blank

\* Where a section has no item of the key, a new one comes first.
LEMMA NewPlace ==
    ASSUME NEW s \in Sections, NEW k \in Keys,
           NEW t, NEW ls, NEW at, NEW f, NEW m, NEW n, NEW end, Section(t, ls, at, f, m, n, end),
           HeaderAt(ls, s, f), \A i \in f + 1 .. m - 1 : Empty(ls[i]),
           \A i \in m .. n - 1 : ls[i].key # k,
           NEW range, range = [begin |-> at[m], end |-> end]
    PROVE  Opening(t, ls, at, s, k, Place(range, LocateKeyRange(t, k, range)), f, n, m, m)
<1> DEFINE kat == LocateKey(t, k, range)
           old == LocateKeyRange(t, k, range)
           r == Place(range, old)
<1>1. FirstKey(t, at[m], k, end, kat)
  BY FirstKeyFound
<1>2. kat.begin = 0
  <2> HIDE DEF kat
  <2> QED
    BY <1>1, NoItem
<1>3. old = None
  BY <1>2 DEF LocateKeyRange
<1>4. r = [begin |-> at[m], end |-> at[m]]
  BY <1>3 DEF Place
<1>5. /\ f \in Nat /\ m \in Nat /\ n \in Nat /\ m >= f + 1 /\ m <= n /\ at[m] \in Nat
      /\ n \in 1 .. Len(ls) + 1 /\ Len(ls) \in Nat
  BY SectionIs
<1>6. m \in f + 1 .. n /\ m \in m .. n /\ m - 1 < m
  BY <1>5
<1>7. \A i \in f + 1 .. m - 1 : ls[i].key # k
  <2> SUFFICES ASSUME NEW i \in f + 1 .. m - 1
               PROVE  ls[i].key # k
    OBVIOUS
  <2>1. i \in 1 .. Len(ls)
    BY <1>5
  <2>2. ls[i] \in GoodLines
    BY <2>1 DEF Section, Written
  <2> QED
    BY <2>2, EmptyLine
<1>8. \A i \in m .. m - 1 : FALSE
  BY <1>5
<1>9. Putting(ls, s, k, f, n, m, m)
  BY <1>6, <1>7, <1>8 DEF Putting, Section
<1>10. \A q \in at[m] .. at[m] - 1 : FALSE
  BY <1>5
<1> HIDE DEF r
<1> QED
  BY <1>4, <1>5, <1>9, <1>10 DEF Opening, r, old

\* Otherwise the line of the first one is replaced, and the empty ones behind it.
LEMMA OldPlace ==
    ASSUME NEW s \in Sections, NEW k \in Keys,
           NEW t, NEW ls, NEW at, NEW f, NEW m, NEW n, NEW end, Section(t, ls, at, f, m, n, end),
           HeaderAt(ls, s, f), \A i \in f + 1 .. m - 1 : Empty(ls[i]),
           NEW j, ItemFirst(ls, m, n, j, k),
           NEW range, range = [begin |-> at[m], end |-> end]
    PROVE  \E d : Opening(t, ls, at, s, k, Place(range, LocateKeyRange(t, k, range)), f, n, j, d)
<1> DEFINE kat == LocateKey(t, k, range)
           old == LocateKeyRange(t, k, range)
           r == Place(range, old)
           eol == Until(t, kat.end + 1, end, Eol)
           next == Skip(t, eol, end, Eol)
<1>1. FirstKey(t, at[m], k, end, kat)
  BY FirstKeyFound
<1>2. j \in m .. n - 1 /\ ls[j].key = k /\ \A i \in m .. j - 1 : ls[i].key # k
  BY DEF ItemFirst
<1>3. /\ f \in Nat /\ m \in Nat /\ n \in Nat /\ m >= f + 1 /\ m <= n
      /\ n \in 1 .. Len(ls) + 1 /\ Len(ls) \in Nat /\ end \in Nat
      /\ at[n] \in Nat /\ at[n] <= end
      /\ j \in 1 .. Len(ls) /\ ls[j].header = <<>>
      /\ at[j] \in Nat /\ at[j + 1] \in Nat /\ at[j + 1] <= at[n]
  BY <1>2, SectionIs
<1>4. Written(t, ls, at) /\ SectionTo(ls, f, n) /\ ls \in Seq(GoodLines)
  BY DEF Section, Written
<1>5. ItemThere(t, k, ls[j].value, at[j], at[j + 1], end)
  <2>1. at[j + 1] <= end
    BY <1>3
  <2> QED
    BY <1>2, <1>3, <1>4, <2>1, ItemIs
<1> HIDE DEF kat
<1>6. Hit(t, k, ls[j].value, at[j], at[j + 1], end, kat)
  BY <1>1, <1>5, FirstItem
<1> DEFINE p == kat.begin
           e == kat.end
<1>7. /\ p # 0 /\ p \in at[j] .. at[j + 1] - 1 /\ e \in at[j] .. at[j + 1] - 1
      /\ \A q \in at[j] .. p - 1 : t[q] \in Blank
      /\ \E b \in Nat : b \in at[j] .. at[j + 1] - 1 /\ e < b
  BY <1>6 DEF Hit, ItemStands
<1> HIDE DEF p, e
<1>8. e + 1 \in Nat /\ In(at, j, e + 1) /\ p \in Nat /\ at[j] <= p /\ p < at[j + 1]
  <2>1. PICK b \in Nat : b \in at[j] .. at[j + 1] - 1 /\ e < b
    BY <1>7
  <2>2. p \in at[j] .. at[j + 1] - 1 /\ e \in at[j] .. at[j + 1] - 1
    BY <1>7
  <2>3. at[j] \in Nat /\ at[j + 1] \in Nat
    BY <1>3
  <2> QED
    BY <2>1, <2>2, <2>3 DEF In
<1>9. PICK d \in j + 1 .. n : next = at[d] /\ \A i \in j + 1 .. d - 1 : Empty(ls[i])
  <2>1. \E d \in j + 1 .. n :
             /\ Skip(t, Until(t, e + 1, end, Eol), end, Eol) = at[d]
             /\ \A i \in j + 1 .. d - 1 : Empty(ls[i])
    BY <1>2, <1>8, LineEnds
  <2> QED
    BY <2>1 DEF e
<1>10. old = [begin |-> p, end |-> next]
  <2>1. range.end = end
    OBVIOUS
  <2>2. old = IF kat.begin = 0 THEN None ELSE [begin |-> kat.begin, end |-> Skip(t, Until(t, kat.end + 1, range.end, Eol), range.end, Eol)]
    BY DEF LocateKeyRange, kat
  <2> QED
    BY <1>7, <2>1, <2>2 DEF p
<1> HIDE DEF next, old
<1>11. r.begin = p /\ r.end = at[d]
  <2>1. old.begin = p /\ old.end = at[d]
    BY <1>9, <1>10
  <2>2. None.begin = 0
    BY DEF None
  <2>3. old # None
    BY <1>7, <2>1, <2>2
  <2> QED
    BY <2>1, <2>3 DEF Place
<1> HIDE DEF r
<1>12. p <= at[d]
  <2>1. j + 1 \in 1 .. Len(ls) + 1 /\ d \in 1 .. Len(ls) + 1 /\ (j + 1 = d \/ j + 1 < d)
    BY <1>2, <1>3, <1>9
  <2>2. j + 1 < d => at[j + 1] < at[d]
    BY <1>4, <2>1, LinesAscend
  <2>3. at[d] \in Nat
    BY <1>4, <2>1 DEF Written, Laid
  <2>4. at[j + 1] <= at[d]
    BY <1>3, <2>1, <2>2, <2>3
  <2> QED
    BY <1>3, <1>8, <2>3, <2>4
<1>13. ASSUME NEW i \in f + 1 .. j - 1
       PROVE  ls[i].key # k
  <2>1. CASE i < m
    <3>1. i \in f + 1 .. m - 1 /\ i \in 1 .. Len(ls)
      BY <1>2, <1>3, <2>1
    <3>2. ls[i] \in GoodLines /\ Empty(ls[i])
      BY <1>4, <3>1
    <3> QED
      BY <3>2, EmptyLine
  <2>2. CASE i >= m
    <3>1. i \in m .. j - 1
      BY <1>2, <1>3, <2>2
    <3> QED
      BY <1>2, <3>1
  <2> QED
    BY <1>3, <2>1, <2>2
<1>14. ASSUME NEW i \in j .. d - 1
       PROVE  ls[i].key = k \/ ls[i].key \notin Keys
  <2>1. CASE i = j
    BY <1>2, <2>1
  <2>2. CASE i > j
    <3>1. i \in j + 1 .. d - 1 /\ i \in 1 .. Len(ls)
      BY <1>3, <1>9, <2>2
    <3>2. ls[i] \in GoodLines /\ Empty(ls[i])
      BY <1>4, <1>9, <3>1
    <3> QED
      BY <3>2, EmptyLine
  <2> QED
    BY <1>3, <2>1, <2>2
<1>15. j \in f + 1 .. n /\ d \in j .. n
  BY <1>2, <1>3, <1>9
<1>16. Putting(ls, s, k, f, n, j, d)
  BY <1>4, <1>13, <1>14, <1>15 DEF Putting
<1>17. Opening(t, ls, at, s, k, r, f, n, j, d)
  BY <1>7, <1>8, <1>11, <1>12, <1>16 DEF Opening
<1> QED
  BY <1>17 DEF r, old

\* So there is such a place in every section that is known.
LEMMA PlaceFound ==
    ASSUME NEW s \in Sections, NEW k \in Keys, NEW t, NEW ls, NEW at, Written(t, ls, at),
           NEW range, range = LocateSection(t, s), range # None
    PROVE  \E f, n, c, d :
             Opening(t, ls, at, s, k, Place(range, LocateKeyRange(t, k, range)), f, n, c, d)
<1> DEFINE r == Place(range, LocateKeyRange(t, k, range))
<1>1. ls \in Seq(GoodLines) /\ Len(ls) \in Nat
  BY DEF Written
<1>2. PICK v : Means(ls, s, k, v)
  BY <1>1, LinesMean
<1>3. ~\A i \in 1 .. Len(ls) : ls[i].header # s
  BY SectionFound
<1>4. \E f \in 1 .. Len(ls) : \E n \in f + 1 .. Len(ls) + 1 :
         /\ HeaderAt(ls, s, f) /\ SectionTo(ls, f, n)
         /\ \/ (\A i \in f + 1 .. n - 1 : ls[i].key # k)
            \/ \E j \in f + 1 .. n - 1 :
                 ls[j].key = k /\ (\A i \in f + 1 .. j - 1 : ls[i].key # k)
  BY <1>2, <1>3 DEF Means
<1>5. PICK f \in 1 .. Len(ls) : \E n \in f + 1 .. Len(ls) + 1 :
         /\ HeaderAt(ls, s, f) /\ SectionTo(ls, f, n)
         /\ \/ (\A i \in f + 1 .. n - 1 : ls[i].key # k)
            \/ \E j \in f + 1 .. n - 1 :
                 ls[j].key = k /\ (\A i \in f + 1 .. j - 1 : ls[i].key # k)
  BY <1>4
<1>6. PICK n \in f + 1 .. Len(ls) + 1 :
         /\ HeaderAt(ls, s, f) /\ SectionTo(ls, f, n)
         /\ \/ (\A i \in f + 1 .. n - 1 : ls[i].key # k)
            \/ \E j \in f + 1 .. n - 1 :
                 ls[j].key = k /\ (\A i \in f + 1 .. j - 1 : ls[i].key # k)
  BY <1>5
<1>7. PICK m \in f + 1 .. n, end \in Nat :
        /\ Section(t, ls, at, f, m, n, end)
        /\ range = [begin |-> at[m], end |-> end]
        /\ \A i \in f + 1 .. m - 1 : Empty(ls[i])
  BY <1>6, SectionFound
<1>8. f \in Nat /\ n \in Nat /\ m \in Nat /\ m <= n /\ n <= Len(ls) + 1 /\ m >= f + 1 /\ f >= 1
  BY <1>1, <1>6, <1>7
<1>9. CASE \A i \in f + 1 .. n - 1 : ls[i].key # k
  <2>1. \A i \in m .. n - 1 : i \in f + 1 .. n - 1
    BY <1>8
  <2>2. \A i \in m .. n - 1 : ls[i].key # k
    BY <1>9, <2>1
  <2> HIDE DEF r
  <2>3. Opening(t, ls, at, s, k, r, f, n, m, m)
    BY <1>6, <1>7, <2>2, NewPlace DEF r
  <2> QED
    BY <2>3 DEF r
<1>10. ASSUME NEW j \in f + 1 .. n - 1, ls[j].key = k, \A i \in f + 1 .. j - 1 : ls[i].key # k
      PROVE  \E d : Opening(t, ls, at, s, k, r, f, n, j, d)
  \* An empty line has no key.
  <2>1. j >= m
    <3> SUFFICES ASSUME j < m
                 PROVE  FALSE
      BY <1>8
    <3>1. j \in f + 1 .. m - 1 /\ j \in 1 .. Len(ls)
      BY <1>8
    <3>2. ls[j] \in GoodLines /\ Empty(ls[j])
      BY <1>1, <1>7, <3>1
    <3> QED
      BY <1>10, <3>2, EmptyLine
  <2>2. j \in m .. n - 1 /\ \A i \in m .. j - 1 : i \in f + 1 .. j - 1
    BY <1>8, <2>1
  <2>3. ItemFirst(ls, m, n, j, k)
    BY <1>10, <2>2 DEF ItemFirst
  <2> QED
    BY <1>6, <1>7, <2>3, OldPlace
<1> QED
  BY <1>6, <1>9, <1>10

-----------------------------------------------------------------------------
(* The text a set makes is written too.                                    *)

\* The line SetItemValue writes ends a line.
LEMMA ItemLineEnds ==
    ASSUME NEW k \in Seq(Chars), NEW v \in Seq(Chars), NEW line, line = ItemLine(k, v)
    PROVE  line \in Seq(Chars) /\ Len(line) \in Nat \ {0} /\ line[Len(line)] \in Eol
<1> DEFINE eq == <<" ", "=", " ">>
           nl == <<"\n">>
           a == k \o eq
           b == a \o v
<1>1. eq \in Seq(Chars) /\ nl \in Seq(Chars) /\ Len(nl) = 1 /\ nl[1] = "\n"
  <2>1. \A T : \A x, y \in T : <<x, y, x>> \in Seq(T)
    OBVIOUS
  <2>2. " " \in Chars /\ "=" \in Chars /\ "\n" \in Chars
    BY DEF Chars, Space, Eol, Blank
  <2> QED
    BY <2>1, <2>2, OneIs
<1> HIDE DEF eq, nl
<1>2. a \in Seq(Chars)
  BY <1>1, JoinedIs
<1> HIDE DEF a
<1>3. b \in Seq(Chars)
  BY <1>2, JoinedIs
<1> HIDE DEF b
<1>4. /\ b \o nl \in Seq(Chars) /\ Len(b \o nl) = Len(b) + Len(nl)
      /\ \A i \in 1 .. Len(nl) : (b \o nl)[Len(b) + i] = nl[i]
  BY <1>1, <1>3, JoinedIs
<1>5. line = b \o nl
  BY DEF ItemLine, a, b, eq, nl
<1>6. Len(b) \in Nat /\ 1 \in 1 .. 1
  BY <1>3
<1>7. line[Len(b) + 1] = "\n"
  BY <1>1, <1>4, <1>5, <1>6
<1>8. Len(line) = Len(b) + 1
  BY <1>1, <1>4, <1>5
<1>9. "\n" \in Eol
  BY DEF Eol
<1> QED
  BY <1>4, <1>5, <1>6, <1>7, <1>8, <1>9

\* With the blanks in front of the place it is put at, the line y is made.
Made(t, x, b, line, y) ==
    /\ Indented(y, line, (b - x) + 1)
    /\ \A q \in 1 .. b - x : y[q] = t[(x - 1) + q]

LEMMA LineMade ==
    ASSUME NEW t \in Seq(Chars), NEW x \in Nat, NEW b \in Nat, 1 <= x, x <= b, b <= Len(t) + 1,
           \A q \in x .. b - 1 : t[q] \in Blank,
           NEW line \in Seq(Chars), Len(line) \in Nat \ {0}, line[Len(line)] \in Eol,
           NEW y, y = SubSeq(t, x, b - 1) \o line
    PROVE  Made(t, x, b, line, y)
<1> DEFINE h == SubSeq(t, x, b - 1)
           m == b - x
<1>1. m \in Nat /\ b - 1 \in Nat /\ Len(t) \in Nat /\ b - 1 <= Len(t) /\ x <= (b - 1) + 1
      /\ ((b - 1) + 1) - x = m
  OBVIOUS
<1>2. /\ h \in Seq(Chars) /\ Len(h) = ((b - 1) + 1) - x
      /\ \A i \in 1 .. ((b - 1) + 1) - x : h[i] = t[x + i - 1]
  <2> DEFINE n == b - 1
  <2>1. n \in Nat /\ x <= n + 1 /\ n <= Len(t)
    BY <1>1
  <2> HIDE DEF n
  <2> DEFINE g == SubSeq(t, x, n)
  <2>2. /\ g \in Seq(Chars) /\ Len(g) = (n + 1) - x
        /\ \A i \in 1 .. (n + 1) - x : g[i] = t[x + i - 1]
    BY <2>1, PartIs
  <2> HIDE DEF g
  <2>3. g = h
    BY DEF g, h, n
  <2> QED
    BY <2>2, <2>3 DEF n
<1> HIDE DEF h
<1>3. y = h \o line /\ h \in Seq(Chars)
  BY <1>2 DEF h
<1>4. /\ y \in Seq(Chars) /\ Len(y) = Len(h) + Len(line)
      /\ \A i \in 1 .. Len(h) : y[i] = h[i]
      /\ \A i \in 1 .. Len(line) : y[Len(h) + i] = line[i]
  <2>1. /\ h \o line \in Seq(Chars) /\ Len(h \o line) = Len(h) + Len(line)
        /\ \A i \in 1 .. Len(h) : (h \o line)[i] = h[i]
        /\ \A i \in 1 .. Len(line) : (h \o line)[Len(h) + i] = line[i]
    BY <1>3, JoinedIs
  <2> QED
    BY <1>3, <2>1, Zenon
<1>5. Len(h) = m /\ \A i \in 1 .. m : h[i] = t[x + i - 1]
  BY <1>1, <1>2
<1>6. ASSUME NEW q \in 1 .. m
      PROVE  y[q] = t[(x - 1) + q]
  <2>1. x + q - 1 = (x - 1) + q
    BY <1>1
  <2>2. y[q] = h[q] /\ h[q] = t[x + q - 1]
    BY <1>4, <1>5
  <2> QED
    BY <2>1, <2>2
<1>7. \A q \in 1 .. (m + 1) - 1 : y[q] \in Blank
  <2> SUFFICES ASSUME NEW q \in 1 .. (m + 1) - 1
               PROVE  y[q] \in Blank
    OBVIOUS
  <2>1. q \in 1 .. m
    BY <1>1
  <2>2. (x - 1) + q \in x .. b - 1
    BY <2>1
  <2> QED
    BY <1>6, <2>1, <2>2
<1>8. \A q \in 1 .. Len(line) : y[((m + 1) - 1) + q] = line[q]
  <2>1. (m + 1) - 1 = m
    BY <1>1
  <2> QED
    BY <1>4, <1>5, <2>1
<1>9. Len(line) \in Nat
  OBVIOUS
<1>10. m \in Nat
  BY <1>1
<1>11. Len(y) = m + Len(line)
  BY <1>4, <1>5
<1> HIDE DEF m
<1>12. Len(y) \in Nat /\ m + 1 \in Nat \ {0} /\ Len(y) + 1 = (m + 1) + Len(line)
  <2> DEFINE n == Len(y)
             w == Len(line)
  <2>1. w \in Nat /\ m \in Nat /\ n = m + w
    BY <1>9, <1>10, <1>11
  <2> HIDE DEF n, w
  <2>2. n \in Nat /\ m + 1 \in Nat \ {0} /\ n + 1 = (m + 1) + w
    BY <2>1
  <2> QED
    BY <2>2 DEF n, w
<1>13. Indented(y, line, m + 1)
  <2>1. Len(line) \in Nat \ {0} /\ line[Len(line)] \in Eol /\ line \in Seq(Chars)
    OBVIOUS
  <2> QED
    BY <1>4, <1>7, <1>8, <1>12, <2>1, Zenon DEF Indented
<1> QED
  BY <1>6, <1>13 DEF m, Made

\* Putting it behind the blanks is putting that line in place of the lines.
LEMMA LineSpliced ==
    ASSUME NEW t \in Seq(Chars), NEW r, NEW x \in Nat, r.begin \in Nat, r.end \in Nat,
           1 <= x, x <= r.begin, r.begin <= r.end, r.end <= Len(t) + 1,
           NEW line \in Seq(Chars), NEW y, Made(t, x, r.begin, line, y),
           NEW new, Spliced(t, r, line, new)
    PROVE  Spliced(t, [begin |-> x, end |-> r.end], y, new)
<1> DEFINE b == r.begin
           e == r.end
           m == b - x
           r2 == [begin |-> x, end |-> e]
<1>1. /\ b \in Nat /\ e \in Nat /\ m \in Nat /\ Len(t) \in Nat /\ Len(line) \in Nat
      /\ x + m = b /\ 1 <= x /\ x <= b /\ b <= e /\ e <= Len(t) + 1
      /\ (((b - x) + 1) - 1) = m
  OBVIOUS
<1>2. /\ y \in Seq(Chars) /\ Len(y) \in Nat /\ Len(y) = m + Len(line)
      /\ \A q \in 1 .. Len(line) : y[m + q] = line[q]
  <2>1. /\ y \in Seq(Chars) /\ Len(y) \in Nat /\ Len(y) + 1 = ((b - x) + 1) + Len(line)
        /\ \A q \in 1 .. Len(line) : y[(((b - x) + 1) - 1) + q] = line[q]
    BY DEF Indented, Made
  <2> HIDE DEF b, m
  <2>2. \A q \in 1 .. Len(line) : y[m + q] = line[q]
    BY <1>1, <2>1
  <2> QED
    BY <1>1, <2>1, <2>2
<1>3. /\ new \in Seq(Chars)
      /\ Len(new) = Len(t) + Len(line) - (e - b)
      /\ \A i \in 1 .. b - 1 : new[i] = t[i]
      /\ \A i \in 1 .. Len(line) : new[b - 1 + i] = line[i]
      /\ \A i \in 0 .. Len(t) - e : new[b + Len(line) + i] = t[e + i]
  BY DEF Spliced
<1>4. \A q \in 1 .. m : y[q] = t[(x - 1) + q]
  BY DEF Made
<1>5. r2.begin = x /\ r2.end = e
  OBVIOUS
<1> HIDE DEF b, e, m, r2
<1>6. /\ b \in Nat /\ e \in Nat /\ m \in Nat /\ Len(t) \in Nat /\ Len(line) \in Nat
       /\ x \in Nat /\ Len(y) \in Nat /\ Len(y) = m + Len(line) /\ b = x + m
       /\ 1 <= x /\ Len(new) = Len(t) + Len(line) - (e - b)
  BY <1>1, <1>2, <1>3
<1>7. Len(new) = Len(t) + Len(y) - (e - x)
  BY <1>6
<1>8. \A i \in 1 .. x - 1 : new[i] = t[i]
  <2>1. \A i \in 1 .. x - 1 : i \in 1 .. b - 1
    BY <1>6
  <2> QED
    BY <1>3, <2>1
<1>9. ASSUME NEW i \in 1 .. Len(y)
      PROVE  new[x - 1 + i] = y[i]
  <2>1. CASE i <= m
    <3>1. i \in 1 .. m /\ x - 1 + i \in 1 .. b - 1 /\ (x - 1) + i = x - 1 + i
      BY <1>6, <2>1
    <3> QED
      BY <1>3, <1>4, <3>1
  <2>2. CASE i > m
    <3>1. i - m \in 1 .. Len(line)
      BY <1>6, <2>2
    <3>2. b - 1 + (i - m) = x - 1 + i /\ m + (i - m) = i
      BY <1>6, <2>2
    <3>3. new[b - 1 + (i - m)] = line[i - m]
      BY <1>3, <3>1
    <3>4. y[m + (i - m)] = line[i - m]
      BY <1>2, <3>1
    <3> QED
      BY <3>2, <3>3, <3>4
  <2> QED
    BY <1>6, <2>1, <2>2
<1>10. \A i \in 0 .. Len(t) - e : new[x + Len(y) + i] = t[e + i]
  <2> SUFFICES ASSUME NEW i \in 0 .. Len(t) - e
               PROVE  new[x + Len(y) + i] = t[e + i]
    OBVIOUS
  <2>1. b + Len(line) + i = x + Len(y) + i
    BY <1>6
  <2> QED
    BY <1>3, <2>1
<1>11. Spliced(t, r2, y, new)
  BY <1>3, <1>5, <1>7, <1>8, <1>9, <1>10 DEF Spliced
<1> QED
  BY <1>11 DEF r2, e

\* What a set writes is a line of its own, in a section of the name, in place of
\* the first item of the key, or of nothing.
IsPut(ls, s, k, v, ls2) ==
    \E f, n, c, d, l :
       /\ Putting(ls, s, k, f, n, c, d)
       /\ l.header = <<>> /\ l.key = k /\ l.value = v
       /\ Put(ls, c, d, l, ls2)

LEMMA LinePut ==
    ASSUME NEW s \in Sections, NEW k \in Keys, NEW v \in SetValues,
           NEW t, NEW ls, NEW at, Written(t, ls, at), LocateSection(t, s) # None,
           NEW new, new = Replaced(t, s, k, v)
    PROVE  \E ls2, at2 : Written(new, ls2, at2) /\ IsPut(ls, s, k, v, ls2)
<1> DEFINE range == LocateSection(t, s)
           r == Place(range, LocateKeyRange(t, k, range))
           line == ItemLine(k, v)
<1>1. PICK f, n, c, d : Opening(t, ls, at, s, k, r, f, n, c, d)
  BY PlaceFound
<1>2. new = Splice(t, r, line)
  BY DEF Replaced
<1>3. k \in Seq(Chars) /\ v \in Seq(Chars)
  BY ArgumentsAreTexts
<1>4. line \in Seq(Chars) /\ Len(line) \in Nat \ {0} /\ line[Len(line)] \in Eol
  BY <1>3, ItemLineEnds
<1>5. Item(k, v, line) \in GoodLines
  <2>1. <<>> \in Seq(Chars)
    BY ArgumentsAreTexts
  <2>2. WellWritten(Item(k, v, line))
    BY SetLinesAssumption
  <2>3. Item(k, v, line) \in [header: Seq(Chars), key: Seq(Chars), value: Seq(Chars), text: Seq(Chars)]
    BY <1>3, <1>4, <2>1 DEF Item
  <2> QED
    BY <2>2, <2>3 DEF GoodLines
<1> HIDE DEF r, line, range
<1>6. /\ Putting(ls, s, k, f, n, c, d)
      /\ r.begin \in Nat /\ r.end = at[d] /\ at[c] <= r.begin /\ r.begin <= at[d]
      /\ \A q \in at[c] .. r.begin - 1 : t[q] \in Blank
  BY <1>1 DEF Opening
<1>7. /\ t \in Seq(Chars) /\ ls \in Seq(GoodLines) /\ Len(ls) \in Nat /\ Len(t) \in Nat
      /\ at \in [1 .. Len(ls) + 1 -> Nat] /\ at[1] = 1 /\ at[Len(ls) + 1] = Len(t) + 1
  BY DEF Written, Laid
<1>8. c \in 1 .. Len(ls) + 1 /\ d \in c .. Len(ls) + 1 /\ d \in 1 .. Len(ls) + 1
  <2>1. f \in 1 .. Len(ls) /\ n \in f + 1 .. Len(ls) + 1 /\ c \in f + 1 .. n /\ d \in c .. n
    BY <1>6 DEF Putting, HeaderAt, SectionTo
  <2> QED
    BY <1>7, <2>1
<1>9. at[c] \in Nat /\ at[d] \in Nat /\ 1 <= at[c] /\ at[d] <= Len(t) + 1
  <2>1. at[c] \in Nat /\ at[d] \in Nat
    BY <1>7, <1>8
  <2>2. 1 \in 1 .. Len(ls) + 1 /\ Len(ls) + 1 \in 1 .. Len(ls) + 1
    BY <1>7
  <2>3. 1 < c => at[1] < at[c]
    BY <1>8, <2>2, LinesAscend
  <2>4. d < Len(ls) + 1 => at[d] < at[Len(ls) + 1]
    BY <1>8, <2>2, LinesAscend
  <2>5. (c = 1 \/ 1 < c) /\ (d = Len(ls) + 1 \/ d < Len(ls) + 1)
    BY <1>7, <1>8
  <2>6. 1 <= at[c]
    BY <1>7, <2>1, <2>3, <2>5
  <2>7. at[d] <= Len(t) + 1
    BY <1>7, <2>1, <2>4, <2>5
  <2> QED
    BY <2>1, <2>6, <2>7
<1>10. Spliced(t, r, line, new)
  <2>1. r.begin \in 1 .. Len(t) + 1 /\ r.end \in r.begin .. Len(t) + 1
    BY <1>6, <1>7, <1>9
  <2> QED
    BY <1>2, <1>4, <1>7, <2>1, SpliceIs
<1> DEFINE x == at[c]
           b == r.begin
           y == SubSeq(t, x, b - 1) \o line
           l == Item(k, v, y)
           ls2 == Swapped(ls, c, d, l)
<1>11. Made(t, x, b, line, y)
  <2>1. x \in Nat /\ b \in Nat /\ 1 <= x /\ x <= b /\ b <= Len(t) + 1
        /\ \A q \in x .. b - 1 : t[q] \in Blank
    BY <1>6, <1>7, <1>9
  <2>2. y = SubSeq(t, x, b - 1) \o line
    OBVIOUS
  <2>3. t \in Seq(Chars)
    BY <1>7
  <2> HIDE DEF x, b, y
  <2> QED
    BY <1>4, <2>1, <2>2, <2>3, LineMade
<1> HIDE DEF y
<1>12. Spliced(t, [begin |-> at[c], end |-> at[d]], y, new)
  <2>1. r.end \in Nat /\ r.begin <= r.end /\ r.end <= Len(t) + 1
    <3>1. r.end = at[d] /\ r.begin <= at[d]
      BY <1>6
    <3> QED
      BY <1>9, <3>1
  <2>2. x \in Nat /\ b \in Nat /\ 1 <= x /\ x <= b
    BY <1>6, <1>9
  <2>3. Spliced(t, [begin |-> x, end |-> r.end], y, new)
    BY <1>4, <1>7, <1>10, <1>11, <2>1, <2>2, LineSpliced
  <2> QED
    BY <1>6, <2>3
<1>13. l \in GoodLines
  <2>1. /\ Item(k, v, line).header = <<>> /\ Item(k, v, line).key = k
        /\ Item(k, v, line).value = v /\ Item(k, v, line).text = line
    BY DEF Item
  <2> QED
    BY <1>5, <1>11, <2>1, IndentedGood DEF Made
<1>14. l.header = <<>> /\ l.key = k /\ l.value = v /\ l.text = y
  BY DEF Item
<1> HIDE DEF l
<1>15. \E at2 : Written(new, ls2, at2)
  BY <1>8, <1>12, <1>13, <1>14, LinesReplaced
<1>16. Put(ls, c, d, l, ls2)
  <2>1. Replacing(ls, c, d, l, ls2)
    BY <1>7, <1>8, <1>13, SwappedIs
  <2> HIDE DEF ls2
  <2> QED
    BY <1>7, <1>8, <2>1, PutIs
<1> HIDE DEF ls2
<1>17. IsPut(ls, s, k, v, ls2)
  BY <1>6, <1>14, <1>16 DEF IsPut
<1> QED
  BY <1>15, <1>17

\* A set gives its item the value and leaves every other one alone.
LEMMA ItemsSet ==
    ASSUME NEW s \in Sections, NEW k \in Keys, NEW v \in SetValues,
           NEW t, NEW ls, NEW at, Written(t, ls, at),
           NEW new, NEW ls2, NEW at2, Written(new, ls2, at2), IsPut(ls, s, k, v, ls2)
    PROVE  Items(new) = [Items(t) EXCEPT ![<<s, k>>] = v]
<1>1. PICK f, n, c, d, l :
        /\ Putting(ls, s, k, f, n, c, d)
        /\ l.header = <<>> /\ l.key = k /\ l.value = v
        /\ Put(ls, c, d, l, ls2)
  BY DEF IsPut
<1>2. GetItemValue(new, s, k, BufSize) = v
  <2>1. Means(ls2, s, k, v)
    BY <1>1, MeaningSet
  <2> QED
    BY <2>1, LookupFinds
<1>3. ASSUME NEW s2 \in Sections, NEW k2 \in Keys, s2 # s \/ k2 # k
      PROVE  GetItemValue(new, s2, k2, BufSize) = GetItemValue(t, s2, k2, BufSize)
  <2>1. ls \in Seq(GoodLines)
    BY DEF Written
  <2>2. PICK u : Means(ls, s2, k2, u)
    BY <2>1, LinesMean
  <2>3. Means(ls2, s2, k2, u)
    BY <1>1, <1>3, <2>2, MeaningKept
  <2>4. GetItemValue(new, s2, k2, BufSize) = u
    BY <2>3, LookupFinds
  <2>5. GetItemValue(t, s2, k2, BufSize) = u
    BY <2>2, LookupFinds
  <2> QED
    BY <2>4, <2>5
<1> DEFINE I == Sections \X Keys
           a == Items(new)
           b == [Items(t) EXCEPT ![<<s, k>>] = v]
<1>4. /\ a = [i \in I |-> GetItemValue(new, i[1], i[2], BufSize)]
      /\ Items(t) = [i \in I |-> GetItemValue(t, i[1], i[2], BufSize)]
  BY DEF Items
<1>5. DOMAIN Items(t) = I /\ DOMAIN a = I
  BY <1>4
<1>6. b = [i \in I |-> IF i = <<s, k>> THEN v ELSE Items(t)[i]]
  BY <1>5
<1>7. ASSUME NEW i \in I
      PROVE  a[i] = b[i]
  <2>1. PICK s2 \in Sections, k2 \in Keys : i = <<s2, k2>>
    OBVIOUS
  <2>2. i[1] = s2 /\ i[2] = k2
    BY <2>1
  <2>3. a[i] = GetItemValue(new, s2, k2, BufSize) /\ Items(t)[i] = GetItemValue(t, s2, k2, BufSize)
    BY <1>4, <2>2
  <2>4. CASE s2 = s /\ k2 = k
    <3>1. b[i] = v
      BY <1>6, <2>1, <2>4
    <3> QED
      BY <1>2, <2>3, <2>4, <3>1
  <2>5. CASE s2 # s \/ k2 # k
    <3>1. i # <<s, k>>
      BY <2>1, <2>5
    <3>2. b[i] = Items(t)[i]
      BY <1>6, <3>1
    <3> QED
      BY <1>3, <2>3, <2>5, <3>2
  <2> QED
    BY <2>4, <2>5
<1> HIDE DEF a, b
<1>8. a = [i \in I |-> a[i]] /\ b = [i \in I |-> b[i]]
  BY <1>4, <1>6 DEF a
<1>9. a = b
  BY <1>7, <1>8
<1> QED
  BY <1>9 DEF a, b

-----------------------------------------------------------------------------
(* The items are those of ConfigStore, and Promise.                        *)

\* What the lookups return is a table of values.
LEMMA ItemsAreTable ==
    ASSUME NEW t \in Seq(Chars)
    PROVE  Items(t) \in Store!Table
<1>1. ASSUME NEW s \in Sections, NEW k \in Keys
      PROVE  GetItemValue(t, s, k, BufSize) \in Seq(Chars)
  <2>1. s \in Seq(Chars) /\ k \in Seq(Chars) /\ k # <<>>
    BY ArgumentsAreTexts
  <2>2. BufSize \in Nat \ {0, 1}
    BY ConfigAssumption
  <2>3. PICK b \in Nat : Stands(t, GetItemValue(t, s, k, BufSize), b)
    BY <2>1, <2>2, ValueStands
  <2> QED
    BY <2>3 DEF Stands
<1>2. ASSUME NEW i \in Sections \X Keys
      PROVE  GetItemValue(t, i[1], i[2], BufSize) \in Seq(Chars) \cup {<<>>}
  BY <1>1
<1> QED
  BY <1>2 DEF Items, Store!Table

\* An empty text gives nothing.
LEMMA NothingRead == Items(<<>>) = Store!Nothing
<1>1. ASSUME NEW s \in Sections, NEW k \in Keys
      PROVE  GetItemValue(<<>>, s, k, BufSize) = <<>>
  <2>1. Means(<<>>, s, k, <<>>)
    <3>1. \A i \in 1 .. Len(<<>>) : FALSE
      OBVIOUS
    <3> QED
      BY <3>1 DEF Means
  <2> QED
    BY <2>1, NothingWritten, LookupFinds
<1>2. ASSUME NEW i \in Sections \X Keys
      PROVE  GetItemValue(<<>>, i[1], i[2], BufSize) = <<>>
  BY <1>1
<1> QED
  BY <1>2 DEF Items, Store!Nothing

\* A file that is missing gives nothing either.
LEMMA MissingRead == Items(Missing) = Store!Nothing
<1>1. ASSUME NEW s \in Sections
      PROVE  LocateSection(Missing, s) = None
  <2> DEFINE w == HeaderWord(s)
             lt == ToLower(Missing)
             p == LocateStr(lt, 1, Len(Missing) + 1, w)
  <2>1. Missing \in Seq(Chars) /\ Len(Missing) = 1
    BY ArgumentsAreTexts DEF Missing
  <2>2. lt \in Seq(Chars) /\ Len(lt) = 1
    BY <2>1, LowerIs
  <2>3. w \in Seq(Chars) /\ Len(w) \in Nat \ {0, 1}
    <3>1. s \in Seq(Chars) /\ Len(s) \in Nat
      BY ArgumentsAreTexts
    <3>2. w \in Seq(Chars) /\ Len(w) = Len(s) + 2
      BY <3>1, SectionWord
    <3> HIDE DEF w
    <3> QED
      BY <3>1, <3>2
  <2>4. p = 0
    <3> HIDE DEF w, lt
    <3>1. 1 \in 1 .. Len(lt) + 1 /\ 2 \in 0 .. Len(lt) + 1 /\ Len(lt) \in Nat /\ Len(w) \in Nat \ {0}
      BY <2>2, <2>3
    <3>2. Located(lt, w, 1, 2, LocateStr(lt, 1, 2, w))
      BY <3>1, LocateStrIs
    <3>3. LocateStr(lt, 1, 2, w) = 0
      BY <2>2, <2>3, <3>2 DEF Located
    <3> QED
      BY <2>1, <3>3
  <2> QED
    BY <2>4 DEF LocateSection
<1>2. ASSUME NEW s \in Sections, NEW k \in Keys
      PROVE  GetItemValue(Missing, s, k, BufSize) = <<>>
  <2>1. LocateKey(Missing, k, None) = None
    BY DEF LocateKey
  <2>2. None.begin = 0
    BY DEF None
  <2>3. LocateKeyValue(Missing, k, None) = None
    BY <2>1, <2>2 DEF LocateKeyValue, AfterKey
  <2> QED
    BY <1>1, <2>3 DEF GetItemValue, ItemAt
<1>3. ASSUME NEW i \in Sections \X Keys
      PROVE  GetItemValue(Missing, i[1], i[2], BufSize) = <<>>
  BY <1>2
<1> QED
  BY <1>3 DEF Items, Store!Nothing

\* A text written line by line.
Lined(t) == \E ls, at : Written(t, ls, at)

\* What has not been cut short is one.
Intact ==
    /\ whole \in BOOLEAN /\ sound \in BOOLEAN
    /\ whole => disk = Missing \/ Lined(disk)
    /\ sound => Lined(content)

\* So is what others write, and nothing at all.
LEMMA EditsLined ==
    ASSUME NEW t \in Texts
    PROVE  Lined(t)
<1>1. PICK n \in 0 .. Len(t) : \E ls \in [1 .. n -> OtherLines], at \in [1 .. n + 1 -> 1 .. Len(t) + 1] :
         Laid(t, ls, at)
  BY EditsAssumption
<1>2. PICK ls \in [1 .. n -> OtherLines], at \in [1 .. n + 1 -> 1 .. Len(t) + 1] : Laid(t, ls, at)
  BY <1>1
<1>3. OtherLines \subseteq GoodLines
  BY TextsAssumption, EditsAssumption DEF GoodLines
<1>4. t \in Seq(Chars)
  BY ArgumentsAreTexts
<1>5. n \in Nat
  BY <1>4
<1>6. ls \in Seq(GoodLines)
  BY <1>3, <1>5
<1> QED
  BY <1>2, <1>4, <1>6 DEF Lined, Written

LEMMA NothingLined == Lined(<<>>)
  BY NothingWritten DEF Lined

\* What a set makes of a text in memory is a table, and of one that is lined a
\* lined one, in which the item has the value.
LEMMA SetLined ==
    ASSUME Mirrored, Intact, NEW s \in Sections, NEW k \in Keys, NEW v \in SetValues,
           NEW t \in NewTexts(s, k, v)
    PROVE  /\ Items(t) \in Store!Table
           /\ sound => Lined(t) /\ Items(t) = [items EXCEPT ![<<s, k>>] = v]
<1>1. content \in Seq(Chars) /\ items = Items(content)
  BY DEF Mirrored
<1>2. LocateSection(content, s) # None /\ t = Replaced(content, s, k, v)
  BY DEF NewTexts, Known
<1>3. Items(t) \in Store!Table
  <2>1. t \in Seq(Chars)
    BY <1>1, NewTextsAre
  <2> QED
    BY <2>1, ItemsAreTable
<1>4. ASSUME sound
      PROVE  Lined(t) /\ Items(t) = [items EXCEPT ![<<s, k>>] = v]
  <2>1. PICK ls, at : Written(content, ls, at)
    BY <1>4 DEF Intact, Lined
  <2>2. PICK ls2, at2 : Written(t, ls2, at2) /\ IsPut(ls, s, k, v, ls2)
    BY <1>2, <2>1, LinePut
  <2>3. Items(t) = [Items(content) EXCEPT ![<<s, k>>] = v]
    BY <2>1, <2>2, ItemsSet
  <2> QED
    BY <1>1, <2>2, <2>3 DEF Lined
<1> QED
  BY <1>3, <1>4

\* The three ways a set may end are all the Set of the store.
LEMMA SetsItem ==
    ASSUME Mirrored, Intact, NEW s \in Sections, NEW k \in Keys, NEW v \in SetValues,
           SetItemValue(s, k, v) \/ SetCannotOpen(s, k, v) \/ SetCutShort(s, k, v)
    PROVE  Intact' /\ Store!Set(<<s, k>>, v)
<1>1. PICK t \in NewTexts(s, k, v) :
         /\ content' = t /\ items' = Items(t) /\ sound' = sound /\ done' = <<"set", <<s, k>>, v>>
         /\ \/ disk' = t /\ saved' = Items(t) /\ answer' = "true" /\ whole' = sound
            \/ disk' = disk /\ saved' = saved /\ answer' = "false" /\ whole' = whole
            \/ /\ \E n \in {0, Len(t) \div 2, Len(t) - 1} :
                     /\ disk' = SubSeq(t, 1, n) /\ saved' = Items(SubSeq(t, 1, n))
                     /\ whole' = (n = 0)
               /\ answer' = "false"
  BY DEF SetItemValue, SetCannotOpen, SetCutShort, Memory, File
<1>2. /\ Items(t) \in Store!Table
      /\ sound => Lined(t) /\ Items(t) = [items EXCEPT ![<<s, k>>] = v]
  BY SetLined
<1>3. t \in Seq(Chars) /\ Len(t) \in Nat \ {0}
  BY NewTextsAre DEF Mirrored
<1>4. sound' => Lined(content')
  BY <1>1, <1>2
<1>5. whole' => disk' = Missing \/ Lined(disk')
  <2>1. CASE disk' = t /\ whole' = sound
    BY <1>2, <2>1
  <2>2. CASE disk' = disk /\ whole' = whole
    BY <2>2 DEF Intact
  <2>3. ASSUME NEW n \in {0, Len(t) \div 2, Len(t) - 1}, disk' = SubSeq(t, 1, n), whole' = (n = 0)
        PROVE  whole' => Lined(disk')
    <3>1. SubSeq(t, 1, 0) = <<>>
      BY <1>3
    <3> QED
      BY <2>3, <3>1, NothingLined
  <2> QED
    BY <1>1, <2>1, <2>2, <2>3
<1>6. whole' \in BOOLEAN /\ sound' \in BOOLEAN
  BY <1>1 DEF Intact
<1>7. Intact'
  <2>1. Lined(content)' = Lined(content') /\ Lined(disk)' = Lined(disk')
    BY DEF Lined
  <2>2. Missing' = Missing
    BY DEF Missing
  <2> QED
    BY <1>4, <1>5, <1>6, <2>1, <2>2 DEF Intact
<1>8. \A n \in {0, Len(t) \div 2, Len(t) - 1} : Items(SubSeq(t, 1, n)) \in Store!Table
  <2>1. \A n \in {0, Len(t) \div 2, Len(t) - 1} : n \in Nat /\ n <= Len(t)
    BY <1>3
  <2>2. \A n \in Nat : n <= Len(t) => SubSeq(t, 1, n) \in Seq(Chars)
    BY <1>3, PartIs
  <2> QED
    BY <2>1, <2>2, ItemsAreTable
<1>9. IF sound THEN items' = [items EXCEPT ![<<s, k>>] = v] ELSE items' \in Store!Table
  BY <1>1, <1>2
<1>10. answer' \in {"true", "false"} /\ done' = <<"set", <<s, k>>, v>> /\ sound' = sound
  BY <1>1
<1>11. saved' \in Store!Table
  <2>1. saved \in Store!Table
    BY ItemsAreTable DEF Mirrored
  <2> QED
    BY <1>1, <1>2, <1>8, <2>1
<1>12. answer' = "true" => saved' = items' /\ whole' = sound
  BY <1>1
<1> QED
  BY <1>7, <1>9, <1>10, <1>11, <1>12, <1>6 DEF Store!Set

\* Each call is a step of the store, or none.
LEMMA StoreStep ==
    ASSUME Mirrored, Mirrored', Composed', Intact, [Next]_vars
    PROVE  Intact' /\ [Store!Next]_(Store!vars)
<1> USE DEF Store!Next, Store!vars, Memory, File
<1>1. saved' \in Store!Table
  BY ItemsAreTable DEF Mirrored
<1>2. /\ Lined(content)' = Lined(content') /\ Lined(disk)' = Lined(disk') /\ Missing' = Missing
  BY DEF Lined, Missing
<1>3. CASE UNCHANGED vars
  BY <1>2, <1>3 DEF vars, Intact
<1>4. CASE WriteLine
  <2>1. whole' = TRUE /\ sound' = sound /\ content' = content /\ file' # <<>>
    BY <1>4 DEF WriteLine
  <2>2. Lined(disk')
    BY <2>1 DEF Composed, Lined
  <2>3. Intact'
    BY <1>2, <2>1, <2>2 DEF Intact
  <2> QED
    BY <1>1, <1>4, <2>3 DEF WriteLine, Store!Edit
<1>5. CASE Edit
  <2>1. whole' = TRUE /\ sound' = sound /\ content' = content /\ disk' \in Texts \cup {Missing}
    BY <1>5 DEF Edit
  <2>2. Intact'
    BY <1>2, <2>1, EditsLined DEF Intact
  <2> QED
    BY <1>1, <1>5, <2>2 DEF Edit, Store!Edit
<1>6. CASE OpenFile
  <2>1. whole' = whole /\ sound' = whole /\ disk' = disk /\ saved' = saved /\ done' = <<"open">>
        /\ answer' \in {"true", "false"}
    BY <1>6 DEF OpenFile
  <2>2. CASE disk = Missing
    <3>1. content' = <<>> /\ items' = Items(<<>>)
      BY <1>6, <2>2 DEF OpenFile
    <3>2. saved = Items(<<>>)
      BY <2>2, NothingRead, MissingRead DEF Mirrored
    <3>3. Intact'
      BY <1>2, <2>1, <2>2, <3>1, NothingLined DEF Intact
    <3> QED
      BY <2>1, <3>1, <3>2, <3>3 DEF Store!Open
  <2>3. CASE disk # Missing
    <3>1. content' = disk /\ items' = Items(disk)
      BY <1>6, <2>3 DEF OpenFile
    <3>2. Intact'
      BY <1>2, <2>1, <2>3, <3>1 DEF Intact
    <3> QED
      BY <2>1, <3>1, <3>2 DEF Store!Open, Mirrored
  <2> QED
    BY <2>2, <2>3
<1>7. CASE CloseFile
  <2>1. content' = <<>> /\ sound' = TRUE /\ whole' = whole /\ disk' = disk
    BY <1>7 DEF CloseFile
  <2>2. Intact'
    BY <1>2, <2>1, NothingLined DEF Intact
  <2> QED
    BY <1>7, <2>2, NothingRead DEF CloseFile, Store!Close
<1>8. ASSUME NEW s \in Sections, Refused(s)
      PROVE  Intact' /\ Store!Refuse
  BY <1>2, <1>8 DEF Refused, Store!Refuse, Intact
<1>9. ASSUME NEW s \in Sections, NEW k \in Keys, NEW v \in SetValues,
             SetItemValue(s, k, v) \/ SetCannotOpen(s, k, v) \/ SetCutShort(s, k, v)
      PROVE  Intact' /\ \E i \in Sections \X Keys, w \in SetValues : Store!Set(i, w)
  <2>1. Intact' /\ Store!Set(<<s, k>>, v)
    BY <1>9, SetsItem
  <2>2. <<s, k>> \in Sections \X Keys
    OBVIOUS
  <2> QED
    BY <2>1, <2>2
<1> QED
  BY <1>3, <1>4, <1>5, <1>6, <1>7, <1>8, <1>9 DEF Next

\* The file object implements the store: a set gives the item its value and leaves
\* every other item alone, in memory and, with the answer TRUE, in the file.
THEOREM PromiseHolds == Spec => Promise
<1>1. Init => Store!Init /\ Intact
  <2> SUFFICES ASSUME Init
               PROVE  Store!Init /\ Intact
    OBVIOUS
  <2>1. disk \in Seq(Chars)
    BY ArgumentsAreTexts DEF Init
  <2>2. saved \in Store!Table
    BY <2>1, ItemsAreTable DEF Init
  <2>3. Intact
    BY NothingLined DEF Init, Intact
  <2> QED
    BY <2>2, <2>3, NothingRead DEF Init, Store!Init
<1>2. Mirrored /\ Mirrored' /\ Composed' /\ Intact /\ [Next]_vars
        => Intact' /\ [Store!Next]_(Store!vars)
  BY StoreStep
<1> QED
  BY <1>1, <1>2, MirroredAlways, ComposedAlways, PTL DEF Spec, Promise, Store!Spec
=============================================================================
