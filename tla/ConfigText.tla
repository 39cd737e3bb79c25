----------------------------- MODULE ConfigText -----------------------------
(***************************************************************************)
(* The text searches of CConfigFile (Config.cpp).  A text is a sequence of *)
(* characters, a pointer a position in it, NULL is 0, and a range goes     *)
(* from its first position up to and without its end, as in the code.      *)
(***************************************************************************)
EXTENDS Naturals, Sequences, FiniteSetsExt

CONSTANTS
    Caps,   \* the function from capitals to small letters
    High    \* the characters above 0x7f: the bytes of double-byte characters

Eol   == {"\r", "\n"}
Blank == {" ", "\t"}
Space == Eol \cup Blank

\* The characters of texts. (All are strings; the provers have to be told.)
Chars == STRING \cup Space \cup {"[", "]", "=", "v", "missing"}

ASSUME CapsAssumption ==
    /\ Caps \in [DOMAIN Caps -> Chars]
    /\ DOMAIN Caps \cap (Space \cup {"=", "["}) = {}
    /\ High \cap (Space \cup {"=", "["}) = {}

ToLower(t) == [i \in DOMAIN t |-> IF t[i] \in DOMAIN Caps THEN Caps[t[i]] ELSE t[i]]

\* The character at p; a text ends in a NUL.
At(t, p) == IF p \in DOMAIN t THEN t[p] ELSE "NUL"

\* Where a loop "for (; p < end; p++) if (*p is not in S) break;" stops.
Skip(t, p, end, S) ==
    LET stops == {q \in p .. end - 1 : At(t, q) \notin S}
    IN  IF stops # {} THEN Min(stops) ELSE Max({p, end})

\* The same loop with "is in S".
Until(t, p, end, S) ==
    LET stops == {q \in p .. end - 1 : At(t, q) \in S}
    IN  IF stops # {} THEN Min(stops) ELSE Max({p, end})

strstr(t, from, word) ==
    LET found == {p \in from .. Len(t) + 1 - Len(word) :
                    \A i \in DOMAIN word : t[p + i - 1] = word[i]}
    IN  IF found = {} THEN 0 ELSE Min(found)

\* Mutant of SearchMarchStr: the character before the word is not looked at.
SearchMarchStr_Anywhere(t, from, word) ==
    LET search[b \in 1 .. Len(t) + 1] ==
          LET p == strstr(t, b, word)
          IN  IF p = 0 \/ At(t, p + Len(word)) \in Space \cup {"="}
              THEN p
              ELSE search[p + Len(word)]
    IN  search[from]

\* The word with a space before it, unless it is where the search resumes,
\* and a space or "=" behind it.
SearchMarchStr(t, from, word) ==
    LET search[b \in 1 .. Len(t) + 1] ==
          LET p == strstr(t, b, word)
          IN  IF \/ p = 0
                 \/ /\ b < p => At(t, p - 1) \in Space
                    /\ At(t, p + Len(word)) \in Space \cup {"="}
              THEN p
              ELSE search[p + Len(word)]
    IN  search[from]

LocateStr(t, from, end, word) ==
    LET p == IF from < end THEN SearchMarchStr(t, from, word) ELSE 0
    IN  IF p + Len(word) > end THEN 0 ELSE p

-----------------------------------------------------------------------------
None == [begin |-> 0, end |-> 0]

\* The next line whose first character that is not blank is a "[".
SectionEnd(t, begin) ==
    LET ends == {r \in begin .. Len(t) :
                   /\ t[r] = "["
                   /\ \A q \in begin .. r - 1 :
                         t[q] \in Space \/ \E u \in q + 1 .. r - 1 : t[u] \in Eol}
    IN  IF ends = {} THEN Len(t) + 1 ELSE Min(ends)

HeaderWord(section) == <<"[">> \o ToLower(section) \o <<"]">>

LocateSection(t, section) ==
    LET word  == HeaderWord(section)
        end   == Len(t) + 1
        p     == LocateStr(ToLower(t), 1, end, word)
        begin == Skip(t, Until(t, p + Len(word), end, Eol), end, Eol)
    IN  IF p = 0 THEN None ELSE [begin |-> begin, end |-> SectionEnd(t, begin)]

\* Mutant of LocateKey: the search does not stop at the end of the section.
LocateKey_PastSection(t, key, range) ==
    LET search[b \in 1 .. Len(t) + 1] ==
          LET p  == LocateStr(ToLower(t), b, Len(t) + 1, ToLower(key))
              eq == Skip(t, p + Len(key), Len(t) + 1, Blank)
          IN  IF p = 0 \/ At(t, eq) = "=" THEN [begin |-> p, end |-> eq] ELSE search[eq]
    IN  IF range = None THEN None ELSE search[range.begin]

\* The part LocateKeyRange and LocateKeyValue share: the key and the "=" that
\* follows it, searched again from where a match is not followed by one.
LocateKey(t, key, range) ==
    LET search[b \in 1 .. Len(t) + 1] ==
          LET p  == LocateStr(ToLower(t), b, range.end, ToLower(key))
              eq == Skip(t, p + Len(key), range.end, Blank)
          IN  IF p = 0 \/ At(t, eq) = "=" THEN [begin |-> p, end |-> eq] ELSE search[eq]
    IN  IF range = None THEN None ELSE search[range.begin]

\* The item's line, with the empty lines behind it.
LocateKeyRange(t, key, range) ==
    LET at  == LocateKey(t, key, range)
        eol == Until(t, at.end + 1, range.end, Eol)
    IN  IF at.begin = 0 THEN None
        ELSE [begin |-> at.begin, end |-> Skip(t, eol, range.end, Eol)]

ValueRange(t, at, range) ==
    LET begin == Skip(t, at.end + 1, range.end, Blank)
    IN  [begin |-> begin, end |-> Until(t, begin, range.end, Eol)]

NotEmpty(r) == IF r.end <= r.begin THEN None ELSE r

AfterKey(t, at, range) == IF at.begin = 0 THEN None ELSE NotEmpty(ValueRange(t, at, range))

LocateKeyValue(t, key, range) == AfterKey(t, LocateKey(t, key, range), range)

-----------------------------------------------------------------------------
Between(t, r) == SubSeq(t, r.begin, r.end - 1)

\* Mutant of Cut: a cut inside a double-byte character leaves its first half.
Cut_Anywhere(value, size) == SubSeq(value, 1, Min({Len(value), size - 1}))

\* What of a value fits a buffer of size bytes (at least 2): the whole, or its
\* beginning without the first half of a double-byte character.
Cut(value, size) ==
    IF Len(value) >= size - 1 /\ value[size - 1] \in High
    THEN SubSeq(value, 1, size - 2)
    ELSE SubSeq(value, 1, Min({Len(value), size - 1}))

\* GetItemValue; empty when there is no such item.
ItemAt(t, r, size) == IF r = None THEN <<>> ELSE Cut(Between(t, r), size)

GetItemValue(t, section, key, size) ==
    ItemAt(t, LocateKeyValue(t, key, LocateSection(t, section)), size)

\* The line SetItemValue writes.
ItemLine(key, value) == key \o <<" ", "=", " ">> \o value \o <<"\n">>

\* The text with the item's line replaced, or put first in its section.
Splice(t, r, line) == SubSeq(t, 1, r.begin - 1) \o line \o SubSeq(t, r.end, Len(t))

Place(range, old) == IF old = None THEN [begin |-> range.begin, end |-> range.begin] ELSE old

Replaced(t, section, key, value) ==
    LET range == LocateSection(t, section)
    IN  Splice(t, Place(range, LocateKeyRange(t, key, range)), ItemLine(key, value))
=============================================================================
