----------------------------- MODULE ConfigFile -----------------------------
(***************************************************************************)
(* CConfigFile (Config.cpp): a text file read once into memory, searched   *)
(* for items, and written back whole by every SetItemValue.                *)
(***************************************************************************)
EXTENDS ConfigText, SequencesExt

CONSTANTS
    Sections, Keys, SetValues,   \* the arguments of the calls
    Lines,                       \* the lines files are made of
    MaxLines,                    \* bounds the files the author writes
    OtherLines, Texts,           \* what others may replace the file by
    BufSize,                     \* the buffer of the caller of GetItemValue
    MaxLen                       \* bounds the text

ASSUME ConfigAssumption == BufSize \in Nat \ {0, 1} /\ MaxLen \in Nat /\ MaxLines \in Nat

\* Names, values and lines are texts. (For an empty key the code would search
\* for ever, one match of nothing behind the other; nobody asks for one.)
ASSUME TextsAssumption ==
    /\ Sections \cup Keys \cup SetValues \cup Texts \subseteq Seq(Chars)
    /\ <<>> \notin Sections \cup Keys
    /\ Lines \cup OtherLines \subseteq
         [header: Seq(Chars), key: Seq(Chars), value: Seq(Chars), text: Seq(Chars)]

VARIABLES
    disk,     \* the file: a text, or <<"missing">>
    content,  \* m_pszContent; the shadow is always ToLower of it
    isOpen,   \* m_bIsOpen
    file,     \* the lines of disk, as long as only their author has touched it
    answer,   \* what the last call returned: "none", "true" or "false"
    items,    \* what GetItemValue returns for every item: a function of content
    saved,    \* what it would return to who opens the file now
    done,     \* the last operation, or "edit"
    whole,    \* the file is not what was left of a set that was cut short
    sound     \* nor is what is in memory

vars == <<disk, content, isOpen, file, answer, items, saved, done, whole, sound>>

Missing == <<"missing">>

\* What GetItemValue gives for every item of a text.
Items(t) == [i \in Sections \X Keys |-> GetItemValue(t, i[1], i[2], BufSize)]

Init ==
    /\ disk \in {<<>>, Missing} /\ saved = Items(disk) /\ file = <<>>
    /\ content = <<>> /\ items = Items(<<>>)
    /\ isOpen = FALSE /\ answer = "none"
    /\ done = <<"edit">> /\ whole = TRUE /\ sound = TRUE

-----------------------------------------------------------------------------
Memory(t) == content' = t /\ items' = Items(t)
File(t)   == disk' = t /\ saved' = Items(t)

\* A line is a header, an item or neither; text is how it is written.
Header(s, text)  == [header |-> s, key |-> <<>>, value |-> <<>>, text |-> text]
Item(k, v, text) == [header |-> <<>>, key |-> k, value |-> v, text |-> text]

\* The author writes the file before anyone opens it.
WriteLine ==
    /\ answer = "none" /\ Len(file) < MaxLines /\ (file = <<>> => disk = <<>>)
    /\ \E l \in Lines : file' = Append(file, l) /\ File(disk \o l.text)
    /\ done' = <<"edit">> /\ whole' = TRUE
    /\ UNCHANGED <<content, isOpen, answer, items, sound>>

\* Somebody edits or removes it.
Edit ==
    /\ file' = <<>>
    /\ \E t \in Texts \cup {Missing} : File(t)
    /\ done' = <<"edit">> /\ whole' = TRUE
    /\ UNCHANGED <<content, isOpen, answer, items, sound>>

\* OpenFile closes first; the file is never looked at again.
OpenFile ==
    /\ isOpen' = (disk # Missing) /\ answer' = IF isOpen' THEN "true" ELSE "false"
    /\ Memory(IF disk = Missing THEN <<>> ELSE disk)
    /\ done' = <<"open">> /\ sound' = whole
    /\ file' = <<>> /\ UNCHANGED <<disk, saved, whole>>

\* The destructor, and the end of the process.
CloseFile ==
    /\ isOpen /\ isOpen' = FALSE
    /\ Memory(<<>>) /\ answer' = "none"
    /\ done' = <<"close">> /\ sound' = TRUE
    /\ UNCHANGED <<disk, saved, file, whole>>

Known(s) == LocateSection(content, s) # None

Refused(s) ==
    /\ ~(isOpen /\ Known(s))
    /\ answer' = "false" /\ done' = <<"refuse">>
    /\ UNCHANGED <<disk, content, isOpen, file, items, saved, whole, sound>>

\* The texts SetItemValue makes of the one in memory.
NewTexts(s, k, v) ==
    IF isOpen /\ Known(s)
    THEN {t \in {Replaced(content, s, k, v)} : Len(t) <= MaxLen}
    ELSE {}

\* The memory is brought up to date, then the file is written over.
SetItemValue(s, k, v) ==
    \E t \in NewTexts(s, k, v) :
       /\ Memory(t) /\ File(t) /\ whole' = sound
       /\ answer' = "true" /\ done' = <<"set", <<s, k>>, v>>
       /\ UNCHANGED <<isOpen, file, sound>>

\* Mutant of SetCannotOpen: "true" is returned though the file was not written.
SetCannotOpen_True(s, k, v) ==
    \E t \in NewTexts(s, k, v) :
       /\ Memory(t)
       /\ answer' = "true" /\ done' = <<"set", <<s, k>>, v>>
       /\ UNCHANGED <<isOpen, file, disk, saved, whole, sound>>

SetCannotOpen(s, k, v) ==
    \E t \in NewTexts(s, k, v) :
       /\ Memory(t)
       /\ answer' = "false" /\ done' = <<"set", <<s, k>>, v>>
       /\ UNCHANGED <<isOpen, file, disk, saved, whole, sound>>

\* fopen has emptied the file; a part of the text is written, or none of it.
SetCutShort(s, k, v) ==
    \E t \in NewTexts(s, k, v) :
       /\ Memory(t)
       /\ \E n \in {0, Len(t) \div 2, Len(t) - 1} : File(SubSeq(t, 1, n)) /\ whole' = (n = 0)
       /\ answer' = "false" /\ done' = <<"set", <<s, k>>, v>>
       /\ UNCHANGED <<isOpen, file, sound>>

Next ==
    \/ WriteLine \/ Edit \/ OpenFile \/ CloseFile
    \/ \E s \in Sections : Refused(s)
    \/ \E s \in Sections, k \in Keys, v \in SetValues :
          SetItemValue(s, k, v) \/ SetCannotOpen(s, k, v) \/ SetCutShort(s, k, v)

Spec == Init /\ [][Next]_vars

-----------------------------------------------------------------------------
(* How the author writes.  A search takes a word for found where there are  *)
(* spaces before it and behind it; a line is well written when a search     *)
(* finds in it what is meant, and nothing else.                             *)

Occurs(t, w, p) == p \in 1 .. Len(t) + 1 - Len(w) /\ \A i \in DOMAIN w : t[p + i - 1] = w[i]

Mark(t, w, p) ==
    /\ Occurs(t, w, p)
    /\ p = 1 \/ At(t, p - 1) \in Space
    /\ At(t, p + Len(w)) \in Space \cup {"="}

\* No two places of the word overlap or touch: behind a place that is no mark
\* the search does not look at the character before the next one.
Apart(t, w) ==
    \A p, q \in 1 .. Len(t) : Occurs(t, w, p) /\ Occurs(t, w, q) /\ p < q => p + Len(w) < q

\* The key as a word, and the "=" at e behind it.
EqualsAt(t, p, end, e) ==
    /\ e \in p .. end - 1 /\ At(t, e) = "="
    /\ \A u \in p .. e - 1 : At(t, u) \in Blank

KeyMark(t, k, end, p) ==
    /\ Mark(ToLower(t), ToLower(k), p)
    /\ \E e \in 1 .. end - 1 : EqualsAt(t, p + Len(k), end, e)

\* "key = value", with the value at b and the line's end at z.
IsItem(t, k, value) ==
    \E p, e, b, z \in 1 .. Len(t) :
       /\ \A q \in 1 .. p - 1 : t[q] \in Blank
       /\ Mark(ToLower(t), ToLower(k), p) /\ EqualsAt(t, p + Len(k), Len(t) + 1, e)
       /\ e < b /\ \A q \in e + 1 .. b - 1 : t[q] \in Blank
       /\ t[b] \notin Blank /\ b <= z /\ \A q \in b .. z : t[q] \in Eol <=> q = z
       /\ value = SubSeq(t, b, z - 1)

WellWritten(l) ==
    LET t == l.text
        n == Len(t)
    IN  /\ \E z \in 1 .. n : \A i \in 1 .. n : t[i] \in Eol <=> i >= z
        /\ (l.header # <<>>) <=> \E r \in 1 .. n : t[r] = "[" /\ \A q \in 1 .. r - 1 : t[q] \in Blank
        /\ \A s \in Sections :
             /\ Apart(ToLower(t), HeaderWord(s))
             /\ l.header = s <=> \E p \in 1 .. n : Mark(ToLower(t), HeaderWord(s), p)
        /\ \A k \in Keys :
             /\ Apart(ToLower(t), ToLower(k))
             /\ l.header = <<>> /\ l.key # k => \A p \in 1 .. n : ~KeyMark(t, k, n + 1, p)
             /\ l.header = <<>> /\ l.key = k =>
                  IsItem(t, k, l.value) /\ Cut(l.value, BufSize) = l.value

ASSUME LinesAssumption ==
    /\ \A l \in Lines : WellWritten(l)
    /\ \A s \in Sections \cup Keys : \A i \in DOMAIN s : ToLower(s)[i] \notin Eol
    /\ \A k \in Keys : ToLower(k)[1] \notin Space

\* What SetItemValue writes is written as well.
ASSUME SetLinesAssumption ==
    \A k \in Keys, v \in SetValues : WellWritten(Item(k, v, ItemLine(k, v)))

\* The lines ls make up the text t; line i begins at at[i].
Laid(t, ls, at) ==
    /\ at \in [1 .. Len(ls) + 1 -> Nat]
    /\ at[1] = 1 /\ at[Len(ls) + 1] = Len(t) + 1
    /\ \A i \in 1 .. Len(ls) :
         /\ at[i + 1] = at[i] + Len(ls[i].text)
         /\ \A j \in 1 .. Len(ls[i].text) : t[at[i] + j - 1] = ls[i].text[j]

\* So is what others replace the file by, line by line.
ASSUME EditsAssumption ==
    /\ \A l \in OtherLines : WellWritten(l)
    /\ \A t \in Texts : \E n \in 0 .. Len(t) :
         \E ls \in [1 .. n -> OtherLines], at \in [1 .. n + 1 -> 1 .. Len(t) + 1] : Laid(t, ls, at)

-----------------------------------------------------------------------------
(* Properties.                                                             *)

\* The file object does what ConfigStore promises: a set gives the item its
\* value and leaves every other item alone, in memory and, with the answer
\* TRUE, for whoever opens the file next; otherwise the file is as it was, or
\* cut short.  (Who opens a file that was cut short may find that a set which
\* returns TRUE changes nothing, or another item.)
Store == INSTANCE ConfigStore WITH
    Settable <- SetValues, Values <- Seq(Chars), NoValue <- <<>>
Promise == Store!Spec

\* What the author means by a file: the lines of the first section of a name,
\* and the value of the first item of a name among them.
SectionLines(s) ==
    LET first == SelectInSeq(file, LAMBDA l : l.header = s)
        next  == IF first = 0 THEN 0
                 ELSE SelectInSubSeq(file, first + 1, Len(file), LAMBDA l : l.header # <<>>)
    IN  IF first = 0 THEN <<>>
        ELSE SubSeq(file, first + 1, IF next = 0 THEN Len(file) ELSE next - 1)

ValueOf(s, k) ==
    LET lines == SectionLines(s)
        at    == SelectInSeq(lines, LAMBDA l : l.key = k)
    IN  IF at = 0 THEN <<>> ELSE lines[at].value

\* Every lookup finds the item's line: case, spaces, line ends, repeated
\* sections and values that mention the key notwithstanding.
FindsTheItem ==
    file # <<>> => \A s \in Sections, k \in Keys : saved[<<s, k>>] = ValueOf(s, k)

\* Values are made of single-byte characters and of pairs of bytes from High.
Halves(value) == Cardinality({i \in DOMAIN value : value[i] \in High})
Whole(value)  == Halves(value) % 2 = 0

\* Whatever the buffer's size, a caller gets a beginning of the value that fits,
\* the whole value if there is room to spare, and half a character never where
\* the buffer ends inside one.  (Where it ends just behind one, the second half
\* is taken off all the same.)
CutsBetweenCharacters ==
    \A value \in {saved[i] : i \in Sections \X Keys} : \A size \in 2 .. BufSize :
        LET cut == Cut(value, size) IN
        /\ Len(cut) < size /\ IsPrefix(cut, value)
        /\ Len(value) < size - 1 => cut = value
        /\ Len(value) >= size => (Whole(SubSeq(value, 1, size - 1)) \/ Whole(cut))

\* A set touches nothing outside the section: what precedes and what follows it
\* stays as it is, character for character.
KeepsTheRest ==
    file # <<>> => \A s \in Sections, k \in Keys :
        \E range \in {LocateSection(disk, s)} :
          range # None =>
            \E new \in {Replaced(disk, s, k, <<"v">>)} :
               /\ IsPrefix(SubSeq(disk, 1, range.begin - 1), new)
               /\ IsSuffix(SubSeq(disk, range.end, Len(disk)), new)
=============================================================================
