----------------------------- MODULE MdnsNames -----------------------------
(***************************************************************************)
(* The names in a dns-sd record: TXT_util_unescape (lib/misc/txtutils.c)   *)
(* and mdns_scan_names (lib/dnssd/mdns-utils.c).  A text is a sequence of  *)
(* characters; positions are counted from 1.                               *)
(***************************************************************************)
EXTENDS Integers, Sequences, FiniteSets, SequencesExt

CONSTANT MinIndex   \* a text whose last index is below it is too short (7)

ASSUME IndexAssumption == MinIndex \in Nat

Dot == "."
Escape == "\\"
Nul == "nul"
Octal == <<"0", "1", "2", "3", "4", "5", "6", "7">>
IsOctal(c) == c \in Range(Octal)
Controls == {"b", "f", "n", "r", "t"}

\* One character of the unescaped text, and whether it counts as escaped.
Char(c, escaped) == [c |-> c, escaped |-> escaped]

-----------------------------------------------------------------------------
\* The character with that code: the zero byte, the dot, or one that means nothing
\* here.
Chr(code) == CASE code % 256 = 0 -> Nul [] code % 256 = 46 -> Dot [] OTHER -> "?"

\* txt_util_calc_octal: how many digits are read, of three at most.  The last
\* character of the text is never one of them.
OctalDigits(text, i) ==
    LET most == IF Len(text) - i < 3 THEN Len(text) - i ELSE 3
        ends == {k \in 0 .. most : \A j \in i .. i + k - 1 : IsOctal(text[j])}
    IN CHOOSE k \in ends : \A other \in ends : other <= k

OctalCode(digits) ==
    FoldLeft(LAMBDA code, c : 8 * code + IndexFirstSubSeq(<<c>>, Octal) - 1, 0, digits)
OctalValue(text, i, n) == OctalCode(SubSeq(text, i, i + n - 1))

\* What comes of the text at i, and how many characters of it are read.  After a
\* backslash is an octal code, the letter of a control character, a zero byte, or a
\* character that means itself; all but the last count as escaped.
Piece(text, i) ==
    LET written(chars, n) == [chars |-> chars, read |-> n]
        digits == OctalDigits(text, i + 1)
    IN IF text[i] # Escape THEN written(<<Char(text[i], FALSE)>>, 1)
       ELSE IF i = Len(text) THEN written(<<>>, 1)
       ELSE IF IsOctal(text[i + 1]) THEN
            written(<<Char(Chr(OctalValue(text, i + 1, digits)), TRUE)>>, 1 + digits)
       ELSE IF text[i + 1] \in Controls THEN written(<<Char("?", TRUE)>>, 2)
       ELSE IF text[i + 1] = Nul THEN written(<<Char(Nul, TRUE)>>, 2)
       ELSE written(<<Char(text[i + 1], FALSE)>>, 2)

\* TXT_util_unescape, of a text of less than 256 characters (it counts them in a
\* byte; those of mdns_scan_names have a buffer of 256).
Unescape(text) ==
    LET from[i \in 1 .. Len(text) + 1] ==
            IF i > Len(text) THEN <<>>
            ELSE Piece(text, i).chars \o from[i + Piece(text, i).read]
    IN from[1]

-----------------------------------------------------------------------------
NoNames == <<>>

IsDot(char) == char = Char(Dot, FALSE)

\* Mutant: escaped dots are dots too.
FindDotReverseMutant(chars, index) ==
    LET dots == {i \in 1 .. index : chars[i].c = Dot}
    IN IF dots = {} THEN 0 ELSE CHOOSE i \in dots : \A k \in dots : k <= i

\* mdns_find_dot_reverse: the last dot at index or before it, 0 for none.
FindDotReverse(chars, index) ==
    LET dots == {i \in 1 .. index : IsDot(chars[i])}
    IN IF dots = {} THEN 0 ELSE CHOOSE i \in dots : \A k \in dots : k <= i

\* DSTR_set_bytes with no length: up to the first zero byte, the end of the label
\* when there is none in it.
CString(chars) ==
    LET zeros == {i \in DOMAIN chars : chars[i].c = Nul}
        length == IF zeros = {} THEN Len(chars)
                  ELSE (CHOOSE i \in zeros : \A k \in zeros : i <= k) - 1
    IN [i \in 1 .. length |-> chars[i].c]

\* The loop of mdns_scan_names: ctr names are still to be found, the last of them
\* ends at index.  No dot is right for the first name only; a dot at the very
\* start ends the loop with names missing.
ScanBack(chars, count, end) ==
    LET scan[ctr \in 1 .. count] ==
            [index \in 0 .. end |->
                LET dot == FindDotReverse(chars, index)
                    name == CString(SubSeq(chars, dot + 1, index))
                    before == scan[ctr - 1][dot - 1]
                IN IF ctr = 1 THEN <<name>>
                   ELSE IF dot <= 1 \/ before = NoNames THEN NoNames
                   ELSE Append(before, name)]
    IN scan[count][end]

\* mdns_scan_names: the names, or NoNames when less than count are found.
mdns_scan_names(text, count) ==
    LET chars == Unescape(text)
        last == Len(chars)
    IN IF last - 1 < MinIndex \/ ~IsDot(chars[last]) THEN NoNames
       ELSE ScanBack(chars, count, last - 1)

-----------------------------------------------------------------------------
(* The reference: the labels of a name are what its dots separate, except  *)
(* those that are escaped.  The text is cut before anything is unescaped.  *)

\* Whether a character is escaped: the one before is a backslash that is not.
Escaped(text) ==
    LET escaped[i \in 1 .. Len(text)] ==
            IF i = 1 THEN FALSE ELSE text[i - 1] = Escape /\ ~escaped[i - 1]
    IN escaped

Dots(text) == {i \in DOMAIN text : text[i] = Dot}
EscapedDots(text) == {i \in Dots(text) : Escaped(text)[i]}

\* Where a label ends, or the first one begins, and the one of these with n behind it.
Cuts(text) == {0} \cup (Dots(text) \ EscapedDots(text))
CutAt(text, n) ==
    CHOOSE i \in Cuts(text) : Cardinality({k \in Cuts(text) : k > i}) = n

\* What is between two cuts, unescaped with the dot it ends with, which is then
\* taken off.
LabelBetween(text, from, to) ==
    LET chars == Front(Unescape(SubSeq(text, from + 1, to)))
    IN [i \in DOMAIN chars |-> chars[i].c]

\* The last count labels of a text that has them.
LastLabels(text, count) ==
    IF Cardinality(Cuts(text)) <= count THEN NoNames
    ELSE [k \in 1 .. count |->
             LabelBetween(text, CutAt(text, count - k + 1), CutAt(text, count - k))]

\* names are those labels, each of them up to a zero byte in it.
AreLabels(names, labels) ==
    /\ DOMAIN names = DOMAIN labels
    /\ \A k \in DOMAIN names :
          \/ names[k] = labels[k]
          \/ Nul \in Range(labels[k]) /\ IsPrefix(names[k], labels[k])
=============================================================================
