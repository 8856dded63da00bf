-------------------------------- MODULE Dstr --------------------------------
(***************************************************************************)
(* lib/datatypes/dstr.c: struct dstr_s, a string with its length, that is  *)
(* a view of bytes of somebody else or owns them (DSTR_FLAG_ALLOC_DATA).   *)
(*                                                                         *)
(* A string is a block of memory, a place in it and a length.  The guards  *)
(* marked "caller" are what every caller in the library keeps to and the   *)
(* functions do not test: a string that owns is cleared before it is set   *)
(* again, only a view is shifted, and only an owner can give ownership.  A *)
(* view of memory that is gone is not used any more: the model drops it.   *)
(***************************************************************************)
EXTENDS Integers, Sequences, FiniteSets, SequencesExt

CONSTANTS Strings,      \* variables of type dstr_s
          Blocks,       \* addresses malloc and realloc can return
          Line,         \* bytes of a caller, the block "line"
          Mark,         \* the separator
          MaxBytes,     \* bound: bytes in a block
          NoBlock       \* NULL

ASSUME StringAssumption ==
    /\ NoBlock \notin Blocks \cup {"line"} /\ "line" \notin Blocks
    /\ Line \in Seq(STRING) /\ MaxBytes \in Nat

Nul == "0"

VARIABLES str,          \* str[s]: at, off, len and own of string s
          bytes,        \* bytes[k]: content of block k
          allocated,         \* blocks that malloc gave and nobody freed
          lost,         \* of these, the ones no string has the flag for
          badfree,      \* history: free of something malloc did not return
          want          \* history: the text each string should have

dvars == <<str, bytes, allocated, lost, badfree, want>>

Empty == [at |-> NoBlock, off |-> 0, len |-> 0, own |-> FALSE]
Memory(k) == IF k = NoBlock THEN <<>> ELSE bytes[k]

TextOf(x, memory) == SubSeq(memory, x.off + 1, x.off + x.len)
Text(s) == TextOf(str[s], Memory(str[s].at))

DInit ==
    /\ str = [s \in Strings |-> Empty]
    /\ bytes = [k \in Blocks \cup {"line"} |-> IF k = "line" THEN Line ELSE <<>>]
    /\ allocated = {} /\ lost = {} /\ badfree = FALSE
    /\ want = [s \in Strings |-> <<>>]

-----------------------------------------------------------------------------
(* Setting a string.                                                       *)

Set(s, x, text) == str' = [str EXCEPT ![s] = x] /\ want' = [want EXCEPT ![s] = text]

\* The same, when the memory s has is freed or moves.
Replace(s, x, text) ==
    LET gone == {r \in Strings \ {s} : str[s].at # NoBlock /\ str[r].at = str[s].at /\ ~str[r].own} IN
    /\ str' = [r \in Strings |-> IF r = s THEN x ELSE IF r \in gone THEN Empty ELSE str[r]]
    /\ want' = [r \in Strings |-> IF r = s THEN text ELSE IF r \in gone THEN <<>> ELSE want[r]]

DSTR_init(s) ==
    /\ ~str[s].own                                      \* caller
    /\ Set(s, Empty, <<>>)
    /\ UNCHANGED <<bytes, allocated, lost, badfree>>

\* DSTR_set_bytes of the caller's line from place off; length 0 means strlen.
DSTR_set_bytes(s, off, length) ==
    /\ ~str[s].own                                      \* caller
    /\ off + length <= Len(Line)
    /\ LET n == IF length = 0 THEN Len(Line) - off ELSE length
       IN Set(s, [at |-> "line", off |-> off, len |-> n, own |-> FALSE], SubSeq(Line, off + 1, off + n))
    /\ UNCHANGED <<bytes, allocated, lost, badfree>>

\* DSTR_set_bytes with becomeowner, of memory the caller allocated.
DSTR_set_own(s, k, d) ==
    /\ ~str[s].own                                      \* caller
    /\ k \in Blocks \ allocated
    /\ allocated' = allocated \cup {k}
    /\ bytes' = [bytes EXCEPT ![k] = d]
    /\ Set(s, [at |-> k, off |-> 0, len |-> Len(d), own |-> TRUE], d)
    /\ UNCHANGED <<lost, badfree>>

\* Mutant: the string that gives its bytes away keeps the flag.
DSTR_set_strMutant(a, b, becomeowner) ==
    /\ ~str[a].own /\ (becomeowner => str[b].own)
    /\ str' = [str EXCEPT ![a] = [str[b] EXCEPT !.own = becomeowner]]
    /\ want' = [want EXCEPT ![a] = want[b]]
    /\ UNCHANGED <<bytes, allocated, lost, badfree>>

\* DSTR_set_str: b stays as a view, or (becomeowner) is one from then on.
DSTR_set_str(a, b, becomeowner) ==
    /\ ~str[a].own /\ (becomeowner => str[b].own)       \* caller
    /\ str' = [str EXCEPT ![a] = [str[b] EXCEPT !.own = becomeowner],
                          ![b].own = @ /\ ~becomeowner]
    /\ want' = [want EXCEPT ![a] = want[b]]
    /\ UNCHANGED <<bytes, allocated, lost, badfree>>

-----------------------------------------------------------------------------
(* Memory.                                                                 *)

\* free(p) for the pointer of string s.
Free(s) ==
    LET x == str[s] IN
    /\ allocated' = allocated \ {x.at}
    /\ bytes' = [bytes EXCEPT ![x.at] = <<>>]
    /\ badfree' = (badfree \/ x.off # 0 \/ x.at \notin allocated)

\* dstr_clear_shared; and DSTR_free, whose test for a string of DSTR_create
\* comes after the flags are gone, so that the struct itself is never freed.
DSTR_clear(s) ==
    /\ \/ str[s].own /\ Replace(s, Empty, <<>>) /\ Free(s)
       \/ ~str[s].own /\ Set(s, Empty, <<>>) /\ UNCHANGED <<bytes, allocated, badfree>>
    /\ UNCHANGED lost

\* realloc(str->str, n) by its owner, or from NULL: a new block k, and the old
\* one is gone.
Reallocated(s, k) ==
    /\ k \in (Blocks \ allocated) \cup {str[s].at}
    /\ str[s].at # NoBlock => str[s].own /\ str[s].off = 0    \* caller
    /\ allocated' = (allocated \ {str[s].at}) \cup {k}

\* Its content is then d.
Refilled(s, k, d) == bytes' = [j \in DOMAIN bytes |-> IF j = k THEN d ELSE IF j = str[s].at THEN <<>> ELSE bytes[j]]

\* DSTR_alloc_str_raw: zeroed.
DSTR_alloc_str_raw(s, n, k) ==
    /\ Reallocated(s, k) /\ k # NoBlock
    /\ LET zeros == [i \in 1 .. n |-> Nul] IN
       /\ Refilled(s, k, zeros)
       /\ Replace(s, [at |-> k, off |-> 0, len |-> n, own |-> TRUE], zeros)
    /\ UNCHANGED <<lost, badfree>>

\* realloc fails: str is NULL, and the memory it had is lost.  length and flags
\* stay; its one caller (fs/symlink.c) gives up the string.
AllocFails(s) ==
    /\ str[s].at # NoBlock => str[s].own /\ str[s].off = 0    \* caller
    /\ lost' = lost \cup ({str[s].at} \ {NoBlock})
    /\ Set(s, Empty, <<>>)
    /\ UNCHANGED <<bytes, allocated, badfree>>

\* DSTR_move_str: a is cleared and gets what b had.
DSTR_move_str(a, b) ==
    /\ ~str[a].own \/ str[b].at # str[a].at             \* caller
    /\ LET gone == {r \in Strings \ {a} : str[a].own /\ str[r].at = str[a].at} IN
       /\ str' = [r \in Strings |-> IF r = a THEN str[b] ELSE IF r \in gone \cup {b} THEN Empty ELSE str[r]]
       /\ want' = [r \in Strings |-> IF r = a THEN want[b] ELSE IF r \in gone \cup {b} THEN <<>> ELSE want[r]]
    /\ \/ str[a].own /\ Free(a)
       \/ ~str[a].own /\ UNCHANGED <<bytes, allocated, badfree>>
    /\ UNCHANGED lost

-----------------------------------------------------------------------------
(* Cutting.                                                                *)

Least(m, n) == IF m < n THEN m ELSE n

DSTR_shift(s, count) ==
    /\ ~str[s].own                                      \* caller
    /\ LET n == Least(count, str[s].len)
       IN Set(s, [str[s] EXCEPT !.off = @ + n, !.len = @ - n], SubSeq(want[s], n + 1, Len(want[s])))
    /\ UNCHANGED <<bytes, allocated, lost, badfree>>

DSTR_shrink(s, count) ==
    /\ LET n == Least(count, str[s].len)
       IN Set(s, [str[s] EXCEPT !.len = @ - n], SubSeq(want[s], 1, Len(want[s]) - n))
    /\ UNCHANGED <<bytes, allocated, lost, badfree>>

\* Reference: the text before the first mark and after it, before the last and
\* after it; all of it and nothing when there is none.
Marks(t) == {i \in DOMAIN t : t[i] = Mark}
FirstMark(t) == CHOOSE i \in Marks(t) : \A k \in Marks(t) : i <= k
LastMark(t) == CHOOSE i \in Marks(t) : \A k \in Marks(t) : k <= i

FirstPiece(t) == IF Marks(t) = {} THEN t ELSE SubSeq(t, 1, FirstMark(t) - 1)
AfterFirst(t) == IF Marks(t) = {} THEN <<>> ELSE SubSeq(t, FirstMark(t) + 1, Len(t))
LastPiece(t) == IF Marks(t) = {} THEN t ELSE SubSeq(t, LastMark(t) + 1, Len(t))
BeforeLast(t) == IF Marks(t) = {} THEN <<>> ELSE SubSeq(t, 1, LastMark(t) - 1)

\* A piece of a: off bytes from its start, len long.
Piece(a, off, len) == [at |-> str[a].at, off |-> str[a].off + off, len |-> len, own |-> FALSE]

CutInto(a, b, rest, piece, wanted, left) ==
    /\ ~str[b].own                                      \* caller
    /\ str' = [str EXCEPT ![a] = rest, ![b] = piece]
    /\ want' = [want EXCEPT ![a] = left, ![b] = wanted]
    /\ UNCHANGED <<bytes, allocated, lost, badfree>>

\* Length of the first piece, and what is shifted (memchr, DSTR_shift).
FirstLength(a) ==
    LET marks == Marks(Text(a))
    IN IF marks = {} THEN <<str[a].len, str[a].len>>
       ELSE LET n == FirstMark(Text(a)) - 1 IN <<n, n + 1>>

\* DSTR_get_first_dstr with notfoundwholestring; nothing is done when a is
\* empty.  Without the flag and without separator the piece is empty.
DSTR_get_first_dstr(a, b, shift) ==
    /\ str[a].len > 0
    /\ shift => ~str[a].own                             \* caller
    /\ LET n == FirstLength(a)
           by == IF shift THEN Least(n[2], str[a].len) ELSE 0
       IN CutInto(a, b, [str[a] EXCEPT !.off = @ + by, !.len = @ - by], Piece(a, 0, n[1]),
                  FirstPiece(want[a]), IF shift THEN AfterFirst(want[a]) ELSE want[a])

DSTR_get_last_dstr(a, b, shift) ==
    /\ str[a].len > 0
    /\ LET text == Text(a)
           n == IF Marks(text) = {} THEN str[a].len ELSE str[a].len - LastMark(text)
           by == IF ~shift THEN 0 ELSE IF Marks(text) = {} THEN n ELSE n + 1
       IN CutInto(a, b, [str[a] EXCEPT !.len = @ - by], Piece(a, str[a].len - n, n),
                  LastPiece(want[a]), IF shift THEN BeforeLast(want[a]) ELSE want[a])

-----------------------------------------------------------------------------
(* Writing.  Only into memory of the string's own.                         *)

\* Content of the block of s becomes d, and s reads text; the strings that look
\* at this block see what is there.
Fill(s, d, text) ==
    /\ bytes' = [bytes EXCEPT ![str[s].at] = d]
    /\ want' = [r \in Strings |-> IF r = s THEN text ELSE
                                  IF str[r].at = str[s].at THEN TextOf(str[r], d) ELSE want[r]]

\* The first Len(d) bytes behind place at of string s become d.
Written(s, at, d) ==
    LET k == str[s].at IN
    [i \in DOMAIN bytes[k] |->
        IF i - at - str[s].off \in DOMAIN d THEN d[i - at - str[s].off] ELSE bytes[k][i]]

\* DSTR_copy_str, DSTR_copy_bytes: as much as fits.
DSTR_copy_str(a, b) ==
    /\ str[a].own
    /\ LET d == SubSeq(Text(b), 1, Least(str[a].len, str[b].len))
       IN Fill(a, Written(a, 0, d), d \o SubSeq(want[a], Len(d) + 1, Len(want[a])))
    /\ UNCHANGED <<str, allocated, lost, badfree>>

\* strnlen(stra->str, stra->length)
Used(t) == LET zeros == {i \in DOMAIN t : t[i] = Nul}
           IN IF zeros = {} THEN Len(t) ELSE (CHOOSE i \in zeros : \A k \in zeros : i <= k) - 1

\* What DSTR_append puts behind the text: a separator only behind something.
Added(s, d) == (IF Used(Text(s)) > 0 THEN <<Mark>> ELSE <<>>) \o d

\* DSTR_append, when it fits in the length of the string.
AppendInside(s, d) ==
    LET n == Used(Text(s)) + Len(Added(s, d)) IN
    /\ str[s].own /\ n <= str[s].len
    /\ Fill(s, Written(s, Used(Text(s)), Added(s, d)),
            SubSeq(want[s], 1, Used(want[s])) \o Added(s, d) \o SubSeq(want[s], n + 1, Len(want[s])))
    /\ UNCHANGED <<str, allocated, lost, badfree>>

\* DSTR_append with doalloc: the memory is new, but the flag that is set is the
\* one of the struct, so nobody frees it, unless the string was an owner.  (The
\* memset behind realloc also clears as many bytes behind the block as the
\* string had text.)
AppendGrows(s, d, k) ==
    LET used == Used(Text(s))
        new == SubSeq(Text(s), 1, used) \o Added(s, d) IN
    /\ str[s].at = NoBlock \/ str[s].own
    /\ Len(new) > str[s].len /\ Len(new) <= MaxBytes
    /\ Reallocated(s, k) /\ k # NoBlock
    /\ Refilled(s, k, new)
    /\ Replace(s, [at |-> k, off |-> 0, len |-> Len(new), own |-> str[s].own],
               SubSeq(want[s], 1, Used(want[s])) \o Added(s, d))
    /\ lost' = lost \cup (IF str[s].own THEN {} ELSE {k})
    /\ UNCHANGED badfree

-----------------------------------------------------------------------------
DNext ==
    \/ \E s \in Strings :
          \/ DSTR_init(s) \/ DSTR_clear(s) \/ AllocFails(s)
          \/ \E off \in 0 .. Len(Line), length \in 0 .. Len(Line) : DSTR_set_bytes(s, off, length)
          \/ \E count \in 1 .. Len(Line) : DSTR_shift(s, count) \/ DSTR_shrink(s, count)
          \/ \E k \in Blocks, n \in 1 .. MaxBytes : DSTR_alloc_str_raw(s, n, k)
          \/ \E d \in {<<c>> : c \in Range(Line)} :
                \/ \E k \in Blocks : DSTR_set_own(s, k, d) \/ AppendGrows(s, d, k)
                \/ AppendInside(s, d)
    \/ \E a, b \in Strings : a # b /\
          \/ DSTR_move_str(a, b) \/ DSTR_copy_str(a, b)
          \/ \E flag \in BOOLEAN : \/ DSTR_set_str(a, b, flag)
                                   \/ DSTR_get_first_dstr(a, b, flag)
                                   \/ DSTR_get_last_dstr(a, b, flag)

DSpec == DInit /\ [][DNext]_dvars

-----------------------------------------------------------------------------
\* Whatever is set, moved, given away, reallocated and cleared, memory has one
\* owner: two would free it twice, none leaks it (DSTR_append and a failed
\* realloc do, and only they); and free gets only what malloc returned.
OwnedOnce ==
    /\ ~badfree
    /\ \A k \in allocated : Cardinality({s \in Strings : str[s].own /\ str[s].at = k})
                            = IF k \in lost THEN 0 ELSE 1
    /\ \A s \in Strings : str[s].own => str[s].at \in allocated /\ str[s].off = 0

\* The pointer and the length of every string delimit the text that cutting
\* pieces off at separators, from the front and from the back, copying and
\* appending should leave.
StringIsText == \A s \in Strings : Text(s) = want[s]

\* Strings own what they should and hold what they should, through any sequence
\* of calls of the functions of dstr.c.
StringSound == OwnedOnce /\ StringIsText
=============================================================================
