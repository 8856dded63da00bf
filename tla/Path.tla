-------------------------------- MODULE Path --------------------------------
(***************************************************************************)
(* lib/path: struct fs_path_s, a window in a buffer of bytes that grows at *)
(* either end.  The buffer is the path's own (realloc) or a caller's.      *)
(*                                                                         *)
(* A path without a buffer has buffer = <<>>; only then start.str is NULL. *)
(***************************************************************************)
EXTENDS Integers, Sequences, SequencesExt

CONSTANTS Data,         \* strings that are appended, prepended, copied...
          MaxSize       \* bound: bytes in a buffer

Sep == "/"
Byte == "?"             \* a byte nobody has written
NulByte == "0"

ASSUME DataAssumption == Data \subseteq Seq(STRING) /\ MaxSize \in Nat

VARIABLES buffer,       \* path->buffer; path->size is its length
          start,        \* path->start.str - path->buffer
          length,       \* path->start.length
          alloc,        \* path->flags & FS_PATH_FLAG_BUFFER_ALLOC
          append,       \* which function path->append is
          prepend,      \* which function path->prepend is
          heap,         \* history: the buffer is memory from realloc
          broken,       \* history: a byte outside of the buffer was written
          text          \* history: what the operations should have made

window == <<buffer, start, length>>
memory == <<alloc, heap, broken>>
pathvars == <<buffer, start, length, alloc, append, prepend, heap, broken, text>>

size == Len(buffer)
Window == SubSeq(buffer, start + 1, start + length)
Fresh(n) == [i \in 1 .. n |-> Byte]

\* fs_path_initializer
PathInit ==
    /\ buffer = <<>> /\ start = 0 /\ length = 0
    /\ alloc = FALSE /\ heap = FALSE /\ broken = FALSE
    /\ append = "nowrite" /\ prepend = "nowrite"
    /\ text = <<>>

-----------------------------------------------------------------------------
(* Building blocks.                                                        *)

\* FS_path_convert_type_ptr: a string, a dstr or a path as bytes; the functions
\* return when there are none.
Given(d) == Len(d) > 0

\* memcpy of d to place at of b.
Put(b, at, d) ==
    /\ buffer' = [i \in 1 .. Len(b) |-> IF i - at \in 1 .. Len(d) THEN d[i - at] ELSE b[i]]
    /\ broken' = (broken \/ at < 0 \/ at + Len(d) > Len(b))

\* realloc: the memory is the path's own when it was, or when there was none.
Realloc == heap' = (heap \/ buffer = <<>>)

\* The path becomes the whole of a buffer with d in front.
Whole(b, d) == buffer' = b /\ start' = 0 /\ length' = Len(d) /\ text' = d

\* FS_path_clear, FS_path_init; and what is left when realloc fails, also the one
\* of FS_path_copy.
Cleared ==
    /\ Whole(<<>>, <<>>)
    /\ alloc' = FALSE /\ heap' = FALSE
    /\ append' = "nowrite" /\ prepend' = "nowrite"
    /\ UNCHANGED broken

FS_path_clear == Cleared

-----------------------------------------------------------------------------
(* The two directions.                                                     *)

WriteFunction(flag) ==
    IF flag THEN "dynamic" ELSE IF buffer # <<>> THEN "static" ELSE "nowrite"

\* With the flag the buffer has to be the path's own, or none yet.
FS_path_append_init(flag) ==
    /\ flag => buffer = <<>> \/ heap
    /\ alloc' = (alloc \/ flag)
    /\ append' = WriteFunction(alloc')
    /\ UNCHANGED <<window, prepend, heap, broken, text>>

FS_path_prepend_init(flag) ==
    /\ flag => buffer = <<>> \/ heap
    /\ alloc' = (alloc \/ flag)
    /\ prepend' = WriteFunction(alloc')
    /\ UNCHANGED <<window, append, heap, broken, text>>

Separator(addpathsep) == IF addpathsep THEN <<Sep>> ELSE <<>>

\* Bytes behind the window.
Left == size - (start + length)

Appended(b, d) ==
    /\ Put(b, start + length, d)
    /\ length' = length + Len(d)
    /\ text' = text \o d
    /\ UNCHANGED <<start, alloc, append, prepend>>

\* Mutant: the buffer grows by one byte less, as when the separator is not counted.
AppendGrowMutant(d) ==
    /\ append = "dynamic" /\ Left < Len(d)
    /\ size + Len(d) - Left <= MaxSize
    /\ Realloc
    /\ Appended(buffer \o Fresh(Len(d) - Left - 1), d)

\* fs_path_append_write_dynamic, when the bytes do not fit.
AppendGrow(d) ==
    /\ append = "dynamic" /\ Left < Len(d)
    /\ size + Len(d) - Left <= MaxSize
    /\ Realloc
    /\ Appended(buffer \o Fresh(Len(d) - Left), d)

\* They fit, in an own buffer or in a caller's.
AppendFits(d) ==
    /\ append # "nowrite" /\ Left >= Len(d)
    /\ Appended(buffer, d) /\ UNCHANGED heap

\* realloc fails: the path is lost.
AppendLost(d) == append = "dynamic" /\ Left < Len(d) /\ Cleared

\* fs_path_append_write_static without room, and FS_path_append_nowrite, which
\* gives the size only, change nothing.
FS_path_append(d, addpathsep) ==
    LET bytes == Separator(addpathsep) \o d
    IN Given(d) /\ (AppendGrow(bytes) \/ AppendFits(bytes) \/ AppendLost(bytes))

\* fs_path_prepend_write_dynamic: the window moves back by what the buffer grows.
\* There has to be a buffer: without one the code writes before address 0.
Prepended(b, at, d) ==
    /\ Put(b, at - Len(d), d)
    /\ start' = at - Len(d)
    /\ length' = length + Len(d)
    /\ text' = d \o text
    /\ UNCHANGED <<alloc, append, prepend, heap>>

\* memmove of the window by n bytes, in a buffer of n bytes more.
Moved(n) ==
    LET b == buffer \o Fresh(n)
    IN [i \in 1 .. Len(b) |-> IF i - n - start \in 1 .. length THEN b[i - n] ELSE b[i]]

PrependGrow(d) ==
    LET grow == Len(d) - start IN
    /\ prepend = "dynamic" /\ buffer # <<>> /\ grow > 0
    /\ size + grow <= MaxSize
    /\ Prepended(Moved(grow), start + grow, d)

PrependLost(d) == prepend = "dynamic" /\ buffer # <<>> /\ start < Len(d) /\ Cleared

\* Every operation leaves the text at the first byte of the buffer, so there is
\* never room in front of it: the dynamic variant always grows, and
\* FS_path_prepend_write_static always returns 0.
FS_path_prepend(d, addpathsep) ==
    LET bytes == d \o Separator(addpathsep)
    IN Given(d) /\ (PrependGrow(bytes) \/ PrependLost(bytes))

-----------------------------------------------------------------------------
(* Setting the path.                                                       *)

\* A caller's buffer of n bytes with d in front, to append to it or (back, the
\* flag PREPEND) to prepend.
FS_path_set_bytes(d, n, back) ==
    /\ n >= Len(d) /\ n <= MaxSize
    /\ Whole(d \o Fresh(n - Len(d)), d)
    /\ alloc' = FALSE /\ heap' = FALSE
    /\ append' = IF back THEN "nowrite" ELSE "static"
    /\ prepend' = IF back THEN "static" ELSE "nowrite"
    /\ UNCHANGED broken

\* FS_path_copy: to own memory, or as a second name for the caller's.
FS_path_copy(d, own) ==
    /\ Given(d) /\ Len(d) <= MaxSize
    /\ Whole(d, d)
    /\ alloc' = own /\ heap' = own
    /\ append' = "nowrite" /\ prepend' = "nowrite"
    /\ UNCHANGED broken

\* FS_path_import: into the buffer, or into one of the right size.
ImportFits(d, endzero) ==
    /\ buffer # <<>> /\ size >= Len(d) + endzero
    /\ Whole(d \o [i \in 1 .. size - Len(d) |-> NulByte], d)
    /\ UNCHANGED <<memory, append, prepend>>

\* FS_path_allocate
Allocated(d, endzero) ==
    /\ Len(d) + endzero <= MaxSize
    /\ Whole(d \o [i \in 1 .. endzero |-> NulByte], d)
    /\ alloc' = TRUE /\ Realloc
    /\ UNCHANGED <<broken, append, prepend>>

ImportAllocates(d, endzero) ==
    /\ size < Len(d) + endzero
    /\ alloc \/ buffer = <<>>
    /\ Allocated(d, endzero)

\* realloc fails: no buffer is left, and the functions stay as they are.
ImportLost(d, endzero) ==
    /\ size < Len(d) + endzero
    /\ alloc
    /\ Whole(<<>>, <<>>)
    /\ alloc' = FALSE /\ heap' = FALSE
    /\ UNCHANGED <<broken, append, prepend>>

FS_path_import(d, endzero) ==
    ImportFits(d, endzero) \/ ImportAllocates(d, endzero) \/ ImportLost(d, endzero)

-----------------------------------------------------------------------------
(* Taking apart, comparing.                                                *)

Separators(t) == {i \in DOMAIN t : t[i] = Sep}

\* Place of the last separator (memrchr), 0 when there is none.
LastSep(t) == IF Separators(t) = {} THEN 0 ELSE CHOOSE i \in Separators(t) :
                                                \A k \in Separators(t) : k <= i

\* Length that is left by FS_path_get_filename with remove: a last separator
\* goes alone.
Directory(t) ==
    LET pos == LastSep(t)
    IN IF pos = Len(t) THEN Len(t) - 1 ELSE pos - 1

Filename(t) == SubSeq(t, LastSep(t) + 1, Len(t))

FS_path_get_filename ==
    /\ length > 0 /\ LastSep(Window) > 0
    /\ length' = Directory(Window)
    /\ text' = SubSeq(text, 1, Directory(text))
    /\ UNCHANGED <<buffer, start, memory, append, prepend>>

\* fs_path_compare_subdirectory for paths of different lengths.  (Two paths of
\* the same length are called equal without a look at their bytes.)
Subdirectory(pa, pb) ==
    /\ Len(pa) < Len(pb)
    /\ pa # <<>> /\ SubSeq(pb, 1, Len(pa)) = pa
    /\ pb[Len(pa) + 1] = Sep

-----------------------------------------------------------------------------
PathNext ==
    \/ FS_path_clear \/ FS_path_get_filename
    \/ \E flag \in BOOLEAN : FS_path_append_init(flag) \/ FS_path_prepend_init(flag)
    \/ \E d \in Data :
          \/ \E addpathsep \in BOOLEAN : FS_path_append(d, addpathsep) \/ FS_path_prepend(d, addpathsep)
          \/ \E own \in BOOLEAN : FS_path_copy(d, own)
    \/ \E d \in Data \ {<<>>} :
          \/ \E n \in 1 .. MaxSize, back \in BOOLEAN : FS_path_set_bytes(d, n, back)
          \/ \E endzero \in {0, 1} : FS_path_import(d, endzero)

PathSpec == PathInit /\ [][PathNext]_pathvars

-----------------------------------------------------------------------------
\* However the buffer grew, moved or was filled, the window is inside it and
\* holds exactly what was appended and prepended, and nothing was written
\* outside of it.
WindowIsText ==
    /\ ~broken
    /\ start >= 0 /\ start + length <= size
    /\ Window = text

\* FS_path_clear and realloc get only memory that the path allocated itself.
FreesOwn == alloc /\ buffer # <<>> => heap

\* What FS_path_get_filename takes apart fits together again: a path is its
\* directory, a separator and a filename without separator, and FS_path_compare
\* finds it to be in that directory.
SplitJoins == LastSep(Window) > 0 =>
    LET directory == SubSeq(Window, 1, Directory(Window))
    IN /\ directory \o <<Sep>> \o Filename(Window) = Window
       /\ Sep \notin Range(Filename(Window))
       /\ directory # <<>> => Subdirectory(directory, Window)

\* A path is sound: its window, its memory and its parts.
PathSound == WindowIsText /\ FreesOwn /\ SplitJoins
=============================================================================
