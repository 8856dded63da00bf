---------------------------- MODULE MountMonitor ----------------------------
(***************************************************************************)
(* lib/mountinfo: threads called for a change of the mount table read the  *)
(* mountinfo file into one of two buffers and merge it, line by line, into *)
(* the list monitor->mountlines.  The list has no text of its own: the     *)
(* data of a line is a place in the buffer it was read into.  Others look  *)
(* up mounts in the list with the read lock of its header (export.c); the  *)
(* merge has the write lock (ListRWLock).                                  *)
(*                                                                         *)
(* A line of the file is an id and a text, and the file has its lines in   *)
(* the order of their ids, as the merge expects.  Memory is available.     *)
(***************************************************************************)
EXTENDS Integers, Sequences, FiniteSets, SequencesExt

CONSTANTS Threads,      \* threads that call MOUNTINFO_read_mount_table
          Exporters,    \* threads that call mountinfo_export_mount
          Ids,          \* mount ids
          Unreadable,   \* lines that cannot be parsed
          System,       \* ids of system related filesystems
          MaxChanges    \* bound: changes of the mount table by the kernel

Lines == [id : Ids, text : {0, 1}]

ASSUME MountAssumption ==
    Ids \subseteq Nat /\ Unreadable \subseteq Lines /\ System \subseteq Ids /\ MaxChanges \in Nat

VARIABLES
    file,       \* the lines of the mountinfo file
    changes,    \* number of changes of the file so far
    ignore,     \* flags & MOUNT_MONITOR_FLAG_IGNORE_SYSTEM_FS; never changes
    buffer,     \* monitor->buffer[0] and [1]
    current,    \* index of monitor->current
    previous,   \* index of monitor->previous, or -1 when it is NULL
    table,      \* monitor->mountlines: an id and a place in a buffer
    pc,         \* pc[t]: where t is in MOUNTINFO_read_mount_table
    thread,     \* monitor->thread
    changed,    \* monitor->status & MOUNT_MONITOR_STATUS_FLAG_CHANGED
    list,       \* the merge: position on the table
    ctr,        \* the merge: lines read from the current buffer
    sysflag,    \* the merge: mline.flags & MOUNTINFO_LINE_FLAG_SYSTEM
    export,     \* export[x]: the line x copies, none or one
    told,       \* ids the callback was told as added and not yet as removed
    due,        \* history: changes when MOUNTINFO_read_mount_table was last called
    tried,      \* history: changes when the file was last read, or could not be
    muted,      \* history: ids of the table added with the flag SYSTEM left of another line
    skipped,    \* history: the last merge removed a line with a line of the file in hand
    broken      \* history: a merge met a line it could not parse

monitor == <<buffer, current, previous, table>>
merge == <<list, ctr, sysflag, told, muted, skipped, broken>>
flags == <<thread, changed>>
vars == <<file, changes, ignore, buffer, current, previous, table, pc, thread, changed,
          list, ctr, sysflag, export, told, muted, due, tried, skipped, broken>>

\* MOUNTMONITOR_init
Init ==
    /\ file = <<>> /\ changes = 0 /\ ignore \in BOOLEAN
    /\ buffer = [b \in {0, 1} |-> <<>>] /\ current = 0 /\ previous = -1
    /\ table = <<>>
    /\ pc = [t \in Threads |-> "idle"]
    /\ thread = FALSE /\ changed = FALSE
    /\ list = 0 /\ ctr = 0 /\ sysflag = FALSE
    /\ export = [x \in Exporters |-> {}]
    /\ told = {} /\ muted = {} /\ due = 0 /\ tried = 0 /\ skipped = FALSE /\ broken = FALSE

IdsOf(s) == {s[i].id : i \in DOMAIN s}
Goto(t, stage) == pc' = [pc EXCEPT ![t] = stage]

-----------------------------------------------------------------------------
(* The kernel: mount, umount, remount.                                     *)

Kernel(newfile) ==
    /\ changes < MaxChanges
    /\ changes' = changes + 1
    /\ file' = newfile
    /\ UNCHANGED <<ignore, monitor, pc, flags, merge, export, due, tried>>

\* At its place in the order of the ids.
Mount(line) == \E k \in 1 .. Len(file) + 1 :
    /\ \A i \in DOMAIN file : IF i < k THEN file[i].id < line.id ELSE file[i].id > line.id
    /\ Kernel(InsertAt(file, k, line))

Umount(k) ==
    /\ k \in DOMAIN file
    /\ Kernel(RemoveAt(file, k))

Remount(k) ==
    /\ k \in DOMAIN file
    /\ Kernel([file EXCEPT ![k].text = 1 - @])

-----------------------------------------------------------------------------
(* MOUNTINFO_read_mount_table up to the merge.                             *)

\* With the lock bit THREAD: another thread is told, or this one reads.  The
\* flags of the local mline are what was on the stack: mountinfo_line_init
\* leaves them alone.
Enter(t) ==
    /\ pc[t] = "idle"
    /\ due' = changes
    /\ \/ thread /\ changed' = TRUE /\ UNCHANGED <<thread, pc, sysflag>>
       \/ /\ ~thread /\ thread' = TRUE /\ Goto(t, "read")
          /\ sysflag' \in BOOLEAN
          /\ UNCHANGED changed
    /\ UNCHANGED <<file, changes, ignore, monitor, list, ctr, told, muted, skipped, broken,
                   export, tried>>

\* The current buffer, grown until they fit, gets these lines.
Fill(lines) == buffer' = [buffer EXCEPT ![current] = lines]

\* IO_buffer_cmp: both have data, and the same.
SameData(a, b) == a # <<>> /\ b # <<>> /\ a = b

\* MOUNTINFO_io_read_mountinfo_from_system; nothing more is done when the file
\* cannot be opened, or gives nothing, or what is in the other buffer.
ReadFile(t) ==
    /\ pc[t] = "read"
    /\ tried' = changes
    /\ \/ Goto(t, "end") /\ UNCHANGED buffer
       \/ Goto(t, "end") /\ Fill(<<>>)
       \/ /\ file # <<>>
          /\ Fill(file)
          /\ Goto(t, IF previous # -1 /\ SameData(file, buffer[previous]) THEN "end" ELSE "lock")
    /\ UNCHANGED <<file, changes, ignore, current, previous, table, flags, merge, export, due>>

\* LIST_header_set_write_lock
MergeStart(t) ==
    /\ pc[t] = "lock"
    /\ \A x \in Exporters : export[x] = {}
    /\ list' = 1 /\ ctr' = 0 /\ skipped' = FALSE
    /\ Goto(t, "merge")
    /\ UNCHANGED <<file, changes, ignore, monitor, flags, sysflag, told, muted, broken, export,
                   due, tried>>

-----------------------------------------------------------------------------
(* The merge: one action per outcome of a round of the loop.  mdata.eof is *)
(* set when the last line is read.                                         *)

eof == ctr = Len(buffer[current])
mline == buffer[current][ctr + 1]
mlist == table[list]

\* The text of a line of the table: what is now at its place in the buffer.
Text(l) == IF l.at \in DOMAIN buffer[l.in] THEN {buffer[l.in][l.at]} ELSE {}

\* DSTR_cmp_str in full, of a line of the table and the line that is read.
SameText == Text(mlist) = {mline}

\* mountinfo_read_line_from_current: the text is compared, then the mount id.
Diff == IF SameText \/ mlist.id = mline.id THEN 0
        ELSE IF mlist.id < mline.id THEN -1 ELSE 1

Parsed == SameText \/ mline \notin Unreadable

Merging(t) == pc[t] = "merge"
Listed == list <= Len(table)
Round == UNCHANGED <<file, changes, ignore, buffer, current, previous, pc, flags, export, due, tried, broken>>

\* mountinfo_filesystem_is_system_related, by file system or mount point.
SystemRelated(line) == line.id \in System

\* The last step of mountinfo_process_mountinfo_line: the flag is set and never
\* cleared, so it is of this line or of any before it.
FlagLine == sysflag' = (sysflag \/ SystemRelated(mline))

\* Mutant: nobody is told.
RemoveListedMutant ==
    /\ table' = RemoveAt(table, list)
    /\ UNCHANGED <<list, told, muted>>

\* mountinfo_monitor_process_remove
RemoveListed ==
    /\ table' = RemoveAt(table, list)
    /\ told' = told \ {mlist.id}
    /\ muted' = muted \ {mlist.id}
    /\ UNCHANGED list

\* Previous available, current not: removed.
MergeRemoveRest(t) ==
    /\ Merging(t) /\ Listed /\ eof
    /\ RemoveListed
    /\ Round /\ UNCHANGED <<ctr, sysflag, skipped>>

\* "mountid from previous is smaller than the one found in current ... which
\* means it's removed"; the line from current has been read.
MergeRemove(t) ==
    /\ Merging(t) /\ Listed /\ ~eof /\ Parsed /\ Diff = -1
    /\ RemoveListed
    /\ ctr' = ctr + 1
    /\ FlagLine
    /\ skipped' = TRUE
    /\ Round

\* Mutant: the line keeps its place in the old buffer.
MergeSameMutant(t) ==
    /\ Merging(t) /\ Listed /\ ~eof /\ Parsed /\ Diff = 0
    /\ list' = list + 1
    /\ ctr' = ctr + 1
    /\ Round /\ UNCHANGED <<table, sysflag, told, muted, skipped>>

\* The lines are the same: only the data is set, to the place in this buffer.
MergeSame(t) ==
    /\ Merging(t) /\ Listed /\ ~eof /\ Parsed /\ Diff = 0
    /\ table' = [table EXCEPT ![list] = [id |-> mlist.id, in |-> current, at |-> ctr + 1]]
    /\ list' = list + 1
    /\ ctr' = ctr + 1
    /\ IF SameText THEN UNCHANGED sysflag ELSE FlagLine
    /\ Round /\ UNCHANGED <<told, muted, skipped>>

\* mountinfo_list_create: a line of the table, with its data where it was read.
ListCreate == [id |-> mline.id, in |-> current, at |-> ctr + 1]

\* mountinfo_monitor_add_mline: before the line of the table, or at the end.  The
\* flag of mline decides whether it is told.
AddMLine ==
    /\ table' = InsertAt(table, list, ListCreate)
    /\ list' = list + 1
    /\ ctr' = ctr + 1
    /\ FlagLine
    /\ told' = IF ignore /\ sysflag' THEN told ELSE told \cup {mline.id}
    /\ muted' = IF sysflag /\ ignore THEN muted \cup {mline.id} ELSE muted
    /\ UNCHANGED skipped

MergeAdd(t) ==
    /\ Merging(t) /\ ~eof
    /\ \/ Listed /\ Parsed /\ Diff = 1
       \/ ~Listed /\ mline \notin Unreadable
    /\ AddMLine
    /\ Round

\* Write lock off, buffers switched.
Leave(t) ==
    /\ previous' = current
    /\ current' = 1 - current
    /\ list' = 0 /\ ctr' = 0
    /\ Goto(t, "end")
    /\ UNCHANGED <<file, changes, ignore, buffer, table, flags, sysflag, told, muted, skipped,
                   export, due, tried>>

\* A line that cannot be parsed ends the merge.
MergeBreak(t) ==
    /\ Merging(t) /\ ~eof
    /\ IF Listed THEN ~Parsed ELSE mline \in Unreadable
    /\ broken' = TRUE
    /\ Leave(t)

\* Mutant: the merge ends with the file, whatever is left of the table.
MergeEndMutantEarly(t) ==
    /\ Merging(t) /\ eof
    /\ Leave(t)
    /\ UNCHANGED broken

MergeEnd(t) ==
    /\ Merging(t) /\ ~Listed /\ eof
    /\ Leave(t)
    /\ UNCHANGED broken

\* Mutant: the flag CHANGED is cleared without another round.
EndMutant(t) ==
    /\ pc[t] = "end"
    /\ changed' = FALSE
    /\ thread' = FALSE
    /\ Goto(t, "idle")
    /\ UNCHANGED <<file, changes, ignore, monitor, merge, export, due, tried>>

\* With the lock bit THREAD: once more from the start, or done, and mline is gone.
End(t) ==
    /\ pc[t] = "end"
    /\ changed' = FALSE
    /\ \/ changed /\ Goto(t, "read") /\ UNCHANGED <<thread, sysflag>>
       \/ ~changed /\ Goto(t, "idle") /\ thread' = FALSE /\ sysflag' = FALSE
    /\ UNCHANGED <<file, changes, ignore, monitor, list, ctr, told, muted, skipped, broken,
                   export, due, tried>>

-----------------------------------------------------------------------------
(* mountinfo_export_mount                                                  *)

\* The read lock, and the search for the mount id.
ExportFind(x, i) ==
    /\ export[x] = {}
    /\ \A t \in Threads : ~Merging(t)
    /\ \E k \in DOMAIN table :
         /\ table[k].id = i
         /\ export' = [export EXCEPT ![x] = {table[k]}]
    /\ UNCHANGED <<file, changes, ignore, monitor, pc, flags, merge, due, tried>>

\* The fields are copied, and the lock released.
ExportCopy(x) ==
    /\ export[x] # {}
    /\ export' = [export EXCEPT ![x] = {}]
    /\ UNCHANGED <<file, changes, ignore, monitor, pc, flags, merge, due, tried>>

-----------------------------------------------------------------------------
Merge(t) == \/ MergeStart(t) \/ MergeRemoveRest(t) \/ MergeRemove(t) \/ MergeSame(t)
            \/ MergeAdd(t) \/ MergeBreak(t) \/ MergeEnd(t)

Next ==
    \/ \E l \in Lines : Mount(l)
    \/ \E k \in DOMAIN file : Umount(k) \/ Remount(k)
    \/ \E t \in Threads : Enter(t) \/ ReadFile(t) \/ Merge(t) \/ End(t)
    \/ \E x \in Exporters : ExportCopy(x) \/ \E i \in Ids : ExportFind(x, i)

Spec == Init /\ [][Next]_vars

-----------------------------------------------------------------------------
AtRest == \A t \in Threads : ~Merging(t)

\* A call that comes while another thread reads is not lost: when nobody is
\* reading, the file was read after the last call (thread and CHANGED, both
\* changed with the lock bit THREAD); and one thread reads and merges at a time.
NoMissedChange ==
    /\ ~thread => tried >= due
    /\ \A t, u \in Threads : pc[t] # "idle" /\ pc[u] # "idle" => t = u
    /\ thread <=> \E t \in Threads : pc[t] # "idle"

\* A line somebody copies is still in the table, and the text of every line of
\* the table is that of its own mount, although the buffers are read into and switched: each merge
\* moves every line that stays to the buffer that is kept.
TextIsOwn ==
    /\ \A x \in Exporters : export[x] \subseteq Range(table)
    /\ ~broken => \A l \in Range(table) :
                      \E c \in Text(l) : c.id = l.id

\* Between merges the table has no mount that was not in the file, and no
\* mount twice; and a merge in which mounts only disappear at the end of the file
\* gives it all the mounts of the file, in their order, whatever earlier merges
\* did.
MergeExact ==
    (AtRest /\ previous # -1 /\ ~broken) =>
        /\ IdsOf(table) \subseteq IdsOf(buffer[previous])
        /\ Cardinality(IdsOf(table)) = Len(table)
        /\ ~skipped => [k \in DOMAIN table |-> table[k].id]
                          = [k \in DOMAIN buffer[previous] |-> buffer[previous][k].id]

\* What the callback was told adds up to the table at every step of the merge,
\* until a merge meets a line it cannot parse (after which a mount may be in the
\* table twice).  When system filesystems are ignored none of them is told, and
\* every other mount of the table is, except those added while the flag SYSTEM was left
\* of an earlier line or of the stack (read.c:203 and 250).
ToldIsTable ==
    ~broken =>
        /\ ~ignore => told = IdsOf(table)
        /\ ignore => /\ told \subseteq IdsOf(table) \ System
                     /\ IdsOf(table) \ (System \cup muted) \subseteq told

\* "current available: compare, or added" (read.c:500-518): between merges every
\* mount of the file that was read is in the table.
EveryMountListed ==
    (AtRest /\ previous # -1 /\ ~broken) => IdsOf(buffer[previous]) \subseteq IdsOf(table)
=============================================================================
