------------------------------ MODULE HashTable ------------------------------
(***************************************************************************)
(* lib/hashtable/table.c and unique-id.c: elements waiting for a reply,    *)
(* kept by the id of their request in the rows of a table.  Every row is a *)
(* list with the read/write lock of ListRWLock; this module is one row and *)
(* the threads that add to it, remove from it and find in it, next to the  *)
(* threads of ListRWLock that only lock and unlock.                        *)
(*                                                                         *)
(* An element out of its list has ops = NULL and h = NULL                  *)
(* (LIST_element_init): to step from it, to remove it again, or to add it  *)
(* without a header of its own, ends the program.                          *)
(***************************************************************************)
EXTENDS ListRWLock, SequencesExt

CONSTANTS Elements,     \* what the callers keep in the table
          IdWidth,      \* width of an id in bits: 8, 16, 32 or 64
          Size,         \* rows of the table
          Row,          \* the row modelled
          NoElement,
          NoId

ASSUME RowAssumption == Size \in Nat \ {0} /\ Row \in 0 .. Size - 1
ASSUME NoneAssumption == NoElement \notin Elements /\ NoId \notin Nat
ASSUME IdAssumption == IdWidth \in Nat /\ 2 ^ IdWidth \in Nat \ {0}

\* A thread that finds does nothing else with the table.
ASSUME UserAssumption == \A c \in Crews, t \in Threads :
    "find" \in c[t] => c[t] \cap {"add", "remove"} = {}

VARIABLES live,      \* htable->add, remove, find: the default functions, not noop
          lastid,    \* htable->id.id064
          row,       \* the elements of the row, first to last
          id,        \* id[e]: the id element e was added with
          asked,     \* asked[t]: the id thread t looks for
          at,        \* at[t]: the local variable list of find, or l of add, remove
          handed,    \* handed[e]: how often e was given to a callback
          crashed    \* the NULL of an element in no list was used

tvars == <<live, lastid, row, id, asked, at, handed, crashed>>
hvars == <<vars, tvars>>

Ids == 0 .. 2 ^ IdWidth - 1
Users == {t \in Threads : crew[t] \cap {"find", "add", "remove"} # {}}

hashfunction(i) == i % Size
increaseid(i) == (i + 1) % 2 ^ IdWidth

HInit ==
    /\ Init
    /\ live = FALSE
    /\ lastid = 0
    /\ row = <<>>
    /\ id = [e \in Elements |-> NoId]
    /\ asked = [t \in Threads |-> NoId]
    /\ at = [t \in Threads |-> NoElement]
    /\ handed = [e \in Elements |-> 0]
    /\ crashed = FALSE

-----------------------------------------------------------------------------
(* The table, set up before and torn down after its use.                   *)

Quiet == \A t \in Threads : pc[t] = "idle" /\ mode[t] = "none" /\ at[t] = NoElement

\* HASHTABLE_init: a type of id it does not know, or no memory, ends in
\* HASHTABLE_clear, with functions that do nothing.
HASHTABLE_init ==
    /\ ~live /\ Users # {} /\ Quiet
    /\ live' \in BOOLEAN
    /\ lastid' = 0 /\ row' = <<>> /\ lockflags' = 0
    /\ UNCHANGED <<crew, threadid, pc, asleep, mode, id, asked, at, handed, crashed>>

\* The end of a table: HASHTABLE_walk hands what is in it to cb_clear and
\* HASHTABLE_clear puts back the functions that do nothing; neither locks.
HASHTABLE_clear ==
    /\ live /\ Quiet
    /\ handed' = [e \in Elements |-> handed[e] + Cardinality({k \in DOMAIN row : row[k] = e})]
    /\ row' = <<>>
    /\ live' = FALSE
    /\ UNCHANGED <<vars, lastid, id, asked, at, crashed>>

\* A caller takes the next id for a request; the other rows take theirs.
NextId ==
    /\ live
    /\ lastid' = increaseid(lastid)
    /\ UNCHANGED <<vars, live, row, id, asked, at, handed, crashed>>

-----------------------------------------------------------------------------
(* hashtable_addremove_default: the element's header is read, the row is   *)
(* locked, and what was decided is done.                                   *)

\* The row is that of l->h, for an element to add as for one to remove.  A caller that
\* adds has set it for the id (LIST_element_init); in an element in no list it is NULL.
Enters(t, e) ==
    /\ CallWriteLock(t)
    /\ at' = [at EXCEPT ![t] = e]
    /\ UNCHANGED crashed

NoHeader(t) ==
    /\ pc[t] = "idle" /\ mode[t] = "none"
    /\ crashed' = TRUE
    /\ UNCHANGED <<vars, at>>

AddCall(t, e) ==
    /\ live /\ "add" \in crew[t]
    /\ id[e] = NoId                            \* a new element
    /\ \/ /\ hashfunction(lastid) = Row
          /\ Enters(t, e)
          /\ id' = [id EXCEPT ![e] = lastid]
          /\ lastid' = increaseid(lastid)
       \/ NoHeader(t) /\ UNCHANGED <<id, lastid>>
    /\ UNCHANGED <<live, row, asked, handed>>

RemoveCall(t, e) ==
    /\ live /\ "remove" \in crew[t]
    /\ id[e] # NoId /\ handed[e] = 0
    /\ \A u \in Threads : at[u] = e => "find" \in crew[u]      \* it has been added
    /\ \/ e \in ToSet(row) /\ Enters(t, e)
       \/ e \notin ToSet(row) /\ NoHeader(t)
    /\ UNCHANGED <<live, lastid, row, id, asked, handed>>

Holds(t) == pc[t] = "idle" /\ mode[t] = "write"

\* LIST_element_remove, by the thread that has e in hand.
TakeOut(e) ==
    \/ \E k \in DOMAIN row : row[k] = e /\ row' = RemoveAt(row, k) /\ UNCHANGED crashed
    \/ e \notin ToSet(row) /\ crashed' = TRUE /\ UNCHANGED row

\* Mutant: add does not wait for the lock it asked for.
AddRemoveMutant(t) ==
    /\ crew[t] \cap {"add", "remove"} # {} /\ at[t] # NoElement
    /\ \/ "add" \in crew[t] /\ row' = Append(row, at[t]) /\ UNCHANGED crashed
       \/ "remove" \in crew[t] /\ TakeOut(at[t])
    /\ at' = [at EXCEPT ![t] = NoElement]
    /\ UNCHANGED <<vars, live, lastid, id, asked, handed>>

AddRemove(t) ==
    /\ crew[t] \cap {"add", "remove"} # {} /\ at[t] # NoElement /\ Holds(t)
    /\ \/ "add" \in crew[t] /\ row' = Append(row, at[t]) /\ UNCHANGED crashed
       \/ "remove" \in crew[t] /\ TakeOut(at[t])
    /\ at' = [at EXCEPT ![t] = NoElement]
    /\ UNCHANGED <<vars, live, lastid, id, asked, handed>>

AddRemoveEnd(t) ==
    /\ crew[t] \cap {"add", "remove"} # {} /\ at[t] = NoElement
    /\ unset_write_lock(t)
    /\ UNCHANGED tvars

-----------------------------------------------------------------------------
(* hashtable_find_default.                                                 *)

FindCall(t, i) ==
    /\ live /\ "find" \in crew[t] /\ CallReadLock(t)
    /\ asked[t] = NoId /\ hashfunction(i) = Row
    /\ asked' = [asked EXCEPT ![t] = i]
    /\ UNCHANGED <<live, lastid, row, id, at, handed, crashed>>

\* The read lock is set; list is the first element, or NULL.
FindFirst(t) ==
    /\ asked[t] # NoId /\ set_read_lock(t)
    /\ at' = [at EXCEPT ![t] = IF mode'[t] = "none" \/ row = <<>> THEN NoElement ELSE Head(row)]
    /\ UNCHANGED <<live, lastid, row, id, asked, handed, crashed>>

Walks(t) == asked[t] # NoId /\ pc[t] = "idle" /\ mode[t] = "read"

After(e) == LET k == CHOOSE k \in DOMAIN row : row[k] = e
            IN IF k = Len(row) THEN NoElement ELSE row[k + 1]

FindNext(t) ==
    /\ Walks(t) /\ at[t] # NoElement /\ id[at[t]] # asked[t]
    /\ \/ /\ at[t] \in ToSet(row)
          /\ at' = [at EXCEPT ![t] = After(at[t])]
          /\ UNCHANGED crashed
       \/ at[t] \notin ToSet(row) /\ crashed' = TRUE /\ UNCHANGED at
    /\ UNCHANGED <<vars, live, lastid, row, id, asked, handed>>

\* Mutant: the element is taken out with the read lock only.
FindMatchMutant(t) ==
    /\ Walks(t) /\ at[t] # NoElement /\ id[at[t]] = asked[t]
    /\ unset_read_lock(t)
    /\ row' = Remove(row, at[t])
    /\ handed' = [handed EXCEPT ![at[t]] = @ + 1]
    /\ asked' = [asked EXCEPT ![t] = NoId]
    /\ at' = [at EXCEPT ![t] = NoElement]
    /\ UNCHANGED <<live, lastid, id, crashed>>

FindMatch(t) ==
    /\ Walks(t) /\ at[t] # NoElement /\ id[at[t]] = asked[t]
    /\ CallUpgradeLock(t)
    /\ UNCHANGED tvars

FindRemove(t) ==
    /\ asked[t] # NoId /\ Holds(t)
    /\ TakeOut(at[t])
    /\ asked' = [asked EXCEPT ![t] = NoId]
    /\ UNCHANGED <<vars, live, lastid, id, at, handed>>

\* The release is refused (the upgrade sets no owner); then cb_found.
FindFound(t) ==
    /\ "find" \in crew[t] /\ asked[t] = NoId /\ at[t] # NoElement
    /\ unset_write_lock(t)
    /\ handed' = [handed EXCEPT ![at[t]] = @ + 1]
    /\ at' = [at EXCEPT ![t] = NoElement]
    /\ UNCHANGED <<live, lastid, row, id, asked, crashed>>

FindMissing(t) ==
    /\ Walks(t) /\ at[t] = NoElement
    /\ unset_read_lock(t)
    /\ asked' = [asked EXCEPT ![t] = NoId]
    /\ UNCHANGED <<live, lastid, row, id, at, handed, crashed>>

-----------------------------------------------------------------------------
(* hashtable_find_default passes no timeout and the retry of the upgrade   *)
(* is never taken (ListRWLock), so its goto lockstart is not reached.      *)

Inside(t) == (Write(t) \/ Upgrade(t)) /\ UNCHANGED tvars

Use(t) ==
    \/ AddRemove(t) \/ AddRemoveEnd(t)
    \/ FindFirst(t) \/ FindNext(t) \/ FindMatch(t) \/ FindRemove(t)
    \/ FindFound(t) \/ FindMissing(t)
    \/ Inside(t)

Works ==
    \/ HASHTABLE_init \/ HASHTABLE_clear \/ NextId
    \/ \E t \in Threads \ Users : Step(t) /\ UNCHANGED tvars
    \/ \E t \in Users : \/ Use(t)
                        \/ Wakeup(t) /\ UNCHANGED tvars
                        \/ \E e \in Elements : AddCall(t, e) \/ RemoveCall(t, e)
                        \/ \E i \in Ids : FindCall(t, i)

HNext == \/ ~crashed /\ Works
         \/ crashed /\ UNCHANGED hvars        \* the program has ended

HSpec == HInit /\ [][HNext]_hvars

\* Threads go on when they can, and who has the lock gives it back.
HFairness == \A t \in Threads :
    /\ WF_hvars(t \notin Users /\ Proceed(t) /\ UNCHANGED tvars)
    /\ WF_hvars(t \in Users /\ ~crashed /\ Use(t))

HFairSpec == HSpec /\ HFairness

-----------------------------------------------------------------------------
\* Finders and one adder; no thread takes back what it added.
Delivering == Having("remove") = {} /\ Cardinality(Having("add")) <= 1

\* Nobody but table.c locks the rows of a table: finders read and upgrade, those who
\* add or remove write.
Private == /\ Having("read") = Having("find") /\ Having("upgrade") \subseteq Having("find")
           /\ Having("write") = Having("add") \cup Having("remove")

LoneFinder == Delivering /\ Private /\ Cardinality(Having("find")) = 1

InHand(e) == {t \in Having("find") : asked[t] = NoId /\ at[t] = e}
Adding(e) == {t \in Having("add") : at[t] = e}
Places(e) == {k \in DOMAIN row : row[k] = e}

\* "crucial role plays the unique id" (table.c:18): whatever the finders do
\* at the same time, an element is handed to one callback only, and the row
\* has just the elements added and not handed out or in a finder's hands.
HandedOnce == (Delivering /\ ~crashed) => \A e \in Elements :
    handed[e] + Cardinality(InHand(e)) + Cardinality(Adding(e)) + Cardinality(Places(e))
        = IF id[e] = NoId THEN 0 ELSE 1

\* With one finder and one adder no walk runs over an element that is gone, and an
\* id that find does not know is in no element of the row at that moment: the
\* reader's lock keeps the adder out from the first element to the last.  (An adder
\* that has waited for another writer would get in while the finder reads.)
MissIsRight ==
    [][LoneFinder => \A t \in Having("find") :
         /\ Use(t) => ~crashed'
         /\ FindMissing(t) => \A k \in DOMAIN row : id[row[k]] # asked[t]]_hvars
==============================================================================
