---------------------------- MODULE MCListRWLock ----------------------------
(* HashTable for TLC, which has all of ListRWLock: five threads in several crews. *)
EXTENDS HashTable

CONSTANTS t1, t2, t3, t4, t5, e1, e2

Crew(a, b, c, d, e) == [t \in {t1, t2, t3, t4, t5} |->
    CASE t = t1 -> a [] t = t2 -> b [] t = t3 -> c [] t = t4 -> d [] t = t5 -> e]

R == {"read"}
W == {"write"}

\* The mount table: one thread writes, others read; then with timeouts.
OneWriter  == Crew(W, R, R, R, {})
LateWriter == Crew({"write", "timeout"}, R, R, {}, {})
\* Writers only.
NoReaders  == Crew(W, W, W, {}, {})
\* A hashtable row: readers, writers and a reader that upgrades.
Everybody  == Crew({"read", "upgrade", "timeout"}, R, R, {"write", "timeout"}, W)
\* Two writers and a reader.
TwoWriters == Crew(W, W, R, {}, {})

\* Users of a hash table: finders, an adder, and one that takes back.
F == {"read", "upgrade", "find"}
A == {"write", "add"}
OneFinder  == Crew(F, A, {}, {}, {})
Finders    == Crew(F, F, A, {}, {})
TakesBack  == Crew(F, A, {"write", "remove"}, {}, {})

AllCrews == {OneWriter, LateWriter, NoReaders, Everybody, OneFinder, Finders, TakesBack}
TwoWritersOnly == {TwoWriters}
=============================================================================
