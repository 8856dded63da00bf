------------------------------ MODULE MCValues ------------------------------
(* The kinds of values of the library, times, paths, strings and mdns       *)
(* messages, for TLC: each one explored by itself.  Seconds of four         *)
(* nanoseconds; names of no, one and two bytes and an absolute path; a line *)
(* with two separators; messages with up to two records in a section.       *)
EXTENDS Time, Path, Dstr, MdnsMessage

VARIABLE part       \* the kind of value that is used; never changes

Data4 == {<<>>, <<"a">>, <<"b", "a">>, <<"/", "b">>}
Line4 == <<"a", "=", "b", "=">>

\* xw._s.l, y.l, _s.l and a name too long for the buffer of its text.
LocalLabel == <<108>>
Service == <<<<95, 115>>, LocalLabel>>
Instance == <<<<120, 119>>>> \o Service
Host == <<<<121>>, LocalLabel>>
LongName == <<<<119, 119, 119, 119, 119>>>> \o Service

RecordOf(type, name, class, ttl) == [type |-> type, name |-> name, class |-> class, ttl |-> ttl]
Pointer(target) == RecordOf(TypePTR, Service, TopBit + ClassIN, 0) @@ [target |-> target]
Location == RecordOf(TypeSRV, Instance, 0, 300) @@ [port |-> 2022, target |-> Host]
Place == RecordOf(TypeA, Host, TopBit + ClassIN, 70000) @@ [addr |-> <<10, 0, 0, 7>>]
Place6 == RecordOf(TypeAAAA, Host, 0, 0) @@ [addr |-> [k \in 1 .. 16 |-> k]]
Note(key, value) == RecordOf(TypeTXT, Instance, 0, 0) @@ [key |-> key, value |-> value]

Section == SeqOf({Location, Place, Place6, Note(<<107>>, <<118, 61>>), Note(<<107, 50>>, <<>>)}, 2)

SomeRequests ==
    [how : {"query"}, questions : SeqOf({[name |-> n, type |-> TypePTR] :
                                         n \in {Service, Instance, LongName}}, 2)]
    \cup [how : {"unicast"}, question : {[name |-> Service, type |-> TypePTR]},
          answer : {Pointer(Instance), Pointer(LongName), Place},
          authority : Section, additional : Section]
    \cup [how : {"answer", "announce", "goodbye"}, answer : {Pointer(Instance), Location},
          authority : Section, additional : Section]

FirstRequest == CHOOSE q \in Requests : TRUE
FirstRoom == CHOOSE r \in Rooms : TRUE

AllInit == /\ part \in {"time", "path", "string", "message"}
           /\ Init /\ PathInit /\ DInit /\ MInit
           /\ part # "message" => request = FirstRequest /\ room = FirstRoom

AllNext ==
    /\ UNCHANGED part
    /\ \/ part = "time" /\ Next /\ UNCHANGED <<pathvars, dvars, mvars>>
       \/ part = "path" /\ PathNext /\ UNCHANGED <<vars, dvars, mvars>>
       \/ part = "string" /\ DNext /\ UNCHANGED <<vars, pathvars, mvars>>
       \/ part = "message" /\ MNext /\ UNCHANGED <<vars, pathvars, dvars>>

AllSpec == AllInit /\ [][AllNext]_<<part, vars, pathvars, dvars, mvars>>
=============================================================================
