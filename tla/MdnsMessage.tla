---------------------------- MODULE MdnsMessage ----------------------------
(***************************************************************************)
(* The bytes of a multicast dns message (lib/dnssd/mdns.h): a question or  *)
(* an answer is written by the functions of the header and read by the     *)
(* functions a receiver uses.  A label that was written before is replaced *)
(* by a reference to it, with all labels after it.                         *)
(*                                                                         *)
(* A name is a sequence of labels, a label a sequence of bytes; in a C     *)
(* string a dot ends each label.  Offsets count from 0.                    *)
(***************************************************************************)
EXTENDS Integers, Sequences, SequencesExt

CONSTANTS Requests,     \* calls of the functions that send
          Rooms,        \* sizes of the buffer they get
          TableSize,    \* labels the string table keeps (16)
          TextSize      \* size of a buffer for the text of a name (256)

VARIABLES request,      \* the call; never changes
          room,         \* its buffer
          stage,        \* "new", "sent", "failed", "heard"
          packet,       \* what was sent
          heard         \* what the callback of the receiver got

mvars == <<request, room, stage, packet, heard>>

MaxHops == 16           \* references followed for one label
MaxSubstrings == 64     \* MDNS_MAX_SUBSTRINGS
HeaderSize == 12        \* sizeof(struct mdns_header_t)
DotByte == 46
EqualByte == 61
Printable == 32 .. 126

\* Record types, classes, and the bit of a class that asks for a flush of the
\* cache, in a question for an answer to this host only.
TypeA == 1
TypePTR == 12
TypeTXT == 16
TypeAAAA == 28
TypeSRV == 33
ClassIN == 1
ClassAny == 255
TopBit == 32768

Short(n) == <<(n \div 256) % 256, n % 256>>
Long(n) == Short(n \div 65536) \o Short(n % 65536)
ShortAt(bytes, at) == 256 * bytes[at + 1] + bytes[at + 2]
LongAt(bytes, at) == 65536 * ShortAt(bytes, at) + ShortAt(bytes, at + 2)
Part(bytes, at, length) == SubSeq(bytes, at + 1, at + length)

-----------------------------------------------------------------------------
(* Reading a name.                                                         *)

Nowhere == -1
IsRef(byte) == byte >= 192
Substring(offset, length, ref) == [offset |-> offset, length |-> length, ref |-> ref]

\* The loop of mdns_get_next_substring: where the references from at lead, with
\* that many of them left to follow.
Follow(bytes, at) ==
    LET size == Len(bytes)
        follow[left \in 0 .. MaxHops] ==
            [o \in 0 .. size - 1 |->
                LET next == ShortAt(bytes, o) % 16384
                IN IF ~IsRef(bytes[o + 1]) THEN o
                   ELSE IF size < o + 2 \/ next >= size \/ left = 0 THEN Nowhere
                   ELSE follow[left - 1][next]]
    IN follow[MaxHops][at]

SubstringAt(bytes, to, ref) ==
    IF to = Nowhere \/ Len(bytes) < to + 1 + bytes[to + 1] THEN Substring(Nowhere, 0, ref)
    ELSE Substring(to + 1, bytes[to + 1], ref)

mdns_get_next_substring(bytes, at) ==
    IF at >= Len(bytes) THEN Substring(Nowhere, 0, FALSE)
    ELSE IF bytes[at + 1] = 0 THEN Substring(at, 0, FALSE)
    ELSE SubstringAt(bytes, Follow(bytes, at), IsRef(bytes[at + 1]))

\* The substrings from at up to the empty one, <<>> when the walk fails; left is
\* how many of them may still come.
Substrings(bytes, at) ==
    LET walk[left \in 0 .. MaxSubstrings + 1] ==
            [cur \in 0 .. Len(bytes) |->
                LET sub == mdns_get_next_substring(bytes, cur)
                    rest == walk[left - 1][sub.offset + sub.length]
                IN IF sub.offset = Nowhere \/ left = 0 THEN <<>>
                   ELSE IF sub.length = 0 THEN <<sub>>
                   ELSE IF rest = <<>> THEN <<>> ELSE <<sub>> \o rest]
    IN IF at > Len(bytes) THEN <<>> ELSE walk[MaxSubstrings + 1][at]

\* Mutant: the bytes of a reference are not counted.
mdns_string_skipMutant(bytes, at) ==
    LET skip[left \in 0 .. MaxSubstrings + 1] ==
            [cur \in 0 .. Len(bytes) |->
                LET sub == mdns_get_next_substring(bytes, cur)
                IN IF sub.offset = Nowhere \/ left = 0 THEN Nowhere
                   ELSE IF sub.length = 0 THEN sub.offset + 1
                   ELSE skip[left - 1][sub.offset + sub.length]]
    IN IF at > Len(bytes) THEN Nowhere ELSE skip[MaxSubstrings + 1][at]

\* mdns_string_skip: the offset behind a name; a reference ends it.
mdns_string_skip(bytes, at) ==
    LET skip[left \in 0 .. MaxSubstrings + 1] ==
            [cur \in 0 .. Len(bytes) |->
                LET sub == mdns_get_next_substring(bytes, cur)
                IN IF sub.offset = Nowhere \/ left = 0 THEN Nowhere
                   ELSE IF sub.ref THEN cur + 2
                   ELSE IF sub.length = 0 THEN sub.offset + 1
                   ELSE skip[left - 1][sub.offset + sub.length]]
    IN IF at > Len(bytes) THEN Nowhere ELSE skip[MaxSubstrings + 1][at]

\* A name as text: a dot behind every label, as far as there is room for it.
NameText(labels) ==
    LET all == FlattenSeq([k \in DOMAIN labels |-> Append(labels[k], DotByte)])
    IN IF Len(all) <= TextSize THEN all ELSE SubSeq(all, 1, TextSize)

SubstringsText(bytes, subs) ==
    IF subs = <<>> THEN <<>>
    ELSE NameText([k \in 1 .. Len(subs) - 1 |-> Part(bytes, subs[k].offset, subs[k].length)])

\* mdns_string_extract: the text of the name at this offset, empty if it is none.
mdns_string_extract(bytes, at) == SubstringsText(bytes, Substrings(bytes, at))

-----------------------------------------------------------------------------
(* Writing a name.  A buffer: what is filled, its size, the string table   *)
(* (none for a question) and how many labels were added to it.             *)

Buffer(size, compress) == [bytes |-> <<>>, size |-> size, ok |-> TRUE,
                           compress |-> compress, table |-> <<>>, added |-> 0]
Remain(m) == m.size - Len(m.bytes)
PutBytes(m, bytes) == [m EXCEPT !.bytes = @ \o bytes]
Fail(m) == [m EXCEPT !.ok = FALSE]

\* Write when there is room enough; after a failure nothing is written.
PutIfRoom(m, enough, bytes) == IF m.ok /\ Remain(m) >= enough THEN PutBytes(m, bytes) ELSE Fail(m)

\* The entries of the table where the labels from k on start; match is for the last
\* ones, as many as left says.
Matches(m, labels, k) ==
    LET match[left \in 0 .. Len(labels)] ==
            [at \in 0 .. Len(m.bytes) |->
                LET sub == mdns_get_next_substring(m.bytes, at)
                IN \/ left = 0
                   \/ /\ sub.length # 0
                      /\ Part(m.bytes, sub.offset, sub.length) = labels[Len(labels) - left + 1]
                      /\ match[left - 1][sub.offset + sub.length]]
    IN {i \in DOMAIN m.table : match[Len(labels) - k + 1][m.table[i]]}

\* mdns_string_table_find: the first such place.
mdns_string_table_find(m, labels, k) ==
    LET found == Matches(m, labels, k)
    IN IF found = {} THEN Nowhere ELSE m.table[Min(found)]

\* mdns_string_table_add: the oldest place is used again when the table is full.
mdns_string_table_add(m, at) ==
    IF ~m.compress THEN m
    ELSE [m EXCEPT !.added = @ + 1,
                   !.table = IF Len(@) < TableSize THEN Append(@, at)
                             ELSE [@ EXCEPT ![(m.added % TableSize) + 1] = at]]

mdns_string_make_ref(m, at) == PutIfRoom(m, 2, Short(49152 + at))

MakeLabel(m, label) ==
    IF Remain(m) <= Len(label) + 1 THEN Fail(m)
    ELSE mdns_string_table_add(PutBytes(m, <<Len(label)>> \o label), Len(m.bytes))

\* mdns_string_make: label after label, until the labels left were there before.
MakeNext(s, label, at) ==
    IF at # Nowhere THEN [m |-> mdns_string_make_ref(s.m, at), done |-> TRUE]
    ELSE [m |-> MakeLabel(s.m, label), done |-> FALSE]

MakeEnd(s) == IF s.done THEN s.m ELSE PutIfRoom(s.m, 1, <<0>>)

mdns_string_make(m, labels) ==
    LET made[k \in 0 .. Len(labels)] ==
            LET s == made[k - 1] IN
            IF k = 0 THEN [m |-> m, done |-> FALSE]
            ELSE IF s.done \/ ~s.m.ok THEN s
            ELSE MakeNext(s, labels[k], mdns_string_table_find(s.m, labels, k))
    IN MakeEnd(made[Len(labels)])

-----------------------------------------------------------------------------
(* Writing a message.                                                      *)

IsText(r) == r.type = TypeTXT

\* The records that are texts, or those that are not, in their order.
Chosen(records, text) ==
    LET kept[k \in 0 .. Len(records)] ==
            IF k = 0 THEN <<>>
            ELSE IF IsText(records[k]) = text THEN Append(kept[k - 1], records[k])
            ELSE kept[k - 1]
    IN kept[Len(records)]

Header(id, flags, questions, answers, authority, additional) ==
    Short(id) \o Short(flags) \o Short(questions)
    \o Short(answers) \o Short(authority) \o Short(additional)

\* mdns_answer_add_question_unicast
mdns_answer_add_question_unicast(m, question) ==
    PutIfRoom(mdns_string_make(m, question.name), 4, Short(question.type) \o Short(TopBit + ClassIN))

\* mdns_answer_add_record_header; the length comes later.
mdns_answer_add_record_header(m, r) ==
    PutIfRoom(mdns_string_make(m, r.name), 10,
        Short(r.type) \o Short(r.class) \o Long(r.ttl) \o Short(0))

\* The length of the data that starts at from.
FillLength(m, from) ==
    LET length == Short(Len(m.bytes) - from)
    IN IF ~m.ok THEN m
       ELSE [m EXCEPT !.bytes = [@ EXCEPT ![from - 1] = length[1], ![from] = length[2]]]

\* The data in front of a name, and the name.
FixedData(m, r) ==
    CASE r.type = TypeSRV -> PutIfRoom(m, 7, Short(0) \o Short(0) \o Short(r.port))
      [] r.type \in {TypeA, TypeAAAA} -> PutIfRoom(m, Len(r.addr), r.addr)
      [] OTHER -> m

AddName(m, r) == IF m.ok /\ r.type \in {TypePTR, TypeSRV} THEN mdns_string_make(m, r.target) ELSE m

AddData(m, r) == FillLength(AddName(FixedData(m, r), r), Len(m.bytes))

\* mdns_answer_add_record; texts come later.
mdns_answer_add_record(m, r) ==
    IF ~m.ok \/ IsText(r) THEN m ELSE AddData(mdns_answer_add_record_header(m, r), r)

KeyValue(r) == r.key \o <<EqualByte>> \o r.value

AddText(m, r) == PutIfRoom(m, Len(KeyValue(r)) + 1, <<Len(KeyValue(r))>> \o KeyValue(r))

AddTexts(m, texts) ==
    LET added[k \in 0 .. Len(texts)] == IF k = 0 THEN m ELSE AddText(added[k - 1], texts[k])
    IN FillLength(added[Len(texts)], Len(m.bytes))

\* mdns_answer_add_txt_record: one record with all texts of the section.
mdns_answer_add_txt_record(m, records) ==
    LET texts == Chosen(records, TRUE)
    IN IF ~m.ok \/ texts = <<>> THEN m
       ELSE AddTexts(mdns_answer_add_record_header(m, Head(texts)), texts)

mdns_answer_get_record_count(records) ==
    LET texts == Chosen(records, TRUE)
    IN Len(records) - Len(texts) + (IF texts = <<>> THEN 0 ELSE 1)

AddSection(m, records) ==
    LET added[k \in 0 .. Len(records)] ==
            IF k = 0 THEN m ELSE mdns_answer_add_record(added[k - 1], records[k])
    IN mdns_answer_add_txt_record(added[Len(records)], records)

\* mdns_record_update_rclass_ttl
mdns_record_update_rclass_ttl(r, class, ttl) ==
    LET given == IF r.class = 0 THEN class ELSE r.class
        flush == given >= TopBit /\ r.type # TypePTR
    IN [r EXCEPT !.ttl = IF r.ttl = 0 \/ ttl = 0 THEN ttl ELSE @,
                 !.class = (given % 2) + (IF flush THEN TopBit ELSE 0)]

\* The class and the time to live each of the functions gives to a record.
Stamp(how, r) ==
    CASE how = "unicast" -> IF IsText(r) THEN mdns_record_update_rclass_ttl(r, ClassIN, 10)
                            ELSE [r EXCEPT !.class = ClassIN, !.ttl = IF @ = 0 THEN 10 ELSE @]
      [] how = "answer" -> mdns_record_update_rclass_ttl(r, ClassIN, 60)
      [] how = "announce" -> mdns_record_update_rclass_ttl(r, TopBit + ClassIN, 60)
      [] how = "goodbye" -> mdns_record_update_rclass_ttl(r, ClassIN, 0)

StampAll(how, records) == [k \in DOMAIN records |-> Stamp(how, records[k])]

\* The answer itself has no time to live of its own in a unicast.
StampAnswer(how, r) == Stamp(how, IF how = "unicast" THEN [r EXCEPT !.ttl = 0] ELSE r)

RecordCounts(q) == Header(0, 33792, IF q.how = "unicast" THEN 1 ELSE 0, 1,
                    mdns_answer_get_record_count(q.authority),
                    mdns_answer_get_record_count(q.additional))

\* mdns_query_answer_unicast, mdns_query_answer_multicast, mdns_announce_multicast
\* and mdns_goodbye_multicast.
mdns_answer(q, size) ==
    LET empty == PutBytes(Buffer(size, TRUE), RecordCounts(q))
        asked == IF q.how = "unicast" THEN mdns_answer_add_question_unicast(empty, q.question)
                 ELSE empty
        answered == mdns_answer_add_record(asked, StampAnswer(q.how, q.answer))
        authority == AddSection(answered, StampAll(q.how, q.authority))
    IN IF size < HeaderSize + 32 + 4 THEN Fail(empty)
       ELSE AddSection(authority, StampAll(q.how, q.additional))

\* mdns_multiquery_send.  The sockets of the library are not bound to port 5353, so
\* an answer to this host only is asked for.  Behind a name no room is checked.
AddQuestion(m, question) ==
    IF ~m.ok THEN m
    ELSE PutIfRoom(mdns_string_make(m, question.name), 0,
             Short(question.type) \o Short(TopBit + ClassIN))

mdns_multiquery_send(q, size) ==
    LET empty == PutBytes(Buffer(size, FALSE), Header(0, 0, Len(q.questions), 0, 0, 0))
        added[k \in 0 .. Len(q.questions)] ==
            IF k = 0 THEN empty ELSE AddQuestion(added[k - 1], q.questions[k])
    IN IF q.questions = <<>> \/ size < HeaderSize + 6 * Len(q.questions) THEN Fail(empty)
       ELSE added[Len(q.questions)]

-----------------------------------------------------------------------------
(* Reading a message.                                                      *)

\* mdns_record_parse_txt: the pairs with a key; a byte that is no printable
\* character ends the search for the separator, and the text is left out.
PairOf(text) ==
    LET special == SelectInSeq(text, LAMBDA b : b \notin Printable \/ b = EqualByte)
    IN IF special = 0 THEN [key |-> text, value |-> <<>>]
       ELSE IF text[special] # EqualByte THEN [key |-> <<>>, value |-> <<>>]
       ELSE [key |-> SubSeq(text, 1, special - 1), value |-> SubSeq(text, special + 1, Len(text))]

mdns_record_parse_txt(bytes, at, length) ==
    LET end == IF Len(bytes) < at + length THEN Len(bytes) ELSE at + length
        pairs[o \in 0 .. end] ==
            LET pair == PairOf(Part(bytes, o + 1, bytes[o + 1]))
                rest == pairs[o + bytes[o + 1] + 1]
            IN IF o >= end \/ bytes[o + 1] >= end - o THEN <<>>
               ELSE IF pair.key = <<>> THEN rest ELSE <<pair>> \o rest
    IN pairs[at]

\* mdns_record_parse_ptr, _srv, _a and _aaaa: data of the wrong length is nothing.
ParseData(bytes, type, at, length) ==
    CASE type = TypePTR /\ length >= 2 -> [target |-> mdns_string_extract(bytes, at)]
      [] type = TypeSRV /\ length >= 8 -> [target |-> mdns_string_extract(bytes, at + 6),
                                           port |-> ShortAt(bytes, at + 4)]
      [] \/ type = TypeA /\ length = 4
         \/ type = TypeAAAA /\ length = 16 -> [addr |-> Part(bytes, at, length)]
      [] type = TypeTXT -> [pairs |-> mdns_record_parse_txt(bytes, at, length)]
      [] OTHER -> [nothing |-> TRUE]

\* What the callback makes of a record.
Seen(bytes, entry, name, at) ==
    LET type == ShortAt(bytes, at) IN
    [entry |-> entry, name |-> mdns_string_extract(bytes, name), type |-> type,
     class |-> ShortAt(bytes, at + 2), ttl |-> LongAt(bytes, at + 4),
     data |-> ParseData(bytes, type, at + 10, ShortAt(bytes, at + 8))]

\* mdns_records_parse: count records from the offset s.at, seen or left out when
\* their data is cut short.  That a name cannot be skipped is not noticed.
BehindName(bytes, at) ==
    LET end == mdns_string_skip(bytes, at) IN IF end = Nowhere THEN at ELSE end

ParseBehind(bytes, s, entry, at) ==
    LET length == ShortAt(bytes, at + 8)
        fits == length <= Len(bytes) - (at + 10)
    IN IF s.stop \/ at + 10 > Len(bytes) THEN [s EXCEPT !.stop = TRUE]
       ELSE [s EXCEPT !.at = at + 10 + length,
                      !.parsed = IF fits THEN @ + 1 ELSE @,
                      !.seen = IF fits THEN Append(@, Seen(bytes, entry, s.at, at)) ELSE @]

ParseRecord(bytes, s, entry) == ParseBehind(bytes, s, entry, BehindName(bytes, s.at))

StopUnless(s, count) == [s EXCEPT !.stop = s.parsed # count]

mdns_records_parse(bytes, s, entry, count) ==
    LET parsed[k \in 0 .. count] ==
            IF k = 0 THEN [s EXCEPT !.parsed = 0] ELSE ParseRecord(bytes, parsed[k - 1], entry)
    IN StopUnless(parsed[count], count)

\* Skip the questions: a name, a type and a class each.
SkipQuestions(bytes, count) ==
    LET skipped[k \in 0 .. count] ==
            IF k = 0 THEN HeaderSize
            ELSE IF skipped[k - 1] = Nowhere \/ mdns_string_skip(bytes, skipped[k - 1]) = Nowhere
            THEN Nowhere
            ELSE mdns_string_skip(bytes, skipped[k - 1]) + 4
    IN skipped[count]

\* mdns_query_recv: a section is read when all records of the one before it were.
mdns_query_recv(bytes) ==
    LET section(s, entry) ==
            IF s.stop THEN s
            ELSE mdns_records_parse(bytes, s, entry, ShortAt(bytes, 4 + 2 * entry))
        at == SkipQuestions(bytes, ShortAt(bytes, 4))
        start == [at |-> at, parsed |-> 0, seen |-> <<>>, stop |-> FALSE]
    IN IF at = Nowhere THEN <<>> ELSE section(section(section(start, 1), 2), 3).seen

\* mdns_socket_listen, its first loop: the questions up to one of another class than
\* IN and ANY.
ListenNext(bytes, s) ==
    LET end == mdns_string_skip(bytes, s.at)
    IN IF s.stop \/ end = Nowhere \/ ShortAt(bytes, end + 2) % TopBit \notin {ClassIN, ClassAny}
       THEN [s EXCEPT !.stop = TRUE]
       ELSE [s EXCEPT !.at = end + 4,
                      !.seen = Append(@, [name |-> mdns_string_extract(bytes, s.at),
                                          type |-> ShortAt(bytes, end)])]

mdns_socket_listen(bytes) ==
    LET listened[k \in 0 .. ShortAt(bytes, 4)] ==
            IF k = 0 THEN [at |-> HeaderSize, seen |-> <<>>, stop |-> FALSE]
            ELSE ListenNext(bytes, listened[k - 1])
    IN listened[ShortAt(bytes, 4)].seen

-----------------------------------------------------------------------------
(* What is sent.  A label is shorter than what a reference starts with.    *)

Octet == 0 .. 255
UInt16 == 0 .. 65535
Label == {label \in Seq(Octet) : Len(label) \in 1 .. 191}
DnsName == {labels \in Seq(Label) : Len(labels) \in 1 .. MaxSubstrings /\ IsInjective(labels)}

Question == [name : DnsName, type : UInt16]

\* Records of a type, with the fields that are data of that type.
Ttl == {ttl \in Nat : ttl \div 65536 \in UInt16}
Address(type, length) ==
    [type : {type}, name : DnsName, class : UInt16, ttl : Ttl,
     addr : {addr \in Seq(Octet) : Len(addr) = length}]
Record ==
    [type : {TypePTR}, name : DnsName, class : UInt16, ttl : Ttl, target : DnsName]
    \cup [type : {TypeSRV}, name : DnsName, class : UInt16, ttl : Ttl, target : DnsName, port : UInt16]
    \cup Address(TypeA, 4) \cup Address(TypeAAAA, 16)

\* A text with a key that is readable and no longer than one byte can say.
TextRecord == {r \in [type : {TypeTXT}, name : DnsName, class : UInt16, ttl : Ttl,
                key : Seq(Printable \ {EqualByte}), value : Seq(Octet)] :
             r.key # <<>> /\ Len(KeyValue(r)) <= 255}

Query == [how : {"query"}, questions : Seq(Question)]
Answer == [how : {"answer", "announce", "goodbye"}, answer : Record \cup TextRecord,
           authority : Seq(Record \cup TextRecord), additional : Seq(Record \cup TextRecord)]
Unicast == [how : {"unicast"}, question : Question, answer : Record \cup TextRecord,
            authority : Seq(Record \cup TextRecord), additional : Seq(Record \cup TextRecord)]

RecordNames(r) == {r.name} \cup (IF r.type \in {TypePTR, TypeSRV} THEN {r.target} ELSE {})

NamesIn(q) ==
    IF q.how = "query" THEN {question.name : question \in Range(q.questions)}
    ELSE (UNION {RecordNames(r) : r \in {q.answer} \cup Range(q.authority) \cup Range(q.additional)})
         \cup (IF q.how = "unicast" THEN {q.question.name} ELSE {})

\* The names in a message end with the same label ("local"), and no name has a label
\* twice: mdns_string_table_find compares with what lies behind a label and does not
\* test that the name it found ends where the wanted one does.
ASSUME RequestAssumption == \A q \in Requests :
    /\ q \in Query \cup Answer \cup Unicast
    /\ \A a, b \in NamesIn(q) : Last(a) = Last(b)

\* A reference has 14 bits for an offset.
ASSUME RoomAssumption == Rooms \subseteq 0 .. 16384

ASSUME SizeAssumption == TableSize \in Nat \ {0}

-----------------------------------------------------------------------------
MInit == /\ request \in Requests /\ room \in Rooms
         /\ stage = "new" /\ packet = <<>> /\ heard = <<>>

\* A message that does not fit is not sent.
SendMade(m) ==
    /\ stage' = IF m.ok THEN "sent" ELSE "failed"
    /\ packet' = IF m.ok THEN m.bytes ELSE <<>>

Send ==
    /\ stage = "new"
    /\ SendMade(IF request.how = "query" THEN mdns_multiquery_send(request, room)
                ELSE mdns_answer(request, room))
    /\ UNCHANGED <<request, room, heard>>

Recv ==
    /\ stage = "sent"
    /\ stage' = "heard"
    /\ heard' = IF request.how = "query" THEN mdns_socket_listen(packet)
                ELSE mdns_query_recv(packet)
    /\ UNCHANGED <<request, room, packet>>

\* The same call with some other buffer.
Again ==
    /\ stage \in {"heard", "failed"}
    /\ stage' = "new" /\ room' \in Rooms
    /\ packet' = <<>> /\ heard' = <<>>
    /\ UNCHANGED request

MNext == Send \/ Recv \/ Again

MSpec == MInit /\ [][MNext]_mvars

-----------------------------------------------------------------------------
(* What was meant: the texts of the names, the records in their order, the *)
(* texts of a section after its other records and in one.                  *)

MeantData(r) ==
    CASE r.type = TypePTR -> [target |-> NameText(r.target)]
      [] r.type = TypeSRV -> [target |-> NameText(r.target), port |-> r.port]
      [] OTHER -> [addr |-> r.addr]

Meant(entry, r, data) == [entry |-> entry, name |-> NameText(r.name), type |-> r.type,
                          class |-> r.class, ttl |-> r.ttl, data |-> data]

MeantSection(how, entry, records) ==
    LET stamped == StampAll(how, records)
        texts == Chosen(stamped, TRUE)
        others == Chosen(stamped, FALSE)
        pair(k) == [key |-> texts[k].key, value |-> texts[k].value]
    IN [k \in DOMAIN others |-> Meant(entry, others[k], MeantData(others[k]))]
       \o IF texts = <<>> THEN <<>>
          ELSE <<Meant(entry, texts[1], [pairs |-> [k \in DOMAIN texts |-> pair(k)]])>>

MeantMessage(q) ==
    IF q.how = "query"
    THEN [k \in DOMAIN q.questions |-> [name |-> NameText(q.questions[k].name),
                                        type |-> q.questions[k].type]]
    ELSE LET answer == StampAnswer(q.how, q.answer)
         IN <<Meant(1, answer, MeantData(answer))>>
            \o MeantSection(q.how, 2, q.authority) \o MeantSection(q.how, 3, q.additional)

\* What a receiver hears is what was sent: the references of mdns_string_make lead
\* back to the labels they replace, also when the table has dropped some, and
\* skipping a name, extracting it and the lengths of the records agree on where
\* everything starts (mdns.h:523-806).  For every request but those whose answer is
\* itself a text.
AnswersWithText(q) == q.how # "query" /\ IsText(q.answer)
HeardAsMeant == (stage = "heard" /\ ~AnswersWithText(request)) => heard = MeantMessage(request)
=============================================================================
