----------------------------- MODULE DnsMessage -----------------------------
(***************************************************************************)
(* parse_dns and read_name of src/pcapinator/layers/dns.py: the questions  *)
(* and answers of a message are read one name at a time, and a name one    *)
(* label or compression pointer at a time.                                 *)
(*                                                                         *)
(* A message is bytes, numbered from 0 as in the code.  Its header is read *)
(* as a record of what the parser uses of it; header bytes are there to be *)
(* pointed into.  Every message is read twice, cut short after some byte   *)
(* and then whole: a cut is what a snaplen leaves, what has arrived of a   *)
(* segment over TCP, or what its length prefix admits (parse_dns_tcp).     *)
(* The readings share nothing.  Lengths of the format are constants, so    *)
(* that a small instance can scale them down.                              *)
(***************************************************************************)
EXTENDS Integers, SequencesExt

CONSTANTS
    Messages,         \* the bytes of messages
    Headers,          \* what their headers say
    HeaderLen,        \* HEADER_LEN
    QuestionFixed,    \* type and class behind the name of a question
    RecordFixed,      \* type, class, ttl and rdlength behind that of a record
    MaxNameLen,       \* MAX_NAME_LEN
    MaxPointers       \* MAX_POINTERS

ASSUME MessagesAssumption == Messages \subseteq Seq(0..255)

ASSUME HeadersAssumption ==
    Headers \subseteq [qdcount : Nat, ancount : Nat, assigned : BOOLEAN]

ASSUME LengthsAssumption ==
    /\ HeaderLen \in Nat /\ QuestionFixed \in Nat /\ RecordFixed \in Nat \ {0, 1}
    /\ MaxNameLen \in Nat /\ MaxPointers \in Nat

VARIABLES
    buf,      \* the bytes of the message
    header,   \* its counts, and whether its opcode is an assigned one
    size,     \* the bytes of it the cut leaves
    reader    \* the state of each reading

vars == <<buf, header, size, reader>>

Readings == {"cut", "whole"}

Present(m) == IF m = "whole" THEN Len(buf) ELSE size

Byte(i) == buf[i + 1]
Bytes(i, n) == SubSeq(buf, i + 1, i + n)

NoEnd == -1

\* read_name before its loop
Name(offset) ==
    [at |-> offset, pos |-> offset, labels |-> <<>>, wire_len |-> 1,
     jumps |-> 0, end |-> NoEnd]

Init ==
    /\ buf \in Messages /\ header \in Headers /\ size \in 0..Len(buf)
    /\ reader = [m \in Readings |->
                   [stage |-> "header", name |-> Name(HeaderLen),
                    questions |-> <<>>, answers |-> <<>>]]

-----------------------------------------------------------------------------

Finished(m) == reader[m].stage \in {"message", "not DNS"}

Turn(m) == m = "whole" => Finished("cut")

Become(m, r) == reader' = [reader EXCEPT ![m] = r] /\ UNCHANGED <<buf, header, size>>

To(m, stage) == Become(m, [reader[m] EXCEPT !.stage = stage])

\* The header is short, or its opcode unassigned.
NotDns(m) ==
    /\ Turn(m) /\ reader[m].stage = "header"
    /\ Present(m) < HeaderLen \/ ~header.assigned
    /\ To(m, "not DNS")

Begin(m) ==
    /\ Turn(m) /\ reader[m].stage = "header"
    /\ Present(m) >= HeaderLen /\ header.assigned
    /\ To(m, "questions")

Stage(m)     == reader[m].stage
Questions(m) == reader[m].questions
Answers(m)   == reader[m].answers

\* A loop of parse_dns has turns left.
Wanted(m) ==
    \/ Stage(m) = "questions" /\ Len(Questions(m)) < header.qdcount
    \/ Stage(m) = "answers"   /\ Len(Answers(m)) < header.ancount

\* All of a section was read: answers follow questions.
SectionDone(m) ==
    /\ Turn(m) /\ Stage(m) \in {"questions", "answers"} /\ ~Wanted(m)
    /\ To(m, IF Stage(m) = "questions" THEN "answers" ELSE "message")

\* A question or record that cannot be read ends the parse; a message with
\* none of the questions it promises is not DNS.
Break(m) ==
    To(m, IF Stage(m) = "questions" /\ Questions(m) = <<>>
          THEN "not DNS" ELSE "message")

-----------------------------------------------------------------------------
(* The loop of read_name *)

Reading(m) == Turn(m) /\ Wanted(m)

N(m) == reader[m].name

Length(m) == Byte(N(m).pos)

Readable(m) == N(m).pos < Present(m)
IsNormal(m) == Length(m) < 64
IsPointer(m) == Length(m) >= 192

Label(m) ==
    LET n == N(m) IN
    /\ Reading(m) /\ Readable(m) /\ IsNormal(m) /\ Length(m) > 0
    /\ n.wire_len + 1 + Length(m) <= MaxNameLen
    /\ n.pos + 1 + Length(m) <= Present(m)
    /\ Become(m, [reader[m] EXCEPT
         !.name = [n EXCEPT !.labels = Append(@, Bytes(n.pos + 1, Length(m))),
                            !.wire_len = @ + 1 + Length(m),
                            !.pos = @ + 1 + Length(m)]])

Target(m) == (Length(m) - 192) * 256 + Byte(N(m).pos + 1)

Jumps(m) ==
    /\ Reading(m) /\ Readable(m) /\ IsPointer(m)
    /\ N(m).pos + 2 <= Present(m)
    /\ N(m).jumps < MaxPointers /\ Target(m) < Present(m)

\* Mutants: jumps are not counted; reading resumes behind the last pointer
\* instead of the first.
PointerUncounted(m) ==
    /\ Jumps(m)
    /\ Become(m, [reader[m] EXCEPT
         !.name.end = IF @ = NoEnd THEN N(m).pos + 2 ELSE @,
         !.name.pos = Target(m)])
PointerEndsLast(m) ==
    /\ Jumps(m)
    /\ Become(m, [reader[m] EXCEPT
         !.name.end = N(m).pos + 2,
         !.name.jumps = @ + 1, !.name.pos = Target(m)])

Pointer(m) ==
    /\ Jumps(m)
    /\ Become(m, [reader[m] EXCEPT
         !.name.end = IF @ = NoEnd THEN N(m).pos + 2 ELSE @,
         !.name.jumps = @ + 1, !.name.pos = Target(m)])

\* Mutant: a name that runs into the end of the buffer is complete.
AtRootOrEnd(m) == Reading(m) /\ (Readable(m) => Length(m) = 0)

AtRoot(m) == Reading(m) /\ Readable(m) /\ Length(m) = 0

\* Where reading goes on behind the name the root label completes.
End(m) == IF N(m).end = NoEnd THEN N(m).pos + 1 ELSE N(m).end

Item(m, next) ==
    [at |-> N(m).at, name |-> N(m).labels, end |-> End(m), next |-> next]

\* _read_question
Question(m) ==
    LET next == End(m) + QuestionFixed IN
    /\ AtRoot(m) /\ Stage(m) = "questions" /\ next <= Present(m)
    /\ Become(m, [reader[m] EXCEPT !.questions = Append(@, Item(m, next)),
                                   !.name = Name(next)])

\* _read_record: the last two fixed bytes are rdlength.
RdLength(m) ==
    LET i == End(m) + RecordFixed - 2 IN Byte(i) * 256 + Byte(i + 1)

Record(m) ==
    /\ AtRoot(m) /\ Stage(m) = "answers"
    /\ End(m) + RecordFixed <= Present(m)
    /\ LET next == End(m) + RecordFixed + RdLength(m) IN
         /\ next <= Present(m)
         /\ Become(m, [reader[m] EXCEPT !.answers = Append(@, Item(m, next)),
                                        !.name = Name(next)])

\* The name is complete and what belongs behind it is not there.
FieldsShort(m) ==
    /\ AtRoot(m)
    /\ \/ Stage(m) = "questions" /\ End(m) + QuestionFixed > Present(m)
       \/ Stage(m) = "answers" /\ End(m) + RecordFixed > Present(m)
       \/ /\ Stage(m) = "answers" /\ End(m) + RecordFixed <= Present(m)
          /\ End(m) + RecordFixed + RdLength(m) > Present(m)
    /\ Break(m)

\* read_name returns None.
BadName(m) ==
    /\ Reading(m)
    /\ \/ ~Readable(m)
       \/ /\ Readable(m) /\ IsNormal(m) /\ Length(m) > 0
          /\ \/ N(m).wire_len + 1 + Length(m) > MaxNameLen
             \/ N(m).pos + 1 + Length(m) > Present(m)
       \/ Readable(m) /\ IsPointer(m) /\ ~Jumps(m)
       \/ Readable(m) /\ ~IsNormal(m) /\ ~IsPointer(m)
    /\ Break(m)

Step(m) ==
    \/ NotDns(m) \/ Begin(m) \/ SectionDone(m)
    \/ Label(m) \/ Pointer(m) \/ Question(m) \/ Record(m)
    \/ FieldsShort(m) \/ BadName(m)

Next == \E m \in Readings : Step(m)

\* The parser is a loop of its own: nothing else has to act.
Spec == Init /\ [][Next]_vars /\ WF_vars(Next)

-----------------------------------------------------------------------------

Items(m) == Questions(m) \o Answers(m)

(* Terminates: no message keeps the parser in a loop, whatever its names   *)
(* point at, themselves included.                                          *)
Terminates == <>(\A m \in Readings : Finished(m))

\* Where a name ends in its place: behind its root label or its first pointer.
EndInPlace[p \in 0..Len(buf)] ==
    IF p >= Len(buf) THEN p
    ELSE IF Byte(p) = 0 THEN p + 1
    ELSE IF Byte(p) >= 192 THEN p + 2
    ELSE IF p + 1 + Byte(p) > Len(buf) THEN Len(buf)
    ELSE EndInPlace[p + 1 + Byte(p)]

(* ResumesInPlace: wherever the pointers of a name lead, forward ones and  *)
(* chains of them included, reading resumes behind the name's own place:   *)
(* the items of a message lie behind each other from the header on.        *)
ResumesInPlace ==
    \A m \in Readings : \A i \in 1..Len(Items(m)) :
        LET x == Items(m)[i] IN
        /\ x.at = IF i = 1 THEN HeaderLen ELSE Items(m)[i - 1].next
        /\ x.end = EndInPlace[x.at]
        /\ x.next <= Present(m)

(* CutKeepsPrefix: what is read of a message cut short is a prefix of what *)
(* is read of the whole one, with the same names: a cut invents no query.  *)
CutKeepsPrefix ==
    Finished("whole") =>
        /\ IsPrefix(Questions("cut"), Questions("whole"))
        /\ IsPrefix(Answers("cut"), Answers("whole"))
        /\ Stage("cut") = "message" => Stage("whole") = "message"
=============================================================================
