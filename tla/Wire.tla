-------------------------------- MODULE Wire --------------------------------
(***************************************************************************)
(* The bytes of a request on the guest leg: a word for the op, then a      *)
(* counted list of strings, each with its length before it and zeros after *)
(* it up to a whole number of words.                                       *)
(*                                                                         *)
(* The session copies such a list without keeping it: every word and string *)
(* is read whole, checked and encoded anew for the host.  The peer writes   *)
(* in pieces, what it likes, and may close at any byte.  The modules of the *)
(* session take a string for one token; this one shows why they may.       *)
(***************************************************************************)
EXTENDS Integers, Sequences

CONSTANTS
    WORD,        \* bytes of a word; 8
    BASE,        \* values of a byte; 256
    MAX_STRING,  \* cap on a string's length
    MAX_COUNT,   \* cap on a list's length
    MaxBytes,    \* bound: bytes the peer sends
    MaxAhead     \* bound: bytes sent and not yet read

ASSUME WireAssumption ==
    /\ WORD \in Nat \ {0} /\ BASE \in Nat \ {0, 1}
    /\ MAX_STRING \in Nat /\ MAX_COUNT \in Nat
    /\ MaxBytes \in Nat /\ MaxAhead \in Nat \ {0}

Bytes == 0..(BASE - 1)

VARIABLES
    stream,   \* the bytes the peer has sent
    closed,   \* it has closed the connection
    taken,    \* how many of them have been read
    place,    \* what the session is reading
    mark,     \* how many had been read when it began to
    count,    \* strings of the list still to copy
    len,      \* the length of the string at hand
    out       \* the bytes written toward the host

vars == <<stream, closed, taken, place, mark, count, len, out>>

-----------------------------------------------------------------------------
\* u64, little-endian: a byte counts for BASE times what the one before it does.
Value(bs) ==
    LET from[i \in 0..Len(bs)] ==
          IF i = 0 THEN 0 ELSE BASE * from[i - 1] + bs[Len(bs) + 1 - i]
    IN  from[Len(bs)]

Encoded(v) ==
    LET rest[i \in 0..WORD] == IF i = 0 THEN v ELSE rest[i - 1] \div BASE
    IN  [i \in 1..WORD |-> rest[i - 1] % BASE]

Padding(n) == IF n % WORD = 0 THEN 0 ELSE WORD - (n % WORD)

Zeros(n) == [i \in 1..n |-> 0]

\* What has been read of the unit at hand, and how much it is.
Buf == SubSeq(stream, mark + 1, taken)

Need ==
    CASE place \in {"op", "count", "len"} -> WORD
      [] place = "body" -> len
      [] place = "pad" -> Padding(len)
      [] place \in {"eof", "failed"} -> 0

Whole == place \notin {"eof", "failed"} /\ taken - mark = Need

Reading == place \notin {"eof", "failed"} /\ taken - mark < Need

-----------------------------------------------------------------------------
Init ==
    /\ stream = <<>> /\ closed = FALSE
    /\ taken = 0 /\ place = "op" /\ mark = 0
    /\ count = 0 /\ len = 0
    /\ out = <<>>

(* The peer.                                                               *)

Send(b) ==
    /\ ~closed /\ place \notin {"eof", "failed"}
    /\ Len(stream) < MaxBytes
    /\ Len(stream) - taken < MaxAhead
    /\ stream' = Append(stream, b)
    /\ UNCHANGED <<closed, taken, place, mark, count, len, out>>

Close ==
    /\ ~closed
    /\ closed' = TRUE
    /\ UNCHANGED <<stream, taken, place, mark, count, len, out>>

(* The session.  One read returns some of the bytes that are there, never   *)
(* more than are asked for.                                                 *)

Read ==
    /\ Reading
    /\ \E n \in 1..(Need - (taken - mark)) :
          /\ taken + n <= Len(stream)
          /\ taken' = taken + n
    /\ UNCHANGED <<stream, closed, place, mark, count, len, out>>

\* A mutant: the end of file is taken for a clean one at any byte of a word.
EndOfFileAnywhere ==
    /\ Reading
    /\ closed /\ taken = Len(stream)
    /\ place' = IF place = "op" THEN "eof" ELSE "failed"
    /\ UNCHANGED <<stream, closed, taken, mark, count, len, out>>

\* Clean before the first byte of an op, an error anywhere else.
EndOfFile ==
    /\ Reading
    /\ closed /\ taken = Len(stream)
    /\ place' = IF place = "op" /\ taken = mark THEN "eof" ELSE "failed"
    /\ UNCHANGED <<stream, closed, taken, mark, count, len, out>>

\* Go on to the next unit, with the last one written.
GoOn(to, bytes) ==
    /\ place' = to
    /\ mark' = taken
    /\ out' = out \o bytes
    /\ UNCHANGED <<stream, closed, taken>>

Fail ==
    /\ place' = "failed"
    /\ UNCHANGED <<stream, closed, taken, mark, count, len, out>>

CopyOp ==
    /\ place = "op" /\ Whole
    /\ GoOn("count", Encoded(Value(Buf)))
    /\ UNCHANGED <<count, len>>

\* Where the list goes on when n of its strings are left.
NextItem(n) == IF n = 0 THEN "op" ELSE "len"

CopyCount ==
    /\ place = "count" /\ Whole
    /\ IF Value(Buf) <= MAX_COUNT
       THEN /\ GoOn(NextItem(Value(Buf)), Encoded(Value(Buf)))
            /\ count' = Value(Buf)
            /\ UNCHANGED len
       ELSE Fail

\* The length is written with the string, when that is known to be good.
ReadLen ==
    /\ place = "len" /\ Whole
    /\ IF Value(Buf) <= MAX_STRING
       THEN /\ GoOn("body", <<>>)
            /\ len' = Value(Buf)
            /\ UNCHANGED count
       ELSE Fail

WriteString(bytes) ==
    /\ GoOn(NextItem(count - 1), Encoded(len) \o bytes \o Zeros(Padding(len)))
    /\ count' = count - 1
    /\ len' = 0

\* The string is whole; its padding, if it has one, is still to be read.
CopyUnpadded ==
    /\ place = "body" /\ Whole
    /\ Padding(len) = 0
    /\ WriteString(Buf)

ReadPadding ==
    /\ place = "body" /\ Whole
    /\ Padding(len) # 0
    /\ place' = "pad"
    /\ mark' = taken
    /\ UNCHANGED <<stream, closed, taken, count, len, out>>

\* A mutant: the padding is skipped unseen.
CopyPaddedUnchecked ==
    /\ place = "pad" /\ Whole
    /\ WriteString(SubSeq(stream, mark - len + 1, mark))

CopyPadded ==
    /\ place = "pad" /\ Whole
    /\ IF Buf = Zeros(Padding(len))
       THEN WriteString(SubSeq(stream, mark - len + 1, mark))
       ELSE Fail

SessionStep ==
    \/ Read \/ EndOfFile
    \/ CopyOp \/ CopyCount \/ ReadLen \/ CopyUnpadded \/ ReadPadding \/ CopyPadded

Next == (\E b \in Bytes : Send(b)) \/ Close \/ SessionStep

Spec == Init /\ [][Next]_vars

-----------------------------------------------------------------------------
(* Properties.                                                             *)

\* What is written toward the host is what the guest sent, byte for byte,
\* although nothing of it is passed on unparsed: lengths, contents and padding
\* are each encoded anew.
CopiedVerbatim ==
    /\ out = SubSeq(stream, 1, Len(out))
    /\ place \in {"op", "count", "len"} => Len(out) = mark

\* Where messages end, by the lengths and counts in the stream.
ItemEnd(i) ==
    IF i + WORD > taken THEN i
    ELSE i + WORD + WORD * ((Value(SubSeq(stream, i + 1, i + WORD)) + WORD - 1) \div WORD)

ListEnd(i) ==
    LET n == Value(SubSeq(stream, i + 1, i + WORD))
        end[k \in 0..n] == IF k = 0 THEN i + WORD ELSE ItemEnd(end[k - 1])
    IN  end[n]

\* Of the message that begins at i, or i where it has no count yet.
MessageEnd(i) == IF i + 2 * WORD > taken THEN i ELSE ListEnd(i + WORD)

MessageEnds ==
    LET end[n \in 0..(MaxBytes \div (2 * WORD))] == IF n = 0 THEN 0 ELSE MessageEnd(end[n - 1])
    IN  {end[n] : n \in DOMAIN end}

\* The next op is read where a message ends, at no byte before or after it,
\* and only there is the end of the stream a clean one: the byte-wise reading,
\* in whatever pieces the bytes come, keeps to the structure of the stream.
FramingKept ==
    /\ place = "op" => mark \in MessageEnds
    /\ place = "eof" => taken \in MessageEnds
=============================================================================
