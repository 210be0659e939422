---------------------------- MODULE StreamReader ----------------------------
(***************************************************************************)
(* PdfSyntaxParser.readStream from behind the keyword "stream" on, and its *)
(* search for "endstream" when the dictionary has no usable length         *)
(* (lib/src/pdfium/fpdfapi/parser/pdf_syntax_parser.dart).  One step reads *)
(* one byte; the stream may fail between two.                              *)
(***************************************************************************)
EXTENDS ByteReader

CONSTANTS
    Pattern,     \* "endstream"
    CR, LF,      \* bytes that end a line
    White,       \* bytes a search trims, which also end a keyword
    MaxPosition, \* bound on the positions to read from
    Lengths      \* the lengths dictionaries declare

ASSUME PatternAssumption ==
    /\ Pattern \in Seq(Byte) /\ Len(Pattern) > 1
    /\ \A i \in 1 .. Len(Pattern) : Pattern[i] \notin White
ASSUME WhiteAssumption == {CR, LF} \subseteq White /\ White \subseteq Byte
ASSUME BoundsAssumption == MaxPosition \in Nat /\ Lengths \subseteq Int

VARIABLES
    pc,        \* where in readStream, "idle" outside of it
    searching, \* the dictionary has no usable length
    startPos,  \* where the data begin
    matched,   \* how much of the pattern the last bytes are
    length,    \* streamLength
    answer     \* the last result: [searched, start, length], or an exception

vars == <<readerVars, pc, searching, startPos, matched, length, answer>>
searchVars == <<searching, startPos, matched, length>>

NoAnswer == [searched |-> FALSE, start |-> 0, length |-> 0, thrown |-> FALSE]

Init ==
    /\ ReaderInit
    /\ pc = "idle"
    /\ searching = FALSE /\ startPos = 0 /\ matched = 0 /\ length = 0
    /\ answer = NoAnswer

-----------------------------------------------------------------------------
(* A byte is read; an exception leaves readStream.                         *)
Goes(read, to) ==
    /\ reader' = read.reader
    /\ pc' = IF read.byte = RangeError THEN "idle" ELSE to
    /\ answer' = IF read.byte = RangeError THEN [NoAnswer EXCEPT !.thrown = TRUE] ELSE answer

AfterEndOfLine(r) ==
    LET first == ReadByte(r)
        next == PeekByte(first.reader)
    IN IF first.byte # CR THEN first
       ELSE IF next.byte = LF THEN ReadByte(next.reader)
       ELSE [reader |-> next.reader,
             byte |-> IF next.byte = RangeError THEN RangeError ELSE first.byte]

Begin(pos, declared) ==
    /\ pc = "idle"
    /\ LET behind == AfterEndOfLine(Seek(reader, pos)) IN
       /\ Goes(behind, IF declared > 0 THEN "data" ELSE "search")
       /\ startPos' = behind.reader.position
    /\ searching' = (declared <= 0)
    /\ length' = IF declared > 0 THEN declared ELSE 0
    /\ matched' = 0
    /\ UNCHANGED streamVars

(* _findEndStream.                                                         *)
Search ==
    /\ pc = "search" /\ ~AtEnd(reader)
    /\ LET read == ReadByte(reader) IN
       IF read.byte = Pattern[1]
       THEN Goes(read, "match") /\ matched' = 1
       ELSE Goes(read, "search") /\ UNCHANGED matched
    /\ UNCHANGED <<streamVars, searching, startPos, length>>

NotFound ==
    /\ pc = "search" /\ AtEnd(reader)
    /\ reader' = Seek(reader, startPos)
    /\ pc' = "data"
    /\ UNCHANGED <<streamVars, searchVars, answer>>

(* A byte behind a part of the pattern.                                    *)
Matched(read, n) ==
    /\ read.byte = Pattern[matched + 1]
    /\ matched' = n
    /\ IF n < Len(Pattern) THEN Goes(read, "match") /\ UNCHANGED length
       ELSE /\ Goes(read, "trim")
            /\ length' = read.reader.position - Len(Pattern) - startPos

(* Mutant: the search goes on from the byte the match began with.          *)
MatchAgain ==
    /\ pc = "match"
    /\ LET read == ReadByte(reader)
           back == [read EXCEPT !.reader = Seek(@, reader.position - matched)]
       IN \/ Matched(read, matched + 1)
          \/ /\ read.byte # Pattern[matched + 1]
             /\ Goes(back, "search")
             /\ UNCHANGED <<matched, length>>
    /\ UNCHANGED <<streamVars, searching, startPos>>

Match ==
    /\ pc = "match"
    /\ LET read == ReadByte(reader) IN
       \/ Matched(read, matched + 1)
       \/ /\ read.byte # Pattern[matched + 1]
          /\ Goes(read, "search")
          /\ UNCHANGED <<matched, length>>
    /\ UNCHANGED <<streamVars, searching, startPos>>

(* The white space in front of the pattern is no data.                     *)
Back(read) ==
    IF read.byte = RangeError THEN read ELSE [read EXCEPT !.reader = Seek(@, startPos)]

(* Mutant: the position stays where the last byte was looked at.           *)
TrimStaying ==
    /\ pc = "trim"
    /\ LET last == ReadByte(Seek(reader, startPos + length - 1)) IN
       IF length > 0 /\ last.byte \in White
       THEN Goes(last, "trim") /\ length' = length - 1
       ELSE /\ IF length > 0 THEN Goes(last, "data")
               ELSE pc' = "data" /\ UNCHANGED <<reader, answer>>
            /\ UNCHANGED length
    /\ UNCHANGED <<streamVars, searching, startPos, matched>>

Trim ==
    /\ pc = "trim"
    /\ LET last == ReadByte(Seek(reader, startPos + length - 1)) IN
       IF length > 0 /\ last.byte \in White
       THEN Goes(last, "trim") /\ length' = length - 1
       ELSE /\ IF length > 0 THEN Goes(Back(last), "data")
               ELSE reader' = Seek(reader, startPos) /\ pc' = "data" /\ UNCHANGED answer
            /\ UNCHANGED length
    /\ UNCHANGED <<streamVars, searching, startPos, matched>>

(* The data; without any, also for a length of 0, there is no stream.      *)
ReadData ==
    /\ pc = "data"
    /\ LET data == BytesAt(reader, length) IN
       /\ answer' = [searched |-> searching, start |-> reader.position,
                     length |-> Len(data), thrown |-> FALSE]
       /\ pc' = IF data = <<>> THEN "idle" ELSE "space"
       /\ reader' = ReadBytes(reader, length)
    /\ UNCHANGED <<streamVars, searchVars>>

(* What should be "endstream" is read and not looked at.                   *)
SkipSpace ==
    /\ pc = "space"
    /\ LET peeked == PeekByte(reader) IN
       IF ~AtEnd(reader) /\ peeked.byte \in White
       THEN Goes(ReadByte(peeked.reader), "space")
       ELSE Goes(peeked, "keyword")
    /\ UNCHANGED <<streamVars, searchVars>>

(* StringBuffer.writeCharCode(-1) throws, too.                             *)
ReadKeyword ==
    /\ pc = "keyword"
    /\ LET peeked == PeekByte(reader) IN
       CASE AtEnd(reader) \/ peeked.byte \in White -> Goes(peeked, "idle")
         [] ~AtEnd(reader) /\ peeked.byte = Eof -> Goes([peeked EXCEPT !.byte = RangeError], "idle")
         [] OTHER -> Goes(ReadByte(peeked.reader), "keyword")
    /\ UNCHANGED <<streamVars, searchVars>>

Step == Search \/ NotFound \/ Match \/ Trim \/ ReadData \/ SkipSpace \/ ReadKeyword

Fault ==
    /\ Fail \/ Recover \/ \E n \in 0 .. Size : Truncate(n)
    /\ UNCHANGED <<pc, searchVars, answer>>

Next ==
    \/ \E pos \in 0 .. MaxPosition, declared \in Lengths : Begin(pos, declared)
    \/ Step \/ Fault

(* A call goes on until it returns.                                        *)
Spec == Init /\ [][Next]_vars /\ WF_vars(Step)

-----------------------------------------------------------------------------
(* Properties.                                                             *)

TypeOK ==
    /\ ReaderTypeOK
    /\ pc \in {"idle", "search", "match", "trim", "data", "space", "keyword"}
    /\ searching \in BOOLEAN
    /\ startPos \in 0 .. Size
    /\ matched \in 0 .. Len(Pattern)
    /\ length \in Int
    /\ answer \in [searched : BOOLEAN, start : 0 .. Size, length : 0 .. Size, thrown : BOOLEAN]

PatternAt(p) ==
    p + Len(Pattern) <= Size /\ SubSeq(file, p + 1, p + Len(Pattern)) = Pattern
AllWhite(p, q) == \A i \in p + 1 .. q : file[i] \in White

(* "Try to find endstream" (pdf_syntax_parser.dart:356): what a search     *)
(* takes for the end is one, with nothing but white space before it.       *)
FoundIsEnd ==
    pc = "data" /\ searching /\ length > 0 =>
        LET end == reader.position + length
        IN \E p \in end .. Size : PatternAt(p) /\ AllWhite(end, p)

(* It is the first one, where the pattern begins on a line of its own and  *)
(* the file delivered everything.                                          *)
Ends(from) == {p \in from .. Size : PatternAt(p)}
IsFirst(p, ends) == p \in ends /\ \A q \in ends : p <= q
OnItsOwnLine(p, from) == p = from \/ file[p] \in White
Untrimmed(from, end) ==
    CHOOSE p \in from .. end :
        AllWhite(p, end) /\ (p = from \/ file[p] \notin White)

FirstEndFound ==
    pc = "data" /\ searching /\ ~failed =>
        /\ reader.position = startPos
        /\ Ends(startPos) = {} => length = 0
        /\ \A end \in Ends(startPos) :
              IsFirst(end, Ends(startPos)) /\ OnItsOwnLine(end, startPos)
                 => length = Untrimmed(startPos, end) - startPos

(* What a search takes for the end of a stream is one, and the first one   *)
(* on its own line when no read failed; the data before it are left to read. *)
EndFound == FoundIsEnd /\ FirstEndFound

(* Every read returns, if from some time on the file delivers.                    *)
Delivering == works /\ present = Size
ReadsEnd == <>[]Delivering => (pc # "idle" ~> pc = "idle")

(* A read returns or throws also when the file never delivers again.       *)
(* Refuted: the search does not end before the end of the file.            *)
ReadsAlwaysEnd == pc # "idle" ~> pc = "idle"

(* The first pattern is found wherever it is.  Refuted: a byte that does   *)
(* not match is not looked at again.                                       *)
AnyEndFound ==
    pc = "data" /\ searching /\ ~failed =>
        \A end \in Ends(startPos) :
            IsFirst(end, Ends(startPos)) => length = Untrimmed(startPos, end) - startPos

(* "returns -1 on EOF" (fx_stream.dart:261, 273).  Refuted: behind a seek  *)
(* to before the buffer that cannot be filled again, the index is below 0. *)
NothingThrown == ~answer.thrown
=============================================================================
