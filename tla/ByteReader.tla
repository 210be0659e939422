----------------------------- MODULE ByteReader -----------------------------
(***************************************************************************)
(* BufferedReader (lib/src/pdfium/fxcrt/fx_stream.dart): single bytes of a *)
(* stream through a buffer of one block.  The stream is a file that may    *)
(* fail to deliver a block, for once or from now on, or lose its end after *)
(* its size was asked for.                                                 *)
(***************************************************************************)
EXTENDS Integers, Sequences

CONSTANTS
    Byte,       \* the bytes of files
    Eof,        \* -1
    RangeError, \* no byte, but the exception of a negative index
    Files,      \* the files to read
    BufferSize  \* _defaultBufferSize

ASSUME ByteAssumption == Eof \notin Byte /\ RangeError \notin Byte \cup {Eof}
ASSUME FilesAssumption == Files \subseteq Seq(Byte)
ASSUME BufferSizeAssumption == BufferSize \in Nat \ {0}

VARIABLES
    file,    \* the bytes there were when the file was opened
    present, \* how many of them still are there
    works,   \* readBlock delivers
    failed,  \* it did not always
    reader   \* [position, buffer, bufferStart, bufferEnd]

streamVars == <<file, present, works, failed>>
readerVars == <<streamVars, reader>>

Size == Len(file)
Lesser(a, b) == IF a < b THEN a ELSE b

ReaderInit ==
    /\ file \in Files
    /\ present = Len(file)
    /\ works = TRUE
    /\ failed = FALSE
    /\ reader = [position |-> 0, buffer |-> <<>>, bufferStart |-> 0, bufferEnd |-> 0]

-----------------------------------------------------------------------------
(* The file stream, asked for an offset inside of its size.                *)
ReadBlock(offset, size) == SubSeq(file, offset + 1, Lesser(offset + size, present))

Fail == works /\ works' = FALSE /\ failed' = TRUE /\ UNCHANGED <<file, present, reader>>
Recover == ~works /\ works' = TRUE /\ UNCHANGED <<file, present, failed, reader>>
Truncate(n) ==
    /\ n < present
    /\ present' = n
    /\ failed' = TRUE
    /\ UNCHANGED <<file, works, reader>>

-----------------------------------------------------------------------------
(* The operations, on a reader r; a byte read is [reader, byte].           *)

(* _fillBuffer, called in front of the end only.                           *)
(* Mutant: the block behind the buffer.                                    *)
FilledOn(r) ==
    LET data == ReadBlock(r.bufferEnd, BufferSize)
    IN IF ~works THEN r
       ELSE [r EXCEPT !.buffer = data,
                      !.bufferStart = r.position, !.bufferEnd = r.position + Len(data)]

Filled(r) ==
    LET data == ReadBlock(r.position, BufferSize)
    IN IF ~works THEN r
       ELSE [r EXCEPT !.buffer = data,
                      !.bufferStart = r.position, !.bufferEnd = r.position + Len(data)]

InBuffer(r) == r.bufferStart <= r.position /\ r.position < r.bufferEnd
AtEnd(r) == r.position >= Size

(* What the buffer has for the position: where filling it failed, the      *)
(* position may lie in front of it.                                        *)
ByteIn(r) ==
    IF r.position >= r.bufferEnd THEN Eof
    ELSE IF r.position < r.bufferStart THEN RangeError
    ELSE r.buffer[r.position - r.bufferStart + 1]

PeekByte(r) ==
    LET q == IF AtEnd(r) \/ InBuffer(r) THEN r ELSE Filled(r)
    IN [reader |-> q, byte |-> IF AtEnd(r) THEN Eof ELSE ByteIn(q)]

ReadByte(r) ==
    LET peeked == PeekByte(r)
    IN IF peeked.byte = Eof THEN peeked
       ELSE [peeked EXCEPT !.reader.position = @ + 1]

Seek(r, pos) == [r EXCEPT !.position = IF pos < 0 THEN 0 ELSE Lesser(pos, Size)]

(* readBytes: empty also stands for null.                                  *)
BytesAt(r, count) ==
    IF AtEnd(r) \/ count <= 0 \/ ~works THEN <<>>
    ELSE ReadBlock(r.position, Lesser(count, Size - r.position))
ReadBytes(r, count) == [r EXCEPT !.position = @ + Len(BytesAt(r, count))]

-----------------------------------------------------------------------------
(* Properties.                                                             *)

ReaderTypeOK ==
    /\ file \in Seq(Byte)
    /\ present \in 0 .. Size
    /\ works \in BOOLEAN /\ failed \in BOOLEAN
    /\ reader \in [position : 0 .. Size, buffer : Seq(Byte),
                   bufferStart : 0 .. Size, bufferEnd : 0 .. Size]

(* "Read a single byte" (fx_stream.dart:261): whatever seeks, reads and    *)
(* failures came before, a byte from the buffer is the byte of the file at *)
(* that position.                                                          *)
BufferIsFile ==
    /\ reader.bufferEnd = reader.bufferStart + Len(reader.buffer)
    /\ reader.buffer = SubSeq(file, reader.bufferStart + 1, reader.bufferEnd)
=============================================================================
