----------------------------- MODULE LineSource -----------------------------
(***************************************************************************)
(* What a subclass of ScanlineDecoder (lib/src/pdfium/fxcodec/             *)
(* scanlinedecoder.dart) owes to it: rewind goes back to the first line,   *)
(* getNextLine yields one line after the other.  Behind the last line it   *)
(* may answer null or a blank line, the caller has to know how many there  *)
(* are.                                                                    *)
(***************************************************************************)
EXTENDS Naturals, Sequences

CONSTANTS
    Line,   \* the contents a line may have
    NoLine, \* null
    Blank   \* lines of zeros

ASSUME LineAssumption == NoLine \notin Line /\ Blank \subseteq Line

VARIABLES
    lines,     \* what the source holds
    works,     \* rewind succeeds: what is to be decoded can be
    position,  \* lines read since rewind, at most all there are
    line       \* what getNextLine answered last

sourceVars == <<lines, works, position, line>>

PastEnd == Blank \cup {NoLine}

SourceInit ==
    /\ works \in BOOLEAN
    /\ position = 0
    /\ line = NoLine

SourceRewind ==
    /\ works
    /\ position' = 0
    /\ UNCHANGED <<lines, works, line>>

GetNextLine ==
    /\ works
    /\ IF position < Len(lines)
       THEN position' = position + 1 /\ line' = lines[position + 1]
       ELSE position' = position /\ line' \in PastEnd
    /\ UNCHANGED <<lines, works>>

SourceNext == SourceRewind \/ GetNextLine

SourceSpec == SourceInit /\ [][SourceNext]_sourceVars

SourceTypeOK ==
    /\ lines \in Seq(Line)
    /\ works \in BOOLEAN
    /\ position \in 0 .. Len(lines)
    /\ line \in Line \cup {NoLine}
=============================================================================
