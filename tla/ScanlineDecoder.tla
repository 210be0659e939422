-------------------------- MODULE ScanlineDecoder ---------------------------
(***************************************************************************)
(* ScanlineDecoder (lib/src/pdfium/fxcodec/scanlinedecoder.dart): lines of *)
(* an image asked for by number, in any order, over a source that yields   *)
(* them one after the other and can only start again.                      *)
(*                                                                         *)
(* The line kept for the next request is a reference: a source may fill    *)
(* the same list again for each line and clear it when it rewinds.  A      *)
(* reference the source has moved on from is "stale".  One step is one     *)
(* call to the source, so that the loops are sequences of steps.           *)
(***************************************************************************)
EXTENDS LineSource

CONSTANTS MaxLine  \* bound on the numbers of lines asked for

ASSUME MaxLineAssumption == MaxLine \in Nat

VARIABLES
    nextLine,      \* _nextLine plus one: 0 before the first rewind
    lastScanline,  \* _lastScanline: "null", "current" (what line holds) or "stale"
    request,       \* the call in progress
    answer         \* what getScanline answered last, and whether the source
                   \* has not moved on from it

vars == <<sourceVars, nextLine, lastScanline, request, answer>>

Number == 0 .. MaxLine
Idle == [op |-> "none", line |-> 0]
NoAnswer == [line |-> MaxLine + 1, data |-> NoLine, kept |-> TRUE]

Init ==
    /\ SourceInit
    /\ nextLine = 0
    /\ lastScanline = "null"
    /\ request = Idle
    /\ answer = NoAnswer

-----------------------------------------------------------------------------
(* _nextLine is one less than nextLine.                                    *)
Unread(n) == nextLine = 0 \/ nextLine - 1 > n
NextIs(n) == nextLine = n + 1

Left == IF lastScanline = "null" THEN "null" ELSE "stale"
Kept(l) == IF l = NoLine THEN "null" ELSE "current"
Answer(n, l, kept) == answer' = [line |-> n, data |-> l, kept |-> kept]

(* getScanline: the line read last is asked for again.                     *)
GetLast(n) ==
    /\ request = Idle
    /\ nextLine = n + 2
    /\ Answer(n, IF lastScanline = "null" THEN NoLine ELSE line,
              lastScanline # "stale")
    /\ UNCHANGED <<sourceVars, nextLine, lastScanline, request>>

(* rewind() answers false.                                                 *)
GetFails(n) ==
    /\ request = Idle
    /\ Unread(n) /\ nextLine # n + 2
    /\ ~works
    /\ Answer(n, NoLine, TRUE)
    /\ UNCHANGED <<sourceVars, nextLine, lastScanline, request>>

GetBackwards(n) ==
    /\ request = Idle
    /\ Unread(n) /\ nextLine # n + 2
    /\ SourceRewind
    /\ nextLine' = 1
    /\ lastScanline' = Left
    /\ request' = [op |-> "get", line |-> n]
    /\ UNCHANGED answer

GetForwards(n) ==
    /\ request = Idle
    /\ ~Unread(n) /\ nextLine # n + 2
    /\ request' = [op |-> "get", line |-> n]
    /\ UNCHANGED <<sourceVars, nextLine, lastScanline, answer>>

(* Its loop, and what follows it.                                          *)
(* Mutant: a line that cannot be read does not count.                      *)
PassLineUncounted ==
    /\ request.op = "get"
    /\ nextLine - 1 < request.line
    /\ GetNextLine
    /\ nextLine' = IF line' = NoLine THEN nextLine ELSE nextLine + 1
    /\ lastScanline' = Left
    /\ UNCHANGED <<request, answer>>

PassLine ==
    /\ request.op = "get"
    /\ nextLine - 1 < request.line
    /\ GetNextLine
    /\ nextLine' = nextLine + 1
    /\ lastScanline' = Left
    /\ UNCHANGED <<request, answer>>

ReadLine ==
    /\ request.op = "get"
    /\ nextLine - 1 >= request.line
    /\ GetNextLine
    /\ nextLine' = nextLine + 1
    /\ lastScanline' = Kept(line')
    /\ Answer(request.line, line', TRUE)
    /\ request' = Idle

(* skipToScanline; where it has nothing to read it answers at once and     *)
(* changes nothing.                                                        *)
SkipBackwards(n) ==
    /\ request = Idle
    /\ Unread(n) /\ ~NextIs(n) /\ nextLine # n + 2
    /\ SourceRewind
    /\ nextLine' = 1
    /\ lastScanline' = "null"
    /\ request' = IF n = 0 THEN Idle ELSE [op |-> "skip", line |-> n]
    /\ UNCHANGED answer

SkipForwards(n) ==
    /\ request = Idle
    /\ ~Unread(n) /\ ~NextIs(n)
    /\ lastScanline' = "null"
    /\ request' = [op |-> "skip", line |-> n]
    /\ UNCHANGED <<sourceVars, nextLine, answer>>

(* Mutant: skipToScanline drops the lines it reads, as getScanline does.   *)
SkipLineDropped(pause) ==
    /\ request.op = "skip"
    /\ GetNextLine
    /\ nextLine' = nextLine + 1
    /\ request' = IF pause \/ nextLine >= request.line THEN Idle ELSE request
    /\ UNCHANGED <<lastScanline, answer>>

(* One turn of its loop; pause.needToPauseNow() may end it.                *)
SkipLine(pause) ==
    /\ request.op = "skip"
    /\ GetNextLine
    /\ nextLine' = nextLine + 1
    /\ lastScanline' = Kept(line')
    /\ request' = IF pause \/ nextLine >= request.line THEN Idle ELSE request
    /\ UNCHANGED answer

-----------------------------------------------------------------------------
Rewinding == \E n \in Number : GetBackwards(n) \/ SkipBackwards(n)
Reading == PassLine \/ ReadLine \/ \E pause \in BOOLEAN : SkipLine(pause)
Waiting ==
    \E n \in Number :
        GetLast(n) \/ GetFails(n) \/ GetForwards(n) \/ SkipForwards(n)

Next == Rewinding \/ Reading \/ Waiting

(* A call that has started goes on until it returns.                       *)
Spec == Init /\ [][Next]_vars /\ WF_vars(Reading)

-----------------------------------------------------------------------------
(* Properties.                                                             *)

TypeOK ==
    /\ SourceTypeOK
    /\ nextLine \in Nat
    /\ lastScanline \in {"null", "current", "stale"}
    /\ request \in [op : {"get", "skip"}, line : Number] \cup {Idle}

(* "getScanline(int line)" (scanlinedecoder.dart:27): the answer is line   *)
(* number line of the source, whatever lines were asked for, skipped to or *)
(* skipped halfway before; behind the last one it is null or blank.        *)
IsLine(n, l) ==
    IF ~works THEN l = NoLine
    ELSE IF n < Len(lines) THEN l = lines[n + 1]
    ELSE l \in PastEnd
AnswersAreLines ==
    answer # NoAnswer => answer.kept /\ IsLine(answer.line, answer.data)

(* Every request returns, also those for lines that are not there.         *)
RequestsReturn == request # Idle ~> request = Idle
=============================================================================
