---------------------------- MODULE MCPdfParser ----------------------------
(***************************************************************************)
(* Small files for PdfParser.  Object 1 is the subject (often a stream),   *)
(* object 2 a value, a reference or the object stream, object 3 sits at an *)
(* offset of its own, at a wrong one, or in the object stream.  The item   *)
(* of object n stands at offset 10 n.                                      *)
(***************************************************************************)
EXTENDS PdfParser, FiniteSets

CONSTANTS e1, e2

Free == [type |-> 0, offset |-> 0, gen |-> 0]
InUseAt(o) == [type |-> 1, offset |-> o, gen |-> 0]
InStream(c, i) == [type |-> 2, offset |-> i, gen |-> c]

It(n, k, t, h) == [num |-> n, kind |-> k, to |-> t, holds |-> h]

Entries3(f1, f2, f3) == [n \in 0..3 |-> CASE n = 0 -> Free
                                          [] n = 1 -> f1
                                          [] n = 2 -> f2
                                          [] n = 3 -> f3]
Items3(i1, i2, i3) == [o \in {10, 20, 30} |-> CASE o = 10 -> i1
                                                [] o = 20 -> i2
                                                [] o = 30 -> i3]

Value(n) == It(n, "value", 0, <<>>)

FilesOver(F2, F3, I1, I2, I3) ==
    {[entries |-> Entries3(InUseAt(10), f2, f3), at |-> Items3(i1, i2, i3)] :
        f2 \in F2, f3 \in F3, i1 \in I1, i2 \in I2, i3 \in I3}

AllFiles ==
    FilesOver({InUseAt(20), InUseAt(99)},
              {InUseAt(30), InUseAt(20), InStream(2, 0), InStream(2, 1)},
              {It(1, "stream", t, <<>>) : t \in {0, 2, 3}} \cup {It(1, "empty", 0, <<>>)},
              {Value(2), It(2, "link", 3, <<>>)}
                 \cup {It(2, "stream", t, <<4, 3>>) : t \in {0, 1, 3}},
              {Value(3), It(3, "stream", 2, <<>>)})

Acyclic(f) == \E rank \in [1..3 -> 0..2] : RankedBy(f, rank)

AcyclicFiles == {f \in AllFiles : Acyclic(f)}
PlainFiles ==
    FilesOver({InUseAt(20), InUseAt(99)},
              {InUseAt(30), InUseAt(20), InStream(2, 0), InStream(2, 1), Free},
              {Value(1), It(1, "stream", 0, <<>>)},
              {Value(2), It(2, "stream", 0, <<3>>), It(2, "stream", 0, <<4, 3>>)},
              {It(3, "link", 1, <<>>)})
EmptyStreamFiles ==
    FilesOver({InUseAt(20)}, {InUseAt(30)}, {It(1, "empty", 0, <<>>)},
              {Value(2)}, {Value(3)})
CyclicFiles ==
    {[entries |-> Entries3(InUseAt(10), InUseAt(20), Free),
      at |-> Items3(It(1, "stream", t, <<>>), i2, It(3, "value", 0, <<>>))] :
        t \in {1, 2}, i2 \in {It(2, "link", 1, <<>>), It(2, "stream", 1, <<>>)}}


(* PdfSyntaxParser.maxRecursionDepth (512), scaled down.                   *)
MaxRecursionDepth == 4

(* "Maximum recursion depth for parsing nested objects"                    *)
(* (pdf_syntax_parser.dart): no parse nests deeper, whatever the file.     *)
NestingBounded == Len(stack) <= MaxRecursionDepth
=============================================================================
