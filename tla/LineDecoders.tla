---------------------------- MODULE LineDecoders ----------------------------
(***************************************************************************)
(* The scanline decoders of the library under requests in any order:       *)
(* _RLScanlineDecoder (fxcodec/basic/basic_module.dart),                   *)
(* FlateScanlineDecoder and FlatePredictorScanlineDecoder (fxcodec/flate/  *)
(* flate_module.dart).  The decoder does in its own state what             *)
(* ScanlineDecoder asks of its source in the same step; what it should     *)
(* yield is what PdfStream decodes from the same bytes.                    *)
(*                                                                         *)
(* source is the encoded data of a run-length decoder, and what zlib       *)
(* yields for the others; works is whether zlib can.  The zeros that pad a *)
(* run-length line to a multiple of four bytes are left out.               *)
(***************************************************************************)
EXTENDS ScanlineDecoder, FilterAlgorithms

CONSTANT Images  \* the images to decode: [kind, source, lineBytes, bpp, bits]

Kind == {"runlength", "flate", "png", "tiff"}

ASSUME ImagesAssumption ==
    \A i \in Images :
        /\ i.kind \in Kind /\ i.source \in Seq(Byte)
        /\ i.lineBytes \in Nat \ {0} /\ i.bpp \in Nat \ {0} /\ i.bits \in {8, 16}

VARIABLES
    image,    \* one of Images
    decoder,  \* where the decoder is, what it kept of the line before
    returned  \* what its getNextLine returned last

decoderVars == <<image, decoder, returned>>
allVars == <<vars, decoderVars>>

(* The rows PdfStream decodes.  A run-length decoder may begin a row it    *)
(* cannot finish, the others yield whole rows only.                        *)
LinesOf(i) ==
    CASE i.kind = "runlength" -> BegunLines(RunLength(i.source, 1), i.lineBytes)
      [] i.kind = "flate" -> WholeLines(i.source, i.lineBytes)
      [] i.kind = "png" -> WholeLines(StreamPng(i.source, i.lineBytes, i.bpp), i.lineBytes)
      [] i.kind = "tiff" -> WholeLines(StreamTiff(i.source, i.lineBytes, i.bpp), i.lineBytes)

(* _checkDestSize; lines of whole bytes.                                   *)
Accepted(i, h) ==
    i.kind = "runlength" => i.lineBytes * h <= Announced(i.source, 1)

-----------------------------------------------------------------------------
(* Mutant: rewind keeps the line the predictor stands on.                  *)
RewoundOnLastLine(i, d) ==
    [offset |-> 0, eod |-> FALSE, operator |-> 0, last |-> d.last]

(* rewind.                                                                 *)
Rewound(i, d) ==
    [offset |-> 0, eod |-> FALSE, operator |-> 0, last |-> Zeros(i.lineBytes)]

(* getNextLine of each: the decoder after it and the line, or NoLine.      *)
NoMore(d) == [decoder |-> d, line |-> NoLine]

RunLengthLine(i, d) ==
    IF d.offset > 0 /\ d.eod THEN NoMore(d)
    ELSE LET begun == IF d.offset = 0 THEN NextOperator(d, i.source) ELSE d
         IN FillLine(begun, i.source, <<>>, i.lineBytes)

BytesNeeded(i) == IF i.kind = "png" THEN i.lineBytes + 1 ELSE i.lineBytes

InflatedLine(i, d) ==
    LET needed == BytesNeeded(i)
        src == SubSeq(i.source, d.offset + 1, d.offset + needed)
        result ==
            CASE i.kind = "flate" -> src
              [] i.kind = "png" -> PngLine(src[1], Tail(src), d.last, i.bpp)
              [] i.kind = "tiff" -> TiffLine(src, i.bits, i.bpp)
    IN IF d.offset + needed > Len(i.source) THEN NoMore(d)
       ELSE [decoder |-> [d EXCEPT !.offset = @ + needed,
                                   !.last = IF i.kind = "png" THEN result ELSE @],
             line |-> result]

NextLineOf(i, d) ==
    IF i.kind = "runlength" THEN RunLengthLine(i, d) ELSE InflatedLine(i, d)

-----------------------------------------------------------------------------
DecoderInit ==
    /\ image \in Images
    /\ Accepted(image, 1)
    /\ decoder = Rewound(image, [last |-> Zeros(image.lineBytes)])
    /\ returned = NoLine
    /\ lines = LinesOf(image)
    /\ Init
    /\ image.kind = "runlength" => works

Rewind ==
    /\ Rewinding
    /\ decoder' = Rewound(image, decoder)
    /\ UNCHANGED <<image, returned>>

(* Behind the last line, where its source may choose, ScanlineDecoder sees *)
(* what the decoder chose.                                                 *)
Read ==
    LET next == NextLineOf(image, decoder) IN
    /\ Reading
    /\ position < Len(lines) \/ next.line \notin PastEnd \/ line' = next.line
    /\ decoder' = next.decoder
    /\ returned' = next.line
    /\ UNCHANGED image

Wait == Waiting /\ UNCHANGED decoderVars

DecoderNext == Rewind \/ Read \/ Wait

DecoderSpec == DecoderInit /\ [][DecoderNext]_allVars /\ WF_allVars(Read)

-----------------------------------------------------------------------------
(* Properties.                                                             *)

(* A decoder yields, line by line and again after every rewind, the rows   *)
(* PdfStream decodes from the same data (pdf_stream.dart:404,              *)
(* _decodeRunLength, and :228, _decodePngPredictor), however runs and      *)
(* copies lie across the ends of lines.                                    *)
Source == INSTANCE LineSource WITH line <- returned
YieldsDecodedData == Source!SourceSpec

(* pngPredictor and tiffPredictor (predictors.dart:132, 208), which        *)
(* flateOrLZWDecode uses, agree with PdfStream on all whole rows.          *)
WholeRows(data) == WholeLines(data, image.lineBytes)
PredictorsAgree ==
    LET n == image.lineBytes
        src == image.source
        png == WholeRows(PngPredictor(src, n, image.bpp))
    IN /\ image.kind = "png" => SubSeq(png, 1, Len(src) \div (n + 1)) = lines
       /\ image.kind = "tiff" =>
             WholeRows(TiffPredictor(src, n, image.bits, image.bpp)) = lines
=============================================================================
