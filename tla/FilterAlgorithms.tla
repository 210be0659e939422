-------------------------- MODULE FilterAlgorithms --------------------------
(***************************************************************************)
(* Decoding algorithms the library has more than once: for whole streams   *)
(* (lib/src/pdfium/fpdfapi/parser/pdf_stream.dart, fxcodec/flate/          *)
(* predictors.dart) and line by line (fxcodec/basic/basic_module.dart,     *)
(* predictors.dart).  Data are sequences of bytes.                         *)
(*                                                                         *)
(* Only for TLC: the loops over the bytes of a run-length stream are       *)
(* RECURSIVE.                                                              *)
(***************************************************************************)
EXTENDS Integers, Sequences

Byte == 0 .. 255
Lesser(a, b) == IF a < b THEN a ELSE b
Greater(a, b) == IF a > b THEN a ELSE b
Abs(a) == IF a < 0 THEN -a ELSE a
Repeated(b, n) == [i \in 1 .. n |-> b]
Zeros(n) == Repeated(0, n)
Padded(l, n) == l \o Zeros(n - Len(l))

(* The lines of n bytes that data holds in full, and all it begins.        *)
WholeLines(data, n) ==
    [i \in 1 .. Len(data) \div n |-> SubSeq(data, (i - 1) * n + 1, i * n)]
BegunLines(data, n) ==
    [i \in 1 .. (Len(data) + n - 1) \div n |->
        Padded(SubSeq(data, (i - 1) * n + 1, Lesser(i * n, Len(data))), n)]
Joined(rows, n) == [i \in 1 .. Len(rows) * n |-> rows[((i - 1) \div n) + 1][((i - 1) % n) + 1]]

-----------------------------------------------------------------------------
(* PdfStream._decodeRunLength: from index i of s on.                       *)
EOD == 128
RECURSIVE RunLength(_, _)
RunLength(s, i) ==
    IF i > Len(s) \/ s[i] = EOD THEN <<>>
    ELSE IF s[i] < EOD THEN
        LET n == Lesser(s[i] + 1, Len(s) - i)
        IN SubSeq(s, i + 1, i + n) \o RunLength(s, i + 1 + n)
    ELSE IF i = Len(s) THEN <<>>
    ELSE Repeated(s[i + 1], 257 - s[i]) \o RunLength(s, i + 2)

(* _RLScanlineDecoder._checkDestSize: the bytes the operators announce.    *)
RECURSIVE Announced(_, _)
Announced(s, i) ==
    IF i > Len(s) \/ s[i] = EOD THEN 0
    ELSE IF s[i] < EOD THEN s[i] + 1 + Announced(s, i + s[i] + 2)
    ELSE 257 - s[i] + Announced(s, i + 2)

(* _RLScanlineDecoder: the place in the source, eod and the operator, of   *)
(* which a line may leave a rest for the next one.                         *)
NextOperator(d, s) ==
    IF d.offset >= Len(s) THEN [d EXCEPT !.operator = EOD, !.eod = TRUE]
    ELSE LET op == s[d.offset + 1]
         IN [d EXCEPT !.offset = @ + 1, !.operator = op, !.eod = @ \/ op = EOD]

UpdateOperator(d, s, used) ==
    IF d.operator < EOD THEN
        LET moved == [d EXCEPT !.offset = @ + used]
        IN IF used = d.operator + 1 THEN NextOperator(moved, s)
           ELSE [moved EXCEPT !.operator = @ - used]
    ELSE IF used = 257 - d.operator THEN NextOperator([d EXCEPT !.offset = @ + 1], s)
    ELSE [d EXCEPT !.operator = @ + used]

(* Its getNextLine: fills l up to n bytes.                                 *)
RECURSIVE FillLine(_, _, _, _)
FillLine(d, s, l, n) ==
    IF d.offset >= Len(s) \/ Len(l) = n \/ d.eod
    THEN [decoder |-> d, line |-> Padded(l, n)]
    ELSE IF d.operator < EOD THEN
        LET wanted == Lesser(d.operator + 1, n - Len(l))
            copied == Lesser(wanted, Len(s) - d.offset)
            ended == [d EXCEPT !.eod = @ \/ copied < wanted]
        IN FillLine(UpdateOperator(ended, s, copied), s,
                    l \o SubSeq(s, d.offset + 1, d.offset + copied), n)
    ELSE LET repeated == Lesser(257 - d.operator, n - Len(l))
         IN FillLine(UpdateOperator(d, s, repeated), s,
                     l \o Repeated(s[d.offset + 1], repeated), n)

-----------------------------------------------------------------------------
(* Predictors.  bpp is bytes per pixel, n bytes per row.                   *)

Paeth(left, up, upLeft) ==
    LET p == left + up - upLeft
        toLeft == Abs(p - left)
        toUp == Abs(p - up)
        toUpLeft == Abs(p - upLeft)
    IN IF toLeft <= toUp /\ toLeft <= toUpLeft THEN left
       ELSE IF toUp <= toUpLeft THEN up ELSE upLeft

(* pngPredictLine: tag and raw bytes, on the line before.                  *)
PngLine(tag, raw, last, bpp) ==
    LET out[i \in DOMAIN raw] ==
            LET left == IF i > bpp THEN out[i - bpp] ELSE 0
                up == last[i]
                upLeft == IF i > bpp THEN last[i - bpp] ELSE 0
            IN (raw[i] + CASE tag = 1 -> left
                           [] tag = 2 -> up
                           [] tag = 3 -> (left + up) \div 2
                           [] tag = 4 -> Paeth(left, up, upLeft)
                           [] OTHER -> 0) % 256
    IN [i \in DOMAIN raw |-> out[i]]

(* PdfStream._decodePngPredictor: all rows, one index for what is written  *)
(* to; the row before the first is zeros.                                  *)
StreamPng(data, n, bpp) ==
    LET rows == Len(data) \div (n + 1)
        at(row, col) == data[row * (n + 1) + 2 + col]
        output[k \in 0 .. rows * n - 1] ==
            LET row == k \div n
                col == k % n
                left == IF col >= bpp THEN output[k - bpp] ELSE 0
                up == IF row > 0 THEN output[k - n] ELSE 0
                upLeft == IF col >= bpp /\ row > 0 THEN output[k - n - bpp] ELSE 0
                filter == data[row * (n + 1) + 1]
                raw == at(row, col)
            IN CASE filter = 1 -> (raw + left) % 256
                 [] filter = 2 -> (raw + up) % 256
                 [] filter = 3 -> (raw + ((left + up) \div 2)) % 256
                 [] filter = 4 -> (raw + Paeth(left, up, upLeft)) % 256
                 [] OTHER -> raw
    IN [i \in 1 .. rows * n |-> output[i - 1]]

(* pngPredictor: the last row may be shorter than the others, the result   *)
(* is not.                                                                 *)
PngPredictor(data, n, bpp) ==
    LET rowCount == (Len(data) + n) \div (n + 1)
        start(r) == (r - 1) * (n + 1) + 1
        size(r) == Lesser(n, Len(data) - start(r))
        row[r \in 0 .. rowCount] ==
            IF r = 0 THEN Zeros(n)
            ELSE PngLine(data[start(r)], SubSeq(data, start(r) + 1, start(r) + size(r)),
                         row[r - 1], bpp)
    IN Joined([r \in 1 .. rowCount |-> Padded(row[r], n)], n)

(* tiffPredictLine for components of 8 and of 16 bits.                     *)
TiffLine(raw, bits, bpp) ==
    LET out[i \in DOMAIN raw] ==
            IF i <= bpp THEN raw[i]
            ELSE IF bits = 8 THEN (raw[i] + out[i - bpp]) % 256
            ELSE IF i % 2 = 0 THEN (raw[i] + out[i - bpp]) % 256
            ELSE IF i = Len(raw) THEN raw[i]
            ELSE (raw[i] + out[i - bpp] + ((raw[i + 1] + out[i + 1 - bpp]) \div 256)) % 256
    IN [i \in DOMAIN raw |-> out[i]]

(* tiffPredictor, with a shorter last row.                                 *)
(* Mutant: one row for all the data.                                       *)
TiffPredictorOneRow(data, n, bits, bpp) == TiffLine(data, bits, bpp)

TiffPredictor(data, n, bits, bpp) ==
    LET start(k) == ((k - 1) \div n) * n + 1
        row(k) == TiffLine(SubSeq(data, start(k), Lesser(start(k) + n - 1, Len(data))), bits, bpp)
    IN [k \in DOMAIN data |-> row(k)[k - start(k) + 1]]

(* PdfStream._decodeTiffPredictor: byte by byte; bytes behind the last     *)
(* whole row stay as they are.                                             *)
StreamTiff(data, n, bpp) ==
    LET rows == Len(data) \div n
        output[k \in 0 .. Len(data) - 1] ==
            IF k < rows * n /\ k % n >= bpp THEN (data[k + 1] + output[k - bpp]) % 256
            ELSE data[k + 1]
    IN [k \in DOMAIN data |-> output[k - 1]]
=============================================================================
