---------------------------- MODULE MCPdfStream -----------------------------
(***************************************************************************)
(* Content that is encoded by one or two of the filters "Flate" and "Hex". *)
(* Data that Flate cannot inflate stay as they are (_decodeFlate catches), *)
(* what Hex makes of other data is junk, and unknown filters do nothing.   *)
(***************************************************************************)
EXTENDS PdfStream

Datas == {<<"x">>, <<"Hex", "x">>, <<"Flate", "Hex", "x">>, <<"junk">>, <<"empty">>}
Empty == <<"empty">>

Apply(data, f) ==
    CASE Head(data) = f -> Tail(data)
      [] Head(data) # f /\ f = "Hex" -> <<"junk">>
      [] OTHER -> data

Lists == {<<>>, <<"Flate", "Hex">>, <<"DCT", "Hex">>}
=============================================================================
