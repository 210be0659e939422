--------------------------- MODULE MCLineDecoders ---------------------------
(***************************************************************************)
(* Short run-length streams over copies of one and two bytes, runs of two  *)
(* and three, and EOD; PNG rows with every tag; TIFF rows.                 *)
(***************************************************************************)
EXTENDS LineDecoders, SequencesExt

Image(kind, source, lineBytes, bpp, bits) ==
    [kind |-> kind, source |-> source, lineBytes |-> lineBytes, bpp |-> bpp, bits |-> bits]

RunLengthSources == SeqOf({0, 1, 128, 255}, 4)
LongSources ==
    {<<255, 7, 1, 5, 6, 254, 9>>, <<254, 7, 0, 5, 255, 9, 128>>, <<1, 5, 6, 253, 7, 128>>}
RunLengthImages ==
    {Image("runlength", s, 2, 1, 8) : s \in RunLengthSources}
    \cup {Image("runlength", s, n, 1, 8) : s \in LongSources, n \in 1 .. 3}

Data == {3, 200}
Tags == 0 .. 5
PngImages ==
    {Image("png", <<a, 3, 200>> \o <<b>> \o d, 2, bpp, 8) :
        a \in {0, 1, 4}, b \in Tags, d \in [1 .. 2 -> Data], bpp \in 1 .. 2}
    \cup {Image("png", <<a, 3, 200, 2, 1, 4>> \o c, 2, 1, 8) : a \in Tags, c \in {<<1>>, <<3, 9>>}}

TiffImages ==
    {Image("tiff", s, n, bpp, 8) :
        s \in UNION {[1 .. k -> Data] : k \in 3 .. 4}, n \in 2 .. 3, bpp \in 1 .. 2}
FlateImages == {Image("flate", <<1, 2, 3, 4, 5>>, n, 1, 8) : n \in 1 .. 3}

AllImages == RunLengthImages \cup PngImages \cup TiffImages \cup FlateImages

(* Components of two bytes.                                                *)
WideImages == {Image("tiff", s, 4, 2, 16) : s \in [1 .. 4 -> Data]}

Null == <<>>
Lines == Seq(Byte) \ {<<>>}
BlankLines == {Zeros(n) : n \in 1 .. 3}
=============================================================================
