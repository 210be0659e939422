----------------------------- MODULE GlyphCache -----------------------------
(***************************************************************************)
(* CfxFont (lib/src/pdfium/fxge/cfx_font.dart) and its CfxGlyphCache       *)
(* (cfx_glyphcache.dart): bitmaps, outlines and widths of glyphs are read  *)
(* from the one glyph slot of the face, and are kept under what was asked  *)
(* for.  Nothing in the library fills the slot: whoever has the face does. *)
(*                                                                         *)
(* A face is named by the font it was made of.  A bitmap or an outline is  *)
(* the list of what it was computed from.  destWidth is part of every key  *)
(* and of no computation; it is left out.                                  *)
(***************************************************************************)
EXTENDS Integers, FiniteSets

CONSTANTS
    Font, NoFace,
    Glyph,      \* glyph indices, not 0
    Format,     \* Format[font][glyph]: "outline", "bitmap" or "none"
    Advance,    \* Advance[font][glyph]: horiAdvance
    Matrix,     \* matrices, in steps finer than those of the keys
    PerKey,     \* how many of those steps one step of a key has
    Alias,      \* FontAntiAliasingMode
    Style,      \* [weight, angle] of substitution fonts
    Weight,     \* weights widths are asked for
    LoadsFirst, \* TRUE if callers fill the slot before they ask
    MaxEntries  \* bound on what a cache holds

ASSUME FontAssumption ==
    /\ NoFace \notin Font /\ Glyph \subseteq Nat \ {0}
    /\ Format \in [Font -> [Glyph -> {"outline", "bitmap", "none"}]]
    /\ Advance \in [Font -> [Glyph -> Int]]
ASSUME KeyAssumption == Matrix \subseteq Nat /\ PerKey \in Nat \ {0}
ASSUME StyleAssumption ==
    Style \subseteq [weight : Nat, angle : Int] /\ Weight \subseteq Nat
    /\ LoadsFirst \in BOOLEAN /\ MaxEntries \in Nat

VARIABLES
    face,     \* CfxFont._face
    subst,    \* weight and angle of _substFont, or Plain
    vertical, \* _vertical
    cache,    \* _glyphCache: [face, bitmaps, paths, widths] or NoCache
    slot,     \* glyph in the slot of the face the cache has, 0 when empty
    answer    \* the last question, and what was answered

vars == <<face, subst, vertical, cache, slot, answer>>

Plain == [weight |-> 0, angle |-> 0]
NoCache == [face |-> NoFace, made |-> FALSE]
Nothing == [n \in {} |-> 0]
CacheOf(f) == [face |-> f, made |-> TRUE, bitmaps |-> Nothing, paths |-> Nothing,
               widths |-> Nothing]
Null == <<"null">>
Empty == <<"empty">>
NoAnswer == [kind |-> "none"]

Put(map, key, value) ==
    [k \in DOMAIN map \cup {key} |-> IF k = key THEN value ELSE map[k]]

Init ==
    /\ face = NoFace /\ subst = Plain /\ vertical = FALSE
    /\ cache = NoCache /\ slot = 0 /\ answer = NoAnswer

-----------------------------------------------------------------------------
(* Loading a font.  Data that is no font leaves the cache of the last one. *)

LoadEmbedded(f, v) ==
    /\ face' = f /\ vertical' = v
    /\ IF f = NoFace THEN UNCHANGED <<cache, slot>>
       ELSE cache' = CacheOf(f) /\ slot' = 0
    /\ answer' = NoAnswer /\ UNCHANGED subst

(* A collection that ends inside of its header throws (line 516).          *)
LoadThrows(v) ==
    /\ vertical' = v /\ answer' = NoAnswer
    /\ UNCHANGED <<face, subst, cache, slot>>

(* Mutant: a cache that is there is kept.                                  *)
LoadSubstKeeping(f, s, v) ==
    /\ face' = f /\ subst' = s /\ vertical' = v
    /\ cache' = IF cache = NoCache THEN CacheOf(f) ELSE cache
    /\ slot' = 0 /\ answer' = NoAnswer

LoadSubst(f, s, v) ==
    /\ face' = f /\ subst' = s /\ vertical' = v
    /\ cache' = CacheOf(f) /\ slot' = 0
    /\ answer' = NoAnswer

GetOrCreateGlyphCache ==
    /\ cache = NoCache /\ cache' = CacheOf(face)
    /\ answer' = NoAnswer /\ UNCHANGED <<face, subst, vertical, slot>>

ClearGlyphCache ==
    /\ cache # NoCache /\ cache' = CacheOf(cache.face)
    /\ answer' = NoAnswer /\ UNCHANGED <<face, subst, vertical, slot>>

(* FT_Load_Glyph by whoever has the face.                                  *)
FillSlot(g) ==
    /\ cache.face # NoFace /\ slot' = g
    /\ answer' = NoAnswer /\ UNCHANGED <<face, subst, vertical, cache>>

-----------------------------------------------------------------------------
(* What the slot yields.                                                   *)

FormatOf(f, g) == IF g = 0 THEN "none" ELSE Format[f][g]

RenderGlyph(f, g, m, a, style) ==
    CASE FormatOf(f, g) = "bitmap" -> <<"bitmap", f, g>>
      [] FormatOf(f, g) = "outline" -> <<"rendered", f, g, m, a, style>>
      [] OTHER -> Empty

Outline(f, g, style) ==
    IF FormatOf(f, g) = "outline" THEN <<"outline", f, g, style>> ELSE Null

Width(f, g, w) == (IF g = 0 THEN 0 ELSE Advance[f][g]) + w \div 4

-----------------------------------------------------------------------------
(* Asking.  An answer that is kept is given again without a look at the    *)
(* slot.                                                                   *)

Rounded(m) == (2 * m + PerKey) \div (2 * PerKey)

(* _UniqueKeyGen                                                           *)
SizeKey(m, a) ==
    IF subst = Plain /\ ~vertical THEN <<Rounded(m), a>>
    ELSE <<Rounded(m), a, subst, vertical>>

Entries == Cardinality(DOMAIN cache.bitmaps) + Cardinality(DOMAIN cache.paths)
           + Cardinality(DOMAIN cache.widths)
Asks(g) == /\ LoadsFirst => slot = g
           /\ UNCHANGED <<face, subst, vertical, slot>>

(* Mutant: a bitmap takes the place of all bitmaps of its size.            *)
StoreAlone(bitmaps, size, g, bitmap) ==
    Put([k \in {l \in DOMAIN bitmaps : l[1] # size} |-> bitmaps[k]], <<size, g>>, bitmap)

Store(bitmaps, size, g, bitmap) == Put(bitmaps, <<size, g>>, bitmap)

Bitmap(g, m, a) ==
    LET key == <<SizeKey(m, a), g>>
    IN IF cache.face = NoFace THEN Null
       ELSE IF key \in DOMAIN cache.bitmaps THEN cache.bitmaps[key]
       ELSE RenderGlyph(cache.face, slot, m, a, subst)

LoadGlyphBitmap(g, m, a) ==
    /\ Asks(g)
    /\ answer' = [kind |-> "bitmap", glyph |-> g, matrix |-> m, alias |-> a,
                  result |-> Bitmap(g, m, a)]
    /\ IF cache.face = NoFace \/ <<SizeKey(m, a), g>> \in DOMAIN cache.bitmaps
       THEN UNCHANGED cache
       ELSE Entries < MaxEntries
            /\ cache' = [cache EXCEPT !.bitmaps = Store(@, SizeKey(m, a), g, Bitmap(g, m, a))]

PathKey(g) == <<g, subst, vertical>>
Path(g) ==
    IF cache.face = NoFace THEN Null
    ELSE IF PathKey(g) \in DOMAIN cache.paths THEN cache.paths[PathKey(g)]
    ELSE Outline(cache.face, slot, subst)

LoadGlyphPath(g) ==
    /\ Asks(g)
    /\ answer' = [kind |-> "path", glyph |-> g, result |-> Path(g)]
    /\ IF Path(g) = Null \/ PathKey(g) \in DOMAIN cache.paths THEN UNCHANGED cache
       ELSE Entries < MaxEntries /\ cache' = [cache EXCEPT !.paths = Put(@, PathKey(g), Path(g))]

WidthKey(g, w) == <<g, w>>

GlyphWidth(g, w) ==
    IF cache.face = NoFace THEN 0
    ELSE IF WidthKey(g, w) \in DOMAIN cache.widths THEN cache.widths[WidthKey(g, w)]
    ELSE Width(cache.face, slot, w)

KeepWidth(g, w) ==
    IF cache.face = NoFace \/ WidthKey(g, w) \in DOMAIN cache.widths THEN UNCHANGED cache
    ELSE Entries < MaxEntries
         /\ cache' = [cache EXCEPT !.widths = Put(@, WidthKey(g, w), GlyphWidth(g, w))]

GetGlyphWidthAdjusted(g, w) ==
    /\ Asks(g) /\ KeepWidth(g, w)
    /\ answer' = [kind |-> "width", glyph |-> g, weight |-> w, result |-> GlyphWidth(g, w)]

GetGlyphWidth(g) ==
    /\ Asks(g)
    /\ IF face = NoFace THEN UNCHANGED cache ELSE KeepWidth(g, 0)
    /\ answer' = [kind |-> "width", glyph |-> g, weight |-> 0,
                  result |-> IF face = NoFace THEN 0 ELSE GlyphWidth(g, 0)]

Next ==
    \/ \E v \in BOOLEAN : \/ \E f \in Font \cup {NoFace} : LoadEmbedded(f, v)
                          \/ LoadThrows(v)
                          \/ \E f \in Font, s \in Style : LoadSubst(f, s, v)
    \/ GetOrCreateGlyphCache \/ ClearGlyphCache
    \/ \E g \in Glyph :
          \/ FillSlot(g)
          \/ \E m \in Matrix, a \in Alias : LoadGlyphBitmap(g, m, a)
          \/ LoadGlyphPath(g)
          \/ GetGlyphWidth(g)
          \/ \E w \in Weight : GetGlyphWidthAdjusted(g, w)

Spec == Init /\ [][Next]_vars

-----------------------------------------------------------------------------
(* Properties.                                                             *)

Bitmaps ==
    {Empty} \cup ({"bitmap"} \X Font \X Glyph)
    \cup ({"rendered"} \X Font \X Glyph \X Matrix \X Alias \X (Style \cup {Plain}))
Paths == {"outline"} \X Font \X Glyph \X (Style \cup {Plain})

(* No cache keeps a null.                                                  *)
TypeOK ==
    /\ face \in Font \cup {NoFace} /\ vertical \in BOOLEAN
    /\ subst \in Style \cup {Plain} /\ slot \in Glyph \cup {0}
    /\ cache.made =>
          /\ cache.face \in Font \cup {NoFace}
          /\ \A k \in DOMAIN cache.bitmaps : cache.bitmaps[k] \in Bitmaps
          /\ \A k \in DOMAIN cache.paths : cache.paths[k] \in Paths
          /\ \A k \in DOMAIN cache.widths : cache.widths[k] \in Int

(* "The font face this cache belongs to" (cfx_glyphcache.dart:95) is the   *)
(* one the font has.                                                       *)
CacheIsOfFace == face # NoFace => cache.made /\ cache.face = face

(* Whatever was asked, loaded and cleared before, a font that has a face   *)
(* answers what that face, and no kept answer, yields for the question; of *)
(* bitmaps one whose matrix rounds to the same.                            *)
SameBitmap(result, g, m, a) ==
    \E n \in Matrix : Rounded(n) = Rounded(m) /\ result = RenderGlyph(face, g, n, a, subst)
AnswersAreFresh ==
    face # NoFace =>
        /\ answer.kind = "bitmap" => SameBitmap(answer.result, answer.glyph, answer.matrix, answer.alias)
        /\ answer.kind = "path" => answer.result = Outline(face, answer.glyph, subst)
        /\ answer.kind = "width" =>
              answer.result = Advance[face][answer.glyph] + answer.weight \div 4

(* Asking drops nothing that is kept.                                      *)
Kept(map, next) == \A k \in DOMAIN map : k \in DOMAIN next /\ next[k] = map[k]
AskingKeeps ==
    [][answer' # NoAnswer /\ cache.made =>
          /\ Kept(cache.bitmaps, cache'.bitmaps)
          /\ Kept(cache.paths, cache'.paths)
          /\ Kept(cache.widths, cache'.widths)]_vars

(* A font without a face has no bitmaps and no widths.  Refuted: after     *)
(* loadEmbedded failed the cache of the last font answers.                 *)
NoFaceNoGlyphs ==
    face = NoFace =>
        /\ answer.kind \in {"bitmap", "path"} => answer.result = Null
        /\ answer.kind = "width" => answer.result = 0
=============================================================================
