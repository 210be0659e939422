------------------------ MODULE GraphicsEngineProofs ------------------------
(***************************************************************************)
(* Proofs about the graphics engine (fxge): GlyphCache, for all fonts,     *)
(* glyphs, matrices and styles, and RenderDevice, for all bitmaps,         *)
(* rectangles and bounds.  The two share no state.                         *)
(*                                                                         *)
(* AnswersAreFresh says nothing of what is kept.  IndInv adds that the     *)
(* cache is the one of the face and that each entry is what its key asks   *)
(* of that face; a bitmap for some matrix that rounds to the key.          *)
(*                                                                         *)
(* BoxesAgree is not inductive: a restore takes the boxes from two stacks. *)
(* StacksAgree adds that the stacks are of one height and agree box by     *)
(* box.  It needs that the driver came when nothing was saved; before, the *)
(* driver's side is as new.                                                *)
(***************************************************************************)
EXTENDS GlyphCache, RenderDevice, SequenceTheorems, TLAPS

Faces == Font \cup {NoFace}
Substs == Style \cup {Plain}

IsCache(c) ==
    /\ c = [face |-> c.face, made |-> c.made, bitmaps |-> c.bitmaps, paths |-> c.paths,
            widths |-> c.widths]
    /\ c.made
    /\ c.face \in Faces
    /\ \A k \in DOMAIN c.bitmaps : c.bitmaps[k] \in Bitmaps
    /\ \A k \in DOMAIN c.paths : c.paths[k] \in Paths
    /\ \A k \in DOMAIN c.widths : c.widths[k] \in Int

Typed ==
    /\ face \in Faces /\ vertical \in BOOLEAN
    /\ subst \in Substs /\ slot \in Glyph \cup {0}
    /\ cache = NoCache \/ IsCache(cache)

KeyOf(m, a, s, v) ==
    IF s = Plain /\ ~v THEN <<Rounded(m), a>> ELSE <<Rounded(m), a, s, v>>

(* What an entry was asked for, by its key.                                *)
BitmapAsked(f, key, bitmap) ==
    \E m \in Matrix, a \in Alias, g \in Glyph, s \in Substs, v \in BOOLEAN :
        /\ key = <<KeyOf(m, a, s, v), g>>
        /\ bitmap = RenderGlyph(f, g, m, a, s)
PathAsked(f, key, path) ==
    \E g \in Glyph, s \in Substs, v \in BOOLEAN :
        key = <<g, s, v>> /\ path = Outline(f, g, s)
WidthAsked(f, key, width) ==
    \E g \in Glyph, w \in Weight \cup {0} : key = <<g, w>> /\ width = Width(f, g, w)

EntriesAsked(c) ==
    /\ \A k \in DOMAIN c.bitmaps : BitmapAsked(c.face, k, c.bitmaps[k])
    /\ \A k \in DOMAIN c.paths : PathAsked(c.face, k, c.paths[k])
    /\ \A k \in DOMAIN c.widths : WidthAsked(c.face, k, c.widths[k])

EntriesFresh == CacheIsOfFace /\ (cache # NoCache => EntriesAsked(cache))

NothingDropped(c, d) ==
    Kept(c.bitmaps, d.bitmaps) /\ Kept(c.paths, d.paths) /\ Kept(c.widths, d.widths)

IndInv == Typed /\ EntriesFresh /\ AnswersAreFresh

-----------------------------------------------------------------------------
(* Maps and caches.                                                        *)

LEMMA PutKeeps ==
    ASSUME NEW map, NEW key, NEW value, key \notin DOMAIN map
    PROVE  Kept(map, Put(map, key, value))
BY DEF Kept, Put

LEMMA EntryStored ==
    ASSUME NEW c, IsCache(c), NEW x
    PROVE  /\ [c EXCEPT !.bitmaps = x]
                = [face |-> c.face, made |-> c.made, bitmaps |-> x, paths |-> c.paths,
                   widths |-> c.widths]
           /\ [c EXCEPT !.paths = x]
                = [face |-> c.face, made |-> c.made, bitmaps |-> c.bitmaps, paths |-> x,
                   widths |-> c.widths]
           /\ [c EXCEPT !.widths = x]
                = [face |-> c.face, made |-> c.made, bitmaps |-> c.bitmaps, paths |-> c.paths,
                   widths |-> x]
<1>1. ASSUME NEW f, NEW t, NEW b, NEW p, NEW w,
             c = [face |-> f, made |-> t, bitmaps |-> b, paths |-> p, widths |-> w]
      PROVE  /\ [c EXCEPT !.bitmaps = x]
                  = [face |-> f, made |-> t, bitmaps |-> x, paths |-> p, widths |-> w]
             /\ [c EXCEPT !.paths = x]
                  = [face |-> f, made |-> t, bitmaps |-> b, paths |-> x, widths |-> w]
             /\ [c EXCEPT !.widths = x]
                  = [face |-> f, made |-> t, bitmaps |-> b, paths |-> p, widths |-> x]
  BY <1>1
<1> QED
  BY <1>1, Zenon DEF IsCache

LEMMA NewCache ==
    ASSUME NEW f \in Faces
    PROVE  /\ IsCache(CacheOf(f)) /\ EntriesAsked(CacheOf(f))
           /\ CacheOf(f).face = f /\ CacheOf(f).made /\ CacheOf(f) # NoCache
<1>1. DOMAIN Nothing = {}
  BY DEF Nothing
<1>2. /\ CacheOf(f).face = f /\ CacheOf(f).bitmaps = Nothing /\ CacheOf(f).paths = Nothing
      /\ CacheOf(f).widths = Nothing
  BY DEF CacheOf
<1>3. CacheOf(f).made
  BY Zenon DEF CacheOf
<1>4. ~NoCache.made
  BY Zenon DEF NoCache
<1>5. CacheOf(f) = [face |-> CacheOf(f).face, made |-> CacheOf(f).made, bitmaps |-> CacheOf(f).bitmaps,
                    paths |-> CacheOf(f).paths, widths |-> CacheOf(f).widths]
  BY Zenon DEF CacheOf
<1> QED
  BY <1>1, <1>2, <1>3, <1>4, <1>5 DEF IsCache, EntriesAsked

-----------------------------------------------------------------------------
(* What the slot yields.                                                   *)

LEMMA BitmapYielded ==
    ASSUME NEW f \in Font, NEW g \in Glyph \cup {0}, NEW m \in Matrix, NEW a \in Alias,
           NEW s \in Substs
    PROVE  RenderGlyph(f, g, m, a, s) \in Bitmaps
<1>1. CASE FormatOf(f, g) = "bitmap"
  BY <1>1, FontAssumption DEF RenderGlyph, Bitmaps, FormatOf
<1>2. CASE FormatOf(f, g) # "bitmap" /\ FormatOf(f, g) = "outline"
  BY <1>2, FontAssumption DEF RenderGlyph, Bitmaps, FormatOf, Substs
<1>3. CASE FormatOf(f, g) # "bitmap" /\ FormatOf(f, g) # "outline"
  BY <1>3 DEF RenderGlyph, Bitmaps
<1> QED
  BY <1>1, <1>2, <1>3

LEMMA PathYielded ==
    ASSUME NEW f \in Font, NEW g \in Glyph \cup {0}, NEW s \in Substs,
           Outline(f, g, s) # Null
    PROVE  Outline(f, g, s) \in Paths
BY FontAssumption DEF Outline, Paths, FormatOf, Substs

LEMMA WidthYielded ==
    ASSUME NEW f \in Font, NEW g \in Glyph \cup {0}, NEW w \in Weight \cup {0}
    PROVE  Width(f, g, w) \in Int
<1>1. w \in Nat /\ (g # 0 => Advance[f][g] \in Int)
  BY FontAssumption, StyleAssumption
<1> QED
  BY <1>1 DEF Width

-----------------------------------------------------------------------------
(* Keeping an answer.                                                      *)

LEMMA BitmapKept ==
    ASSUME NEW c, IsCache(c), NEW key, key \notin DOMAIN c.bitmaps, NEW value, NEW d,
           d = [c EXCEPT !.bitmaps = Put(c.bitmaps, key, value)]
    PROVE  /\ d.face = c.face /\ d.made
           /\ value \in Bitmaps => IsCache(d)
           /\ EntriesAsked(c) /\ BitmapAsked(c.face, key, value) => EntriesAsked(d)
           /\ NothingDropped(c, d)
<1> DEFINE next == Put(c.bitmaps, key, value)
<1>1. /\ DOMAIN next = DOMAIN c.bitmaps \cup {key} /\ next[key] = value
      /\ \A k \in DOMAIN c.bitmaps : k # key => next[k] = c.bitmaps[k]
  BY DEF Put
<1>2. Kept(c.bitmaps, next)
  BY PutKeeps
<1> HIDE DEF next
<1>3. d = [face |-> c.face, made |-> c.made, bitmaps |-> next, paths |-> c.paths,
           widths |-> c.widths]
  BY EntryStored DEF next
<1>4. /\ d.face = c.face /\ d.made = c.made /\ d.bitmaps = next
      /\ d.paths = c.paths /\ d.widths = c.widths
  BY <1>3
<1>5. d = [face |-> d.face, made |-> d.made, bitmaps |-> d.bitmaps, paths |-> d.paths,
           widths |-> d.widths]
  BY <1>3, <1>4, Zenon
<1>6. d.made
  BY <1>4, Zenon DEF IsCache
<1>7. NothingDropped(c, d)
  BY <1>2, <1>4 DEF NothingDropped, Kept
<1> QED
  BY <1>1, <1>4, <1>5, <1>6, <1>7 DEF IsCache, EntriesAsked

LEMMA PathKept ==
    ASSUME NEW c, IsCache(c), NEW key, key \notin DOMAIN c.paths, NEW value, NEW d,
           d = [c EXCEPT !.paths = Put(c.paths, key, value)]
    PROVE  /\ d.face = c.face /\ d.made
           /\ value \in Paths => IsCache(d)
           /\ EntriesAsked(c) /\ PathAsked(c.face, key, value) => EntriesAsked(d)
           /\ NothingDropped(c, d)
<1> DEFINE next == Put(c.paths, key, value)
<1>1. /\ DOMAIN next = DOMAIN c.paths \cup {key} /\ next[key] = value
      /\ \A k \in DOMAIN c.paths : k # key => next[k] = c.paths[k]
  BY DEF Put
<1>2. Kept(c.paths, next)
  BY PutKeeps
<1> HIDE DEF next
<1>3. d = [face |-> c.face, made |-> c.made, bitmaps |-> c.bitmaps, paths |-> next,
           widths |-> c.widths]
  BY EntryStored DEF next
<1>4. /\ d.face = c.face /\ d.made = c.made /\ d.bitmaps = c.bitmaps
      /\ d.paths = next /\ d.widths = c.widths
  BY <1>3
<1>5. d = [face |-> d.face, made |-> d.made, bitmaps |-> d.bitmaps, paths |-> d.paths,
           widths |-> d.widths]
  BY <1>3, <1>4, Zenon
<1>6. d.made
  BY <1>4, Zenon DEF IsCache
<1>7. NothingDropped(c, d)
  BY <1>2, <1>4 DEF NothingDropped, Kept
<1> QED
  BY <1>1, <1>4, <1>5, <1>6, <1>7 DEF IsCache, EntriesAsked

LEMMA WidthKept ==
    ASSUME NEW c, IsCache(c), NEW key, key \notin DOMAIN c.widths, NEW value, NEW d,
           d = [c EXCEPT !.widths = Put(c.widths, key, value)]
    PROVE  /\ d.face = c.face /\ d.made
           /\ value \in Int => IsCache(d)
           /\ EntriesAsked(c) /\ WidthAsked(c.face, key, value) => EntriesAsked(d)
           /\ NothingDropped(c, d)
<1> DEFINE next == Put(c.widths, key, value)
<1>1. /\ DOMAIN next = DOMAIN c.widths \cup {key} /\ next[key] = value
      /\ \A k \in DOMAIN c.widths : k # key => next[k] = c.widths[k]
  BY DEF Put
<1>2. Kept(c.widths, next)
  BY PutKeeps
<1> HIDE DEF next
<1>3. d = [face |-> c.face, made |-> c.made, bitmaps |-> c.bitmaps, paths |-> c.paths,
           widths |-> next]
  BY EntryStored DEF next
<1>4. /\ d.face = c.face /\ d.made = c.made /\ d.bitmaps = c.bitmaps
      /\ d.paths = c.paths /\ d.widths = next
  BY <1>3
<1>5. d = [face |-> d.face, made |-> d.made, bitmaps |-> d.bitmaps, paths |-> d.paths,
           widths |-> d.widths]
  BY <1>3, <1>4, Zenon
<1>6. d.made
  BY <1>4, Zenon DEF IsCache
<1>7. NothingDropped(c, d)
  BY <1>2, <1>4 DEF NothingDropped, Kept
<1> QED
  BY <1>1, <1>4, <1>5, <1>6, <1>7 DEF IsCache, EntriesAsked

-----------------------------------------------------------------------------
(* Types.                                                                  *)

LEMMA FaceOfCache ==
    ASSUME Typed
    PROVE  /\ cache.face \in Faces
           /\ cache.face # NoFace => cache.face \in Font /\ IsCache(cache)
           /\ cache # NoCache <=> IsCache(cache)
           /\ cache.made <=> IsCache(cache)
<1>1. NoCache.face = NoFace
  BY DEF NoCache
<1>2. ~NoCache.made
  BY Zenon DEF NoCache
<1> QED
  BY <1>1, <1>2 DEF Typed, IsCache, Faces

LEMMA TypedFirst == Init => Typed
<1>1. Init => vertical \in BOOLEAN
  BY Zenon DEF Init
<1> QED
  BY <1>1 DEF Init, Typed, Faces, Substs

(* What a question leaves kept.                                            *)
LEMMA BitmapStep ==
    ASSUME Typed, NEW g \in Glyph, NEW m \in Matrix, NEW a \in Alias, LoadGlyphBitmap(g, m, a)
    PROVE  \/ cache' = cache
           \/ /\ IsCache(cache) /\ cache.face \in Font
              /\ <<SizeKey(m, a), g>> \notin DOMAIN cache.bitmaps
              /\ cache' = [cache EXCEPT !.bitmaps =
                              Put(cache.bitmaps, <<SizeKey(m, a), g>>,
                                  RenderGlyph(cache.face, slot, m, a, subst))]
<1>1. CASE cache.face = NoFace \/ <<SizeKey(m, a), g>> \in DOMAIN cache.bitmaps
  BY <1>1 DEF LoadGlyphBitmap
<1>2. CASE ~(cache.face = NoFace \/ <<SizeKey(m, a), g>> \in DOMAIN cache.bitmaps)
  <2>1. Bitmap(g, m, a) = RenderGlyph(cache.face, slot, m, a, subst)
    BY <1>2 DEF Bitmap
  <2>2. cache' = [cache EXCEPT !.bitmaps = Store(cache.bitmaps, SizeKey(m, a), g, Bitmap(g, m, a))]
    BY <1>2 DEF LoadGlyphBitmap
  <2> QED
    BY <1>2, <2>1, <2>2, FaceOfCache DEF Store
<1> QED
  BY <1>1, <1>2

LEMMA PathStep ==
    ASSUME Typed, NEW g \in Glyph, LoadGlyphPath(g)
    PROVE  \/ cache' = cache
           \/ /\ IsCache(cache) /\ cache.face \in Font
              /\ PathKey(g) \notin DOMAIN cache.paths
              /\ Outline(cache.face, slot, subst) # Null
              /\ cache' = [cache EXCEPT !.paths =
                              Put(cache.paths, PathKey(g), Outline(cache.face, slot, subst))]
<1>1. CASE Path(g) = Null \/ PathKey(g) \in DOMAIN cache.paths
  BY <1>1 DEF LoadGlyphPath
<1>2. CASE ~(Path(g) = Null \/ PathKey(g) \in DOMAIN cache.paths)
  <2>1. cache.face # NoFace /\ Path(g) = Outline(cache.face, slot, subst)
    BY <1>2 DEF Path
  <2>2. cache' = [cache EXCEPT !.paths = Put(cache.paths, PathKey(g), Path(g))]
    BY <1>2 DEF LoadGlyphPath
  <2> QED
    BY <1>2, <2>1, <2>2, FaceOfCache
<1> QED
  BY <1>1, <1>2

LEMMA WidthStep ==
    ASSUME Typed, NEW g \in Glyph, NEW w, KeepWidth(g, w)
    PROVE  \/ cache' = cache
           \/ /\ IsCache(cache) /\ cache.face \in Font
              /\ WidthKey(g, w) \notin DOMAIN cache.widths
              /\ cache' = [cache EXCEPT !.widths =
                              Put(cache.widths, WidthKey(g, w), Width(cache.face, slot, w))]
<1>1. CASE cache.face = NoFace \/ WidthKey(g, w) \in DOMAIN cache.widths
  BY <1>1 DEF KeepWidth
<1>2. CASE ~(cache.face = NoFace \/ WidthKey(g, w) \in DOMAIN cache.widths)
  <2>1. GlyphWidth(g, w) = Width(cache.face, slot, w)
    BY <1>2 DEF GlyphWidth
  <2>2. cache' = [cache EXCEPT !.widths = Put(cache.widths, WidthKey(g, w), GlyphWidth(g, w))]
    BY <1>2 DEF KeepWidth
  <2> QED
    BY <1>2, <2>1, <2>2, FaceOfCache
<1> QED
  BY <1>1, <1>2

LEMMA TypedStep ==
    ASSUME Typed, [Next]_vars
    PROVE  Typed'
<1>1. ASSUME NEW f \in Faces, NEW v \in BOOLEAN, LoadEmbedded(f, v)
      PROVE  Typed'
  BY <1>1, NewCache DEF LoadEmbedded, Typed
<1>2. ASSUME NEW v \in BOOLEAN, LoadThrows(v)
      PROVE  Typed'
  BY <1>2 DEF LoadThrows, Typed
<1>3. ASSUME NEW f \in Font, NEW s \in Style, NEW v \in BOOLEAN, LoadSubst(f, s, v)
      PROVE  Typed'
  BY <1>3, NewCache DEF LoadSubst, Typed, Faces, Substs
<1>4. CASE GetOrCreateGlyphCache
  BY <1>4, NewCache DEF GetOrCreateGlyphCache, Typed
<1>5. CASE ClearGlyphCache
  BY <1>5, NewCache, FaceOfCache DEF ClearGlyphCache, Typed
<1>6. ASSUME NEW g \in Glyph, FillSlot(g)
      PROVE  Typed'
  BY <1>6 DEF FillSlot, Typed
<1>7. ASSUME NEW g \in Glyph, NEW m \in Matrix, NEW a \in Alias, LoadGlyphBitmap(g, m, a)
      PROVE  Typed'
  <2>1. UNCHANGED <<face, subst, vertical, slot>>
    BY <1>7 DEF LoadGlyphBitmap, Asks
  <2>2. cache.face \in Font => RenderGlyph(cache.face, slot, m, a, subst) \in Bitmaps
    BY BitmapYielded DEF Typed
  <2>3. cache' = cache \/ IsCache(cache')
    <3> DEFINE key == <<SizeKey(m, a), g>>
               bitmap == RenderGlyph(cache.face, slot, m, a, subst)
    <3>1. \/ cache' = cache
          \/ /\ IsCache(cache) /\ cache.face \in Font /\ key \notin DOMAIN cache.bitmaps
             /\ cache' = [cache EXCEPT !.bitmaps = Put(cache.bitmaps, key, bitmap)]
      BY <1>7, BitmapStep
    <3> HIDE DEF key, bitmap
    <3> QED
      BY <2>2, <3>1, BitmapKept DEF bitmap
  <2> QED
    BY <2>1, <2>3 DEF Typed
<1>8. ASSUME NEW g \in Glyph, LoadGlyphPath(g)
      PROVE  Typed'
  <2>1. UNCHANGED <<face, subst, vertical, slot>>
    BY <1>8 DEF LoadGlyphPath, Asks
  <2>2. cache.face \in Font /\ Outline(cache.face, slot, subst) # Null
          => Outline(cache.face, slot, subst) \in Paths
    BY PathYielded DEF Typed
  <2>3. cache' = cache \/ IsCache(cache')
    <3> DEFINE key == PathKey(g)
               path == Outline(cache.face, slot, subst)
    <3>1. \/ cache' = cache
          \/ /\ IsCache(cache) /\ cache.face \in Font /\ path # Null
             /\ key \notin DOMAIN cache.paths
             /\ cache' = [cache EXCEPT !.paths = Put(cache.paths, key, path)]
      BY <1>8, PathStep
    <3> HIDE DEF key, path
    <3> QED
      BY <2>2, <3>1, PathKept DEF path
  <2> QED
    BY <2>1, <2>3 DEF Typed
<1>9. ASSUME NEW g \in Glyph, NEW w \in Weight \cup {0},
             KeepWidth(g, w), UNCHANGED <<face, subst, vertical, slot>>
      PROVE  Typed'
  <2>1. cache.face \in Font => Width(cache.face, slot, w) \in Int
    BY WidthYielded DEF Typed
  <2>2. cache' = cache \/ IsCache(cache')
    <3> DEFINE key == WidthKey(g, w)
               width == Width(cache.face, slot, w)
    <3>1. \/ cache' = cache
          \/ /\ IsCache(cache) /\ cache.face \in Font /\ key \notin DOMAIN cache.widths
             /\ cache' = [cache EXCEPT !.widths = Put(cache.widths, key, width)]
      BY <1>9, WidthStep
    <3> HIDE DEF key, width
    <3> QED
      BY <2>1, <3>1, WidthKept DEF width
  <2> QED
    BY <1>9, <2>2 DEF Typed
<1>10. ASSUME NEW g \in Glyph, GetGlyphWidth(g)
       PROVE  Typed'
  BY <1>9, <1>10 DEF GetGlyphWidth, Asks, Typed
<1>11. ASSUME NEW g \in Glyph, NEW w \in Weight, GetGlyphWidthAdjusted(g, w)
       PROVE  Typed'
  BY <1>9, <1>11 DEF GetGlyphWidthAdjusted, Asks
<1>12. CASE UNCHANGED vars
  BY <1>12 DEF vars, Typed
<1> QED
  BY <1>1, <1>2, <1>3, <1>4, <1>5, <1>6, <1>7, <1>8, <1>10, <1>11, <1>12 DEF Next, Faces

(* Every reachable state of a font and its cache is well typed, and no     *)
(* cache keeps a null (cfx_glyphcache.dart).                               *)
THEOREM TypeCorrect == Spec => []TypeOK
<1>1. Typed => TypeOK
  BY FaceOfCache DEF Typed, TypeOK, Faces, Substs, IsCache
<1> QED
  BY <1>1, TypedFirst, TypedStep, PTL DEF Spec

LEMMA AskKeeps ==
    ASSUME Typed, [Next]_vars, answer' # NoAnswer, cache.made
    PROVE  NothingDropped(cache, cache')
<1>1. cache' = cache => NothingDropped(cache, cache')
  BY DEF NothingDropped, Kept
<1>2. ASSUME NEW g \in Glyph, NEW m \in Matrix, NEW a \in Alias, LoadGlyphBitmap(g, m, a)
      PROVE  NothingDropped(cache, cache')
  <2> DEFINE key == <<SizeKey(m, a), g>>
             bitmap == RenderGlyph(cache.face, slot, m, a, subst)
  <2>1. \/ cache' = cache
        \/ /\ IsCache(cache) /\ key \notin DOMAIN cache.bitmaps
           /\ cache' = [cache EXCEPT !.bitmaps = Put(cache.bitmaps, key, bitmap)]
    BY <1>2, BitmapStep
  <2> HIDE DEF key, bitmap
  <2> QED
    BY <1>1, <2>1, BitmapKept
<1>3. ASSUME NEW g \in Glyph, LoadGlyphPath(g)
      PROVE  NothingDropped(cache, cache')
  <2> DEFINE key == PathKey(g)
             path == Outline(cache.face, slot, subst)
  <2>1. \/ cache' = cache
        \/ /\ IsCache(cache) /\ key \notin DOMAIN cache.paths
           /\ cache' = [cache EXCEPT !.paths = Put(cache.paths, key, path)]
    BY <1>3, PathStep
  <2> HIDE DEF key, path
  <2> QED
    BY <1>1, <2>1, PathKept
<1>4. ASSUME NEW g \in Glyph, NEW w, KeepWidth(g, w)
      PROVE  NothingDropped(cache, cache')
  <2> DEFINE key == WidthKey(g, w)
             width == Width(cache.face, slot, w)
  <2>1. \/ cache' = cache
        \/ /\ IsCache(cache) /\ key \notin DOMAIN cache.widths
           /\ cache' = [cache EXCEPT !.widths = Put(cache.widths, key, width)]
    BY <1>4, WidthStep
  <2> HIDE DEF key, width
  <2> QED
    BY <1>1, <2>1, WidthKept
<1>5. ASSUME NEW g \in Glyph, GetGlyphWidth(g)
      PROVE  cache' = cache \/ KeepWidth(g, 0)
  BY <1>5 DEF GetGlyphWidth
<1>6. ASSUME NEW g \in Glyph, NEW w \in Weight, GetGlyphWidthAdjusted(g, w)
      PROVE  KeepWidth(g, w)
  BY <1>6 DEF GetGlyphWidthAdjusted
<1>7. UNCHANGED vars => cache' = cache
  BY DEF vars
<1> QED
  BY <1>1, <1>2, <1>3, <1>4, <1>5, <1>6, <1>7
    DEF Next, LoadEmbedded, LoadThrows, LoadSubst, GetOrCreateGlyphCache, ClearGlyphCache, FillSlot

(* Asking for a glyph drops nothing that is kept (cfx_glyphcache.dart).    *)
THEOREM AskingDropsNothing == Spec => AskingKeeps
<1>1. Typed /\ [Next]_vars => [answer' # NoAnswer /\ cache.made =>
          /\ Kept(cache.bitmaps, cache'.bitmaps)
          /\ Kept(cache.paths, cache'.paths)
          /\ Kept(cache.widths, cache'.widths)]_vars
  BY AskKeeps DEF NothingDropped
<1> QED
  BY <1>1, TypedFirst, TypedStep, PTL DEF Spec, AskingKeeps

-----------------------------------------------------------------------------
(* Answers.                                                                *)

(* Keys tell styles apart, and matrices that round differently.            *)
LEMMA KeysDiffer ==
    ASSUME NEW m, NEW n, NEW a, NEW b, NEW s, NEW t, NEW v, NEW u,
           KeyOf(m, a, s, v) = KeyOf(n, b, t, u)
    PROVE  Rounded(m) = Rounded(n) /\ a = b /\ s = t
<1>1. ASSUME NEW c, NEW d, NEW e, NEW f, NEW g, NEW h
      PROVE  <<c, d>> # <<e, f, g, h>>
  <2>1. DOMAIN <<c, d>> # DOMAIN <<e, f, g, h>>
    <3>1. DOMAIN <<c, d>> = 1 .. 2 /\ DOMAIN <<e, f, g, h>> = 1 .. 4
      OBVIOUS
    <3> QED
      BY <3>1
  <2> QED
    BY <2>1
<1> QED
  BY <1>1 DEF KeyOf

LEMMA FreshFirst == Init => EntriesFresh /\ AnswersAreFresh
BY DEF Init, EntriesFresh, CacheIsOfFace, AnswersAreFresh

LEMMA BitmapFresh ==
    ASSUME LoadsFirst, IndInv,
           NEW g \in Glyph, NEW m \in Matrix, NEW a \in Alias, LoadGlyphBitmap(g, m, a)
    PROVE  EntriesFresh' /\ AnswersAreFresh'
<1> DEFINE size == SizeKey(m, a)
           key == <<size, g>>
           bitmap == RenderGlyph(cache.face, slot, m, a, subst)
<1>1. /\ slot = g /\ UNCHANGED <<face, subst, vertical>>
      /\ answer' = [kind |-> "bitmap", glyph |-> g, matrix |-> m, alias |-> a,
                    result |-> Bitmap(g, m, a)]
  BY DEF LoadGlyphBitmap, Asks
<1>2. /\ Typed /\ EntriesFresh /\ subst \in Substs /\ vertical \in BOOLEAN
      /\ size = KeyOf(m, a, subst, vertical)
  BY DEF IndInv, Typed, SizeKey, KeyOf
<1>3. \/ cache' = cache
      \/ /\ IsCache(cache) /\ key \notin DOMAIN cache.bitmaps
         /\ cache' = [cache EXCEPT !.bitmaps = Put(cache.bitmaps, key, bitmap)]
  BY <1>2, BitmapStep
<1>4. Bitmap(g, m, a) = IF cache.face = NoFace THEN Null
                        ELSE IF key \in DOMAIN cache.bitmaps THEN cache.bitmaps[key]
                        ELSE bitmap
  BY DEF Bitmap
<1> HIDE DEF size
<1>5. BitmapAsked(cache.face, key, bitmap)
  BY <1>1, <1>2 DEF BitmapAsked
<1>6. ASSUME NEW other, BitmapAsked(cache.face, key, other)
      PROVE  \E n \in Matrix : Rounded(n) = Rounded(m) /\ other = RenderGlyph(cache.face, g, n, a, subst)
  <2>1. PICK n \in Matrix, b \in Alias, h \in Glyph, s \in Substs, v \in BOOLEAN :
            key = <<KeyOf(n, b, s, v), h>> /\ other = RenderGlyph(cache.face, h, n, b, s)
    BY <1>6 DEF BitmapAsked
  <2>2. size = KeyOf(n, b, s, v) /\ g = h
    BY <2>1
  <2>3. Rounded(n) = Rounded(m) /\ b = a /\ s = subst
    <3>1. KeyOf(n, b, s, v) = KeyOf(m, a, subst, vertical)
      BY <1>2, <2>2
    <3> QED
      BY <3>1, KeysDiffer
  <2> QED
    BY <2>1, <2>2, <2>3
<1> HIDE DEF key, bitmap
<1>7. EntriesFresh'
  <2>1. CASE cache' = cache
    BY <1>1, <1>2, <2>1 DEF EntriesFresh, CacheIsOfFace
  <2>2. CASE /\ IsCache(cache) /\ key \notin DOMAIN cache.bitmaps
             /\ cache' = [cache EXCEPT !.bitmaps = Put(cache.bitmaps, key, bitmap)]
    <3>1. EntriesAsked(cache)
      BY <1>2, <2>2, FaceOfCache DEF EntriesFresh
    <3>2. /\ cache'.face = cache.face
          /\ EntriesAsked(cache) /\ BitmapAsked(cache.face, key, bitmap) => EntriesAsked(cache')
      BY <2>2, BitmapKept
    <3>3. cache'.made
      BY <2>2, BitmapKept, Zenon
    <3> QED
      BY <1>1, <1>2, <1>5, <3>1, <3>2, <3>3 DEF EntriesFresh, CacheIsOfFace
  <2> QED
    BY <1>3, <2>1, <2>2
<1>8. ASSUME face # NoFace
      PROVE  SameBitmap(Bitmap(g, m, a), g, m, a)
  <2>1. cache.face = face /\ EntriesAsked(cache)
    BY <1>2, <1>8, FaceOfCache DEF EntriesFresh, CacheIsOfFace
  <2>2. BitmapAsked(cache.face, key, Bitmap(g, m, a))
    BY <1>4, <1>5, <1>8, <2>1 DEF EntriesAsked
  <2> QED
    BY <1>6, <2>1, <2>2 DEF SameBitmap
<1>9. AnswersAreFresh'
  <2>1. /\ answer'.kind = "bitmap" /\ answer'.glyph = g /\ answer'.matrix = m
        /\ answer'.alias = a /\ answer'.result = Bitmap(g, m, a)
    BY <1>1
  <2>2. face # NoFace => SameBitmap(Bitmap(g, m, a), g, m, a)
    BY <1>8
  <2> QED
    BY <1>1, <2>1, <2>2 DEF AnswersAreFresh, SameBitmap
<1> QED
  BY <1>7, <1>9

LEMMA PathFresh ==
    ASSUME LoadsFirst, IndInv, NEW g \in Glyph, LoadGlyphPath(g)
    PROVE  EntriesFresh' /\ AnswersAreFresh'
<1> DEFINE key == PathKey(g)
           path == Outline(cache.face, slot, subst)
<1>1. /\ slot = g /\ UNCHANGED <<face, subst, vertical>>
      /\ answer' = [kind |-> "path", glyph |-> g, result |-> Path(g)]
  BY DEF LoadGlyphPath, Asks
<1>2. /\ Typed /\ EntriesFresh /\ subst \in Substs /\ vertical \in BOOLEAN
      /\ key = <<g, subst, vertical>>
  BY DEF IndInv, Typed, PathKey
<1>3. \/ cache' = cache
      \/ /\ IsCache(cache) /\ key \notin DOMAIN cache.paths
         /\ cache' = [cache EXCEPT !.paths = Put(cache.paths, key, path)]
  BY <1>2, PathStep
<1>4. Path(g) = IF cache.face = NoFace THEN Null
                ELSE IF key \in DOMAIN cache.paths THEN cache.paths[key] ELSE path
  BY DEF Path
<1>5. PathAsked(cache.face, key, path)
  BY <1>1, <1>2 DEF PathAsked
<1>6. ASSUME NEW other, PathAsked(cache.face, key, other)
      PROVE  other = Outline(cache.face, g, subst)
  BY <1>2, <1>6 DEF PathAsked
<1> HIDE DEF key, path
<1>7. EntriesFresh'
  <2>1. CASE cache' = cache
    BY <1>1, <1>2, <2>1 DEF EntriesFresh, CacheIsOfFace
  <2>2. CASE /\ IsCache(cache) /\ key \notin DOMAIN cache.paths
             /\ cache' = [cache EXCEPT !.paths = Put(cache.paths, key, path)]
    <3>1. EntriesAsked(cache)
      BY <1>2, <2>2, FaceOfCache DEF EntriesFresh
    <3>2. cache'.face = cache.face /\ EntriesAsked(cache')
      BY <1>5, <2>2, <3>1, PathKept
    <3>3. cache'.made
      BY <2>2, PathKept, Zenon
    <3> QED
      BY <1>1, <1>2, <3>2, <3>3 DEF EntriesFresh, CacheIsOfFace
  <2> QED
    BY <1>3, <2>1, <2>2
<1>8. ASSUME face # NoFace
      PROVE  Path(g) = Outline(face, g, subst)
  <2>1. cache.face = face /\ EntriesAsked(cache)
    BY <1>2, <1>8, FaceOfCache DEF EntriesFresh, CacheIsOfFace
  <2>2. PathAsked(cache.face, key, Path(g))
    BY <1>4, <1>5, <1>8, <2>1 DEF EntriesAsked
  <2> QED
    BY <1>6, <2>1, <2>2
<1>9. AnswersAreFresh'
  BY <1>1, <1>8 DEF AnswersAreFresh
<1> QED
  BY <1>7, <1>9

LEMMA WidthFresh ==
    ASSUME LoadsFirst, IndInv, NEW g \in Glyph, NEW w \in Weight \cup {0},
           Asks(g), KeepWidth(g, w)
    PROVE  /\ EntriesFresh'
           /\ face # NoFace => GlyphWidth(g, w) = Advance[face][g] + w \div 4
<1> DEFINE key == WidthKey(g, w)
           width == Width(cache.face, slot, w)
<1>1. slot = g /\ UNCHANGED <<face, subst, vertical>>
  BY DEF Asks
<1>2. Typed /\ EntriesFresh /\ key = <<g, w>>
  BY DEF IndInv, WidthKey
<1>3. \/ cache' = cache
      \/ /\ IsCache(cache) /\ key \notin DOMAIN cache.widths
         /\ cache' = [cache EXCEPT !.widths = Put(cache.widths, key, width)]
  BY <1>2, WidthStep
<1>4. GlyphWidth(g, w) = IF cache.face = NoFace THEN 0
                         ELSE IF key \in DOMAIN cache.widths THEN cache.widths[key] ELSE width
  BY DEF GlyphWidth
<1>5. WidthAsked(cache.face, key, width)
  BY <1>1, <1>2 DEF WidthAsked
<1>6. ASSUME NEW other, WidthAsked(cache.face, key, other)
      PROVE  other = Width(cache.face, g, w)
  BY <1>2, <1>6 DEF WidthAsked
<1> HIDE DEF key, width
<1>7. EntriesFresh'
  <2>1. CASE cache' = cache
    BY <1>1, <1>2, <2>1 DEF EntriesFresh, CacheIsOfFace
  <2>2. CASE /\ IsCache(cache) /\ key \notin DOMAIN cache.widths
             /\ cache' = [cache EXCEPT !.widths = Put(cache.widths, key, width)]
    <3>1. EntriesAsked(cache)
      BY <1>2, <2>2, FaceOfCache DEF EntriesFresh
    <3>2. cache'.face = cache.face /\ EntriesAsked(cache')
      BY <1>5, <2>2, <3>1, WidthKept
    <3>3. cache'.made
      BY <2>2, WidthKept, Zenon
    <3> QED
      BY <1>1, <1>2, <3>2, <3>3 DEF EntriesFresh, CacheIsOfFace
  <2> QED
    BY <1>3, <2>1, <2>2
<1>8. ASSUME face # NoFace
      PROVE  GlyphWidth(g, w) = Advance[face][g] + w \div 4
  <2>1. cache.face = face /\ EntriesAsked(cache)
    BY <1>2, <1>8, FaceOfCache DEF EntriesFresh, CacheIsOfFace
  <2>2. WidthAsked(cache.face, key, GlyphWidth(g, w))
    BY <1>4, <1>5, <1>8, <2>1 DEF EntriesAsked
  <2>3. GlyphWidth(g, w) = Width(face, g, w) /\ g # 0
    BY <1>6, <2>1, <2>2, FontAssumption
  <2> QED
    BY <2>3 DEF Width
<1> QED
  BY <1>7, <1>8

LEMMA FreshStep ==
    ASSUME LoadsFirst, IndInv, [Next]_vars
    PROVE  EntriesFresh' /\ AnswersAreFresh'
<1>1. /\ Typed /\ EntriesFresh /\ face \in Faces
      /\ NoAnswer.kind = "none"
  BY DEF IndInv, Typed, NoAnswer
<1>2. answer' = NoAnswer => AnswersAreFresh'
  BY DEF AnswersAreFresh, NoAnswer
<1>3. ASSUME NEW f \in Faces, NEW v \in BOOLEAN, LoadEmbedded(f, v)
      PROVE  EntriesFresh' /\ AnswersAreFresh'
  <2>1. CASE f = NoFace
    BY <1>1, <1>2, <1>3, <2>1 DEF LoadEmbedded, EntriesFresh, CacheIsOfFace
  <2>2. CASE f # NoFace
    <3>1. cache' = CacheOf(f) /\ face' = f /\ answer' = NoAnswer
      BY <1>3, <2>2 DEF LoadEmbedded
    <3> QED
      BY <1>2, <3>1, NewCache DEF EntriesFresh, CacheIsOfFace
  <2> QED
    BY <2>1, <2>2
<1>4. ASSUME NEW v \in BOOLEAN, LoadThrows(v)
      PROVE  EntriesFresh' /\ AnswersAreFresh'
  BY <1>1, <1>2, <1>4 DEF LoadThrows, EntriesFresh, CacheIsOfFace
<1>5. ASSUME NEW f \in Font, NEW s \in Style, NEW v \in BOOLEAN, LoadSubst(f, s, v)
      PROVE  EntriesFresh' /\ AnswersAreFresh'
  <2>1. cache' = CacheOf(f) /\ face' = f /\ answer' = NoAnswer /\ f \in Faces
    BY <1>5 DEF LoadSubst, Faces
  <2> QED
    BY <1>2, <2>1, NewCache DEF EntriesFresh, CacheIsOfFace
<1>6. CASE GetOrCreateGlyphCache
  <2>1. cache' = CacheOf(face) /\ face' = face /\ answer' = NoAnswer
    BY <1>6 DEF GetOrCreateGlyphCache
  <2> QED
    BY <1>1, <1>2, <2>1, NewCache DEF EntriesFresh, CacheIsOfFace
<1>7. CASE ClearGlyphCache
  <2>1. /\ cache' = CacheOf(cache.face) /\ face' = face /\ answer' = NoAnswer
        /\ cache.face \in Faces
    BY <1>1, <1>7, FaceOfCache DEF ClearGlyphCache
  <2> QED
    BY <1>1, <1>2, <2>1, NewCache DEF EntriesFresh, CacheIsOfFace
<1>8. ASSUME NEW g \in Glyph, FillSlot(g)
      PROVE  EntriesFresh' /\ AnswersAreFresh'
  BY <1>1, <1>2, <1>8 DEF FillSlot, EntriesFresh, CacheIsOfFace
<1>9. ASSUME NEW g \in Glyph, GetGlyphWidth(g)
      PROVE  EntriesFresh' /\ AnswersAreFresh'
  <2>1. CASE face = NoFace
    BY <1>1, <1>9, <2>1 DEF GetGlyphWidth, Asks, EntriesFresh, CacheIsOfFace, AnswersAreFresh
  <2>2. CASE face # NoFace
    <3>1. /\ Asks(g) /\ KeepWidth(g, 0) /\ face' = face
          /\ answer' = [kind |-> "width", glyph |-> g, weight |-> 0, result |-> GlyphWidth(g, 0)]
      BY <1>9, <2>2 DEF GetGlyphWidth, Asks
    <3>2. EntriesFresh' /\ (face # NoFace => GlyphWidth(g, 0) = Advance[face][g] + 0 \div 4)
      BY <3>1, WidthFresh
    <3> QED
      BY <3>1, <3>2 DEF AnswersAreFresh
  <2> QED
    BY <2>1, <2>2
<1>10. ASSUME NEW g \in Glyph, NEW w \in Weight, GetGlyphWidthAdjusted(g, w)
       PROVE  EntriesFresh' /\ AnswersAreFresh'
  <2>1. /\ Asks(g) /\ KeepWidth(g, w) /\ face' = face
        /\ answer' = [kind |-> "width", glyph |-> g, weight |-> w, result |-> GlyphWidth(g, w)]
    BY <1>10 DEF GetGlyphWidthAdjusted, Asks
  <2>2. EntriesFresh' /\ (face # NoFace => GlyphWidth(g, w) = Advance[face][g] + w \div 4)
    BY <2>1, WidthFresh
  <2> QED
    BY <2>1, <2>2 DEF AnswersAreFresh
<1>11. CASE UNCHANGED vars
  BY <1>11 DEF vars, IndInv, EntriesFresh, CacheIsOfFace, AnswersAreFresh, SameBitmap
<1> QED
  BY <1>3, <1>4, <1>5, <1>6, <1>7, <1>8, <1>9, <1>10, <1>11, BitmapFresh, PathFresh
    DEF Next, Faces

(* Where callers fill the glyph slot before they ask, a font that has a    *)
(* face answers what that face yields for the question, whatever was       *)
(* asked, loaded and cleared before (cfx_font.dart, cfx_glyphcache.dart).  *)
THEOREM GlyphsAreFresh == LoadsFirst => (Spec => []AnswersAreFresh)
<1> SUFFICES ASSUME LoadsFirst PROVE Spec => []AnswersAreFresh
  OBVIOUS
<1>1. Init => IndInv
  BY TypedFirst, FreshFirst DEF IndInv
<1>2. IndInv /\ [Next]_vars => IndInv'
  BY TypedStep, FreshStep DEF IndInv
<1>3. IndInv => AnswersAreFresh
  BY DEF IndInv
<1> QED
  BY <1>1, <1>2, <1>3, PTL DEF Spec

-----------------------------------------------------------------------------
(* RenderDevice.                                                           *)

StacksAgree ==
    IF driver
    THEN /\ clipRgn.box = clipBox
         /\ Len(driverStack) = Len(stateStack)
         /\ \A i \in 1 .. Len(stateStack) : driverStack[i].box = stateStack[i]
    ELSE clipRgn = RectRegion(Zero) /\ driverStack = <<>>

DeviceInv == DeviceTypeOK /\ StacksAgree

-----------------------------------------------------------------------------
(* Operators.                                                              *)

LEMMA WholeIsRect ==
    ASSUME NEW s \in Sizes
    PROVE  Whole(s) \in Rect
BY SizesAssumption DEF Whole, Rect

LEMMA RectIntersection ==
    ASSUME NEW a \in Rect, NEW b \in Rect
    PROVE  Intersection(a, b) \in Rect
BY DEF Intersection, Rect, Larger, Smaller

(* A pixel is in the intersection exactly if it is in both rectangles,     *)
(* inverted ones included.                                                 *)
LEMMA PixelsOfIntersection ==
    ASSUME NEW a \in Rect, NEW b \in Rect
    PROVE  Pixels(Intersection(a, b)) = Pixels(a) \cap Pixels(b)
<1>1. ASSUME NEW l \in Int, NEW m \in Int, NEW r \in Int, NEW s \in Int
      PROVE  Larger(l, m) .. Smaller(r, s) - 1 = (l .. r - 1) \cap (m .. s - 1)
  BY DEF Larger, Smaller
<1>2. /\ Larger(a.left, b.left) .. Smaller(a.right, b.right) - 1
            = (a.left .. a.right - 1) \cap (b.left .. b.right - 1)
      /\ Larger(a.top, b.top) .. Smaller(a.bottom, b.bottom) - 1
            = (a.top .. a.bottom - 1) \cap (b.top .. b.bottom - 1)
  BY <1>1 DEF Rect
<1> QED
  BY <1>2 DEF Pixels, Intersection

LEMMA EmptyHasNoPixels ==
    ASSUME NEW r \in Rect, IsEmpty(r)
    PROVE  Pixels(r) = {}
BY DEF IsEmpty, Pixels, Rect

LEMMA RegionIntersection ==
    ASSUME NEW region \in Region, NEW r \in Rect
    PROVE  /\ IntersectRect(region, r) \in Region
           /\ IntersectRect(region, r).box = Intersection(region.box, r)
           /\ Reached(IntersectRect(region, r)) = Reached(region) \cap Pixels(r)
<1>1. region.box \in Rect /\ region.masked \in BOOLEAN
  BY DEF Region
<1>2. Intersection(region.box, r) \in Rect
  BY <1>1, RectIntersection
<1>3. IntersectRect(region, r) \in Region
  BY <1>1, <1>2 DEF IntersectRect, Region
<1>4. Pixels(Intersection(region.box, r)) = Pixels(region.box) \cap Pixels(r)
  BY <1>1, PixelsOfIntersection
<1>5. IsEmpty(Intersection(region.box, r)) => Pixels(Intersection(region.box, r)) = {}
  BY <1>2, EmptyHasNoPixels
<1> QED
  BY <1>1, <1>3, <1>4, <1>5 DEF IntersectRect, Reached

LEMMA NothingReachedAtFirst == Reached(RectRegion(Zero)) = {}
BY DEF Reached, RectRegion, Zero, Pixels

-----------------------------------------------------------------------------
(* The two stacks.                                                         *)

LEMMA StackTop ==
    ASSUME NEW S, NEW s \in Seq(S), s # <<>>
    PROVE  /\ Last(s) \in S /\ Front(s) \in Seq(S)
           /\ Len(s) \in Nat \ {0} /\ Len(Front(s)) = Len(s) - 1
           /\ \A i \in 1 .. Len(s) - 1 : Front(s)[i] = s[i]
<1>1. Len(s) \in Nat \ {0} /\ \A i \in 1 .. Len(s) : s[i] \in S
  BY EmptySeq, ElementOfSeq
<1>2. PICK m \in Nat : m = Len(s) - 1
  BY <1>1
<1>3. /\ SubSeq(s, 1, m) \in Seq(S)
      /\ Len(SubSeq(s, 1, m)) = IF 1 <= m THEN m - 1 + 1 ELSE 0
      /\ \A i \in 1 .. m - 1 + 1 : SubSeq(s, 1, m)[i] = s[1 + i - 1]
  BY <1>1, <1>2, SubSeqProperties
<1> QED
  BY <1>1, <1>2, <1>3 DEF Last, Front

LEMMA DeviceInitially == DeviceInit => DeviceInv
<1> SUFFICES ASSUME DeviceInit PROVE DeviceInv
  OBVIOUS
<1>1. Zero \in Rect
  BY DEF Zero, Rect
<1>2. RectRegion(Zero) \in Region
  BY <1>1 DEF RectRegion, Region
<1>3. driver \in BOOLEAN
  BY DEF DeviceInit
<1>4. <<>> \in Seq(Rect) /\ <<>> \in Seq(Region)
  BY EmptySeq
<1>5. DeviceTypeOK
  BY <1>1, <1>2, <1>3, <1>4, Zenon DEF DeviceInit, DeviceTypeOK
<1> QED
  BY <1>5 DEF DeviceInit, DeviceInv, StacksAgree

LEMMA DeviceInductive ==
    ASSUME DeviceInv, [DeviceNext]_deviceVars
    PROVE  DeviceInv'
<1> USE DEF DeviceInv
<1>1. ASSUME NEW size \in Sizes, Between, SetBitmap(size)
      PROVE  DeviceInv'
  BY <1>1, WholeIsRect DEF Between, SetBitmap, DeviceTypeOK, StacksAgree, RectRegion, Region
<1>2. CASE SaveState
  <2>1. stateStack' = Append(stateStack, clipBox) /\ UNCHANGED <<clipBox, driver, clipRgn>>
    BY <1>2 DEF SaveState
  <2>2. CASE driver
    <3>1. driverStack' = Append(driverStack, clipRgn)
      BY <1>2, <2>2 DEF SaveState
    <3>2. DeviceTypeOK'
      BY <2>1, <3>1 DEF DeviceTypeOK
    <3>3. Len(driverStack') = Len(stateStack')
      BY <2>1, <2>2, <3>1 DEF DeviceTypeOK, StacksAgree
    <3>4. \A i \in 1 .. Len(stateStack') : driverStack'[i].box = stateStack'[i]
      BY <2>1, <2>2, <3>1 DEF DeviceTypeOK, StacksAgree
    <3> QED
      BY <2>1, <2>2, <3>2, <3>3, <3>4 DEF StacksAgree
  <2>3. CASE ~driver
    BY <1>2, <2>1, <2>3 DEF SaveState, DeviceTypeOK, StacksAgree
  <2> QED
    BY <2>2, <2>3
<1>3. ASSUME NEW keepSaved \in BOOLEAN, RestoreState(keepSaved)
      PROVE  DeviceInv'
  <2>1. /\ stateStack # <<>> /\ clipBox' = Last(stateStack) /\ driver' = driver
        /\ stateStack' = IF keepSaved THEN stateStack ELSE Front(stateStack)
    BY <1>3 DEF RestoreState
  <2>2. clipBox' \in Rect /\ stateStack' \in Seq(Rect)
    BY <2>1, StackTop DEF DeviceTypeOK
  <2>3. CASE driver
    <3>1. driverStack # <<>>
      BY <2>1, <2>3, StackTop DEF DeviceTypeOK, StacksAgree
    <3>2. /\ clipRgn' = Last(driverStack)
          /\ driverStack' = IF keepSaved THEN driverStack ELSE Front(driverStack)
      BY <1>3, <2>3, <3>1 DEF RestoreState, RestoreDriver
    <3>3. clipRgn' \in Region /\ driverStack' \in Seq(Region)
      BY <3>1, <3>2, StackTop DEF DeviceTypeOK
    <3>4. clipRgn'.box = clipBox'
      BY <2>1, <2>3, <3>1, <3>2, StackTop DEF DeviceTypeOK, StacksAgree, Last
    <3>5. Len(driverStack') = Len(stateStack')
      BY <2>1, <2>3, <3>1, <3>2, StackTop DEF DeviceTypeOK, StacksAgree
    <3>6. \A i \in 1 .. Len(stateStack') : driverStack'[i].box = stateStack'[i]
      <4>1. CASE keepSaved
        BY <4>1, <2>1, <2>3, <3>2 DEF StacksAgree
      <4>2. CASE ~keepSaved
        <5>1. stateStack' = Front(stateStack) /\ driverStack' = Front(driverStack)
          BY <4>2, <2>1, <3>2
        <5>2. /\ Len(stateStack') = Len(stateStack) - 1
              /\ \A i \in 1 .. Len(stateStack) - 1 :
                    stateStack'[i] = stateStack[i] /\ driverStack'[i] = driverStack[i]
          BY <5>1, <2>1, <2>3, <3>1, StackTop DEF DeviceTypeOK, StacksAgree
        <5>3. Len(stateStack) \in Nat
          BY DEF DeviceTypeOK
        <5> QED
          BY <5>2, <5>3, <2>3 DEF StacksAgree
      <4> QED
        BY <4>1, <4>2
    <3> QED
      BY <2>1, <2>2, <2>3, <3>3, <3>4, <3>5, <3>6 DEF DeviceTypeOK, StacksAgree
  <2>4. CASE ~driver
    BY <1>3, <2>1, <2>2, <2>4 DEF RestoreState, RestoreDriver, DeviceTypeOK, StacksAgree
  <2> QED
    BY <2>3, <2>4
<1>4. ASSUME NEW r \in Rects, SetClipRect(r)
      PROVE  DeviceInv'
  <2>1. r \in Rect
    BY RectsAssumption DEF Rect
  <2> QED
    BY <1>4, <2>1, RectIntersection, RegionIntersection DEF SetClipRect, DeviceTypeOK, StacksAgree
<1>5. ASSUME NEW covers \in BOOLEAN, SetClipPathFill(covers)
      PROVE  DeviceInv'
  BY <1>5 DEF SetClipPathFill, DeviceTypeOK, StacksAgree, Region
<1>6. CASE UNCHANGED deviceVars
  BY <1>6 DEF deviceVars, DeviceTypeOK, StacksAgree
<1> QED
  BY <1>1, <1>2, <1>3, <1>4, <1>5, <1>6 DEF DeviceNext

(* Every reachable state of a device is well typed.                        *)
THEOREM DeviceTypeCorrect == DeviceSpec => []DeviceTypeOK
<1>1. DeviceInv => DeviceTypeOK
  BY DEF DeviceInv
<1> QED
  BY <1>1, DeviceInitially, DeviceInductive, PTL DEF DeviceSpec

(* Device and driver agree on the clip box through all saves, restores and *)
(* clips (cfx_renderdevice.dart:90, cfx_agg_devicedriver.dart:223).        *)
THEOREM DeviceAndDriverAgree == DeviceSpec => []BoxesAgree
<1>1. DeviceInv => BoxesAgree
  BY DEF DeviceInv, StacksAgree, BoxesAgree
<1> QED
  BY <1>1, DeviceInitially, DeviceInductive, PTL DEF DeviceSpec

-----------------------------------------------------------------------------
(* The refinement of ClipRegion.                                           *)

Saved(s) == [i \in 1 .. Len(s) |-> Reached(s[i])]

LEMMA SavedIsSeq ==
    ASSUME NEW s \in Seq(Region)
    PROVE  /\ Saved(s) \in Seq(SUBSET (Int \X Int))
           /\ Len(Saved(s)) = Len(s)
           /\ \A i \in 1 .. Len(s) : Saved(s)[i] = Reached(s[i])
<1>1. \A i \in 1 .. Len(s) : s[i] \in Region
  BY ElementOfSeq
<1>2. \A region \in Region : Reached(region) \in SUBSET (Int \X Int)
  BY DEF Reached, Region, Rect, Pixels
<1> QED
  BY <1>1, <1>2 DEF Saved

LEMMA SavedAppend ==
    ASSUME NEW s \in Seq(Region), NEW region \in Region
    PROVE  Saved(Append(s, region)) = Append(Saved(s), Reached(region))
<1>1. Append(s, region) \in Seq(Region) /\ Reached(region) \in SUBSET (Int \X Int)
  BY DEF Reached, Region, Rect, Pixels
<1>2. Len(Append(s, region)) = Len(s) + 1 /\ Len(s) \in Nat
      /\ Append(s, region)[Len(s) + 1] = region
      /\ \A i \in 1 .. Len(s) : Append(s, region)[i] = s[i]
  BY AppendProperties
<1>3. /\ Saved(s) \in Seq(SUBSET (Int \X Int)) /\ Len(Saved(s)) = Len(s)
      /\ \A i \in 1 .. Len(s) : Saved(s)[i] = Reached(s[i])
  BY SavedIsSeq
<1>4. /\ Saved(Append(s, region)) \in Seq(SUBSET (Int \X Int))
      /\ Len(Saved(Append(s, region))) = Len(s) + 1
      /\ \A i \in 1 .. Len(s) + 1 : Saved(Append(s, region))[i] = Reached(Append(s, region)[i])
  BY <1>1, <1>2, SavedIsSeq
<1>5. /\ Append(Saved(s), Reached(region)) \in Seq(SUBSET (Int \X Int))
      /\ Len(Append(Saved(s), Reached(region))) = Len(s) + 1
      /\ Append(Saved(s), Reached(region))[Len(s) + 1] = Reached(region)
      /\ \A i \in 1 .. Len(s) : Append(Saved(s), Reached(region))[i] = Saved(s)[i]
  BY <1>1, <1>3, AppendProperties
<1>6. \A i \in 1 .. Len(s) + 1 :
          Saved(Append(s, region))[i] = Append(Saved(s), Reached(region))[i]
  BY <1>2, <1>3, <1>4, <1>5
<1> QED
  BY <1>4, <1>5, <1>6, SeqEqual

LEMMA SavedFront ==
    ASSUME NEW s \in Seq(Region), s # <<>>
    PROVE  Saved(Front(s)) = Front(Saved(s))
<1>1. /\ Front(s) \in Seq(Region) /\ Len(s) \in Nat \ {0} /\ Len(Front(s)) = Len(s) - 1
      /\ \A i \in 1 .. Len(s) - 1 : Front(s)[i] = s[i]
  BY StackTop
<1>2. Saved(s) \in Seq(SUBSET (Int \X Int)) /\ Saved(s) # <<>>
  BY <1>1, SavedIsSeq
<1>3. /\ Front(Saved(s)) \in Seq(SUBSET (Int \X Int)) /\ Len(Front(Saved(s))) = Len(s) - 1
      /\ \A i \in 1 .. Len(s) - 1 : Front(Saved(s))[i] = Saved(s)[i]
  BY <1>2, StackTop, SavedIsSeq
<1>4. Saved(Front(s)) \in Seq(SUBSET (Int \X Int)) /\ Len(Saved(Front(s))) = Len(s) - 1
  BY <1>1, SavedIsSeq
<1>5. \A i \in 1 .. Len(s) - 1 : Saved(Front(s))[i] = Front(Saved(s))[i]
  <2> TAKE i \in 1 .. Len(s) - 1
  <2>1. i \in 1 .. Len(s) /\ i \in 1 .. Len(Front(s)) /\ Front(s)[i] = s[i]
    BY <1>1
  <2>2. Saved(Front(s))[i] = Reached(Front(s)[i]) /\ Saved(s)[i] = Reached(s[i])
    BY <1>1, <2>1, SavedIsSeq
  <2> QED
    BY <1>3, <2>1, <2>2
<1> QED
  BY <1>3, <1>4, <1>5, SeqEqual

LEMMA StepOfClip ==
    ASSUME DeviceInv, [DeviceNext]_deviceVars
    PROVE  [Clip!ClipNext]_(Clip!clipVars)
<1> DEFINE clip == Reached(clipRgn)
<1>0. DeviceInv' /\ DeviceTypeOK /\ DeviceTypeOK'
  BY DeviceInductive DEF DeviceInv
<1> USE DEF DeviceInv
<1>u. ASSUME UNCHANGED <<clipRgn, driverStack>>
      PROVE  UNCHANGED Clip!clipVars
  BY <1>u DEF Clip!clipVars
<1>1. ASSUME NEW size \in Sizes, Between, SetBitmap(size)
      PROVE  Clip!NewBitmap
  <2>1. driverStack = <<>> /\ driverStack' = <<>>
    BY <1>1 DEF Between, SetBitmap, DeviceTypeOK, StacksAgree
  <2>2. Reached(clipRgn)' = Pixels(Whole(size))
    BY <1>1 DEF SetBitmap, Reached, RectRegion
  <2> QED
    BY <2>1, <2>2 DEF Clip!NewBitmap
<1>2. CASE SaveState
  <2>1. CASE driver
    <3>1. clipRgn' = clipRgn /\ driverStack' = Append(driverStack, clipRgn)
      BY <1>2, <2>1 DEF SaveState
    <3>2. Saved(driverStack') = Append(Saved(driverStack), clip)
      BY <3>1, <1>0, SavedAppend DEF DeviceTypeOK
    <3> QED
      BY <3>1, <3>2 DEF Clip!ClipNext, Clip!Save, Saved
  <2>2. CASE ~driver
    BY <1>2, <2>2, <1>u DEF SaveState
  <2> QED
    BY <2>1, <2>2
<1>3. ASSUME NEW keepSaved \in BOOLEAN, RestoreState(keepSaved)
      PROVE  [Clip!ClipNext]_(Clip!clipVars)
  <2>1. CASE driver /\ driverStack # <<>>
    <3>1. /\ clipRgn' = Last(driverStack)
          /\ driverStack' = IF keepSaved THEN driverStack ELSE Front(driverStack)
      BY <1>3, <2>1 DEF RestoreState, RestoreDriver
    <3>2. /\ Saved(driverStack) # <<>> /\ Len(Saved(driverStack)) = Len(driverStack)
          /\ Len(driverStack) \in Nat \ {0}
      BY <2>1, <1>0, SavedIsSeq, StackTop, SMTT(30) DEF DeviceTypeOK
    <3>3. clip' = Saved(driverStack)[Len(Saved(driverStack))]
      BY <3>1, <3>2, SMTT(30) DEF Saved, Last
    <3>4. Saved(driverStack')
             = IF keepSaved THEN Saved(driverStack)
               ELSE SubSeq(Saved(driverStack), 1, Len(Saved(driverStack)) - 1)
      BY <3>1, <2>1, <1>0, SavedFront DEF DeviceTypeOK, Front
    <3>5. Clip!Restore(keepSaved)
      BY <3>2, <3>3, <3>4 DEF Clip!Restore, Saved
    <3> QED
      BY <3>5 DEF Clip!ClipNext
  <2>2. CASE ~driver \/ driverStack = <<>>
    BY <1>3, <2>2, <1>u DEF RestoreState, RestoreDriver
  <2> QED
    BY <2>1, <2>2
<1>4. ASSUME NEW r \in Rects, SetClipRect(r)
      PROVE  [Clip!ClipNext]_(Clip!clipVars)
  <2>1. r \in Rect /\ clipRgn \in Region
    BY <1>0, RectsAssumption DEF Rect, DeviceTypeOK
  <2>2. CASE driver
    <3>1. clip' = clip \cap Pixels(r) /\ driverStack' = driverStack
      BY <1>4, <2>1, <2>2, RegionIntersection DEF SetClipRect
    <3>2. Clip!Intersect(Pixels(r))
      BY <3>1 DEF Clip!Intersect
    <3> QED
      BY <3>2 DEF Clip!ClipNext
  <2>3. CASE ~driver
    BY <1>4, <2>3, <1>u DEF SetClipRect
  <2> QED
    BY <2>2, <2>3
<1>5. ASSUME NEW covers \in BOOLEAN, SetClipPathFill(covers)
      PROVE  [Clip!ClipNext]_(Clip!clipVars)
  <2>1. CASE clipRgn' = clipRgn
    BY <1>5, <2>1, <1>u DEF SetClipPathFill
  <2>2. CASE clipRgn' # clipRgn
    <3>1. clip' = {} /\ driverStack' = driverStack
      BY <1>5, <2>2, <1>0 DEF SetClipPathFill, Reached, DeviceTypeOK, Region
    <3>2. Clip!Intersect({})
      BY <3>1 DEF Clip!Intersect
    <3> QED
      BY <3>2 DEF Clip!ClipNext
  <2> QED
    BY <2>1, <2>2
<1>6. CASE UNCHANGED deviceVars
  BY <1>6, <1>u DEF deviceVars
<1> QED
  BY <1>1, <1>2, <1>3, <1>4, <1>5, <1>6 DEF DeviceNext, Clip!ClipNext

(* What fills reach shrinks with each clip and comes back with the restore *)
(* that belongs to the save: the device implements ClipRegion              *)
(* (cfx_renderdevice.dart:109, 117).                                       *)
THEOREM DeviceImplementsClip == DeviceSpec => ClipsNest
<1>1. DeviceInit => Clip!ClipInit
  BY NothingReachedAtFirst DEF DeviceInit, Clip!ClipInit
<1> QED
  BY <1>1, DeviceInitially, DeviceInductive, StepOfClip, PTL DEF DeviceSpec, ClipsNest, Clip!ClipSpec
=============================================================================
