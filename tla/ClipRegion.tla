----------------------------- MODULE ClipRegion -----------------------------
(***************************************************************************)
(* What the clip of a render device promises: it only shrinks, and a       *)
(* restore gives back the clip at the save it belongs to                   *)
(* (lib/src/pdfium/fxge/cfx_renderdevice.dart).                            *)
(***************************************************************************)
EXTENDS Naturals, Sequences

CONSTANTS
    Pixel,   \* all pixels
    Bitmaps, \* the sets of pixels bitmaps may have
    Areas    \* the sets of pixels a clip may be intersected with

VARIABLES
    clip,  \* the pixels that may be painted
    saved  \* the clips saved, the last one last

clipVars == <<clip, saved>>

ClipInit == clip = {} /\ saved = <<>>

(* A bitmap is set between frames of saved states only.                    *)
NewBitmap == saved = <<>> /\ clip' \in Bitmaps /\ saved' = <<>>

Save == saved' = Append(saved, clip) /\ UNCHANGED clip

Restore(keepSaved) ==
    /\ saved # <<>>
    /\ clip' = saved[Len(saved)]
    /\ saved' = IF keepSaved THEN saved ELSE SubSeq(saved, 1, Len(saved) - 1)

Intersect(area) == clip' = clip \cap area /\ UNCHANGED saved

ClipNext ==
    \/ NewBitmap \/ Save
    \/ \E keepSaved \in BOOLEAN : Restore(keepSaved)
    \/ \E area \in Areas : Intersect(area)

ClipSpec == ClipInit /\ [][ClipNext]_clipVars
=============================================================================
