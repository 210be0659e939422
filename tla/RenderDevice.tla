---------------------------- MODULE RenderDevice ----------------------------
(***************************************************************************)
(* CFX_RenderDevice (lib/src/pdfium/fxge/cfx_renderdevice.dart) over       *)
(* CfxAggDeviceDriver and CfxAggClipRgn (cfx_agg_devicedriver.dart): the   *)
(* clip box of the device, the clip region of the driver, a stack of saved *)
(* states of each, and where a painting gets through.                      *)
(*                                                                         *)
(* A rectangle is [left, top, right, bottom] as in FxRectInt and may be    *)
(* inverted.  A path either covers pixels or covers none.  The ScanlineU8  *)
(* the driver gives to its rasterizer is never reset and has no room for a *)
(* cell, so that a path that covers pixels throws a RangeError before      *)
(* anything is changed; the masks that come into being are zeros only, and *)
(* "masked" says that there is one.                                        *)
(***************************************************************************)
EXTENDS Integers, Sequences

CONSTANTS
    Sizes,   \* [width, height] of bitmaps
    Rects,   \* rectangles of the calls
    MaxSaved \* bound on saved states

ASSUME SizesAssumption == \A s \in Sizes : s.width \in Nat \ {0} /\ s.height \in Nat \ {0}
ASSUME RectsAssumption == Rects \subseteq [left : Int, top : Int, right : Int, bottom : Int]
ASSUME MaxSavedAssumption == MaxSaved \in Nat

VARIABLES
    clipBox,     \* CFX_RenderDevice._clipBox
    stateStack,  \* its _stateStack: clip boxes
    driver,      \* there is a _driver
    clipRgn,     \* _driver._clipRgn
    driverStack  \* _driver._stateStack: clip regions

deviceVars == <<clipBox, stateStack, driver, clipRgn, driverStack>>

Rect == [left : Int, top : Int, right : Int, bottom : Int]
Larger(a, b) == IF a > b THEN a ELSE b
Smaller(a, b) == IF a < b THEN a ELSE b

(* FxRectInt.                                                              *)
Zero == [left |-> 0, top |-> 0, right |-> 0, bottom |-> 0]
Whole(size) == [left |-> 0, top |-> 0, right |-> size.width, bottom |-> size.height]
Intersection(a, b) ==
    [left |-> Larger(a.left, b.left), top |-> Larger(a.top, b.top),
     right |-> Smaller(a.right, b.right), bottom |-> Smaller(a.bottom, b.bottom)]
IsEmpty(r) == r.right <= r.left \/ r.bottom <= r.top
Pixels(r) == (r.left .. r.right - 1) \X (r.top .. r.bottom - 1)

(* CfxAggClipRgn.                                                          *)
Region == [box : Rect, masked : BOOLEAN]
RectRegion(r) == [box |-> r, masked |-> FALSE]
(* Mutant: the mask is dropped for the new box.                            *)
IntersectRectUnmasked(region, r) == RectRegion(Intersection(region.box, r))

IntersectRect(region, r) ==
    LET newBox == Intersection(region.box, r)
    IN [box |-> newBox, masked |-> region.masked /\ ~IsEmpty(newBox)]
Reached(region) == IF region.masked THEN {} ELSE Pixels(region.box)

DeviceInit ==
    /\ clipBox = Zero /\ stateStack = <<>>
    /\ driver = FALSE
    /\ clipRgn = RectRegion(Zero) /\ driverStack = <<>>

-----------------------------------------------------------------------------
Front(s) == SubSeq(s, 1, Len(s) - 1)
Last(s) == s[Len(s)]

(* setBitmap; callers do so while no state is saved.                       *)
Between == stateStack = <<>>
SetBitmap(size) ==
    /\ clipBox' = Whole(size)
    /\ clipRgn' = RectRegion(Whole(size))
    /\ driver' = TRUE
    /\ driverStack' = <<>>
    /\ UNCHANGED stateStack

SaveState ==
    /\ Len(stateStack) < MaxSaved
    /\ stateStack' = Append(stateStack, clipBox)
    /\ driverStack' = IF driver THEN Append(driverStack, clipRgn) ELSE driverStack
    /\ UNCHANGED <<clipBox, driver, clipRgn>>

(* CfxAggDeviceDriver.restoreState.                                        *)
(* Mutant: the state kept is popped.                                       *)
RestoreDriverPopping(keepSaved) ==
    IF ~driver \/ driverStack = <<>> THEN UNCHANGED <<clipRgn, driverStack>>
    ELSE /\ clipRgn' = Last(driverStack)
         /\ driverStack' = Front(driverStack)

RestoreDriver(keepSaved) ==
    IF ~driver \/ driverStack = <<>> THEN UNCHANGED <<clipRgn, driverStack>>
    ELSE /\ clipRgn' = Last(driverStack)
         /\ driverStack' = IF keepSaved THEN driverStack ELSE Front(driverStack)

RestoreState(keepSaved) ==
    /\ stateStack # <<>>
    /\ clipBox' = Last(stateStack)
    /\ stateStack' = IF keepSaved THEN stateStack ELSE Front(stateStack)
    /\ RestoreDriver(keepSaved)
    /\ UNCHANGED driver

SetClipRect(r) ==
    /\ clipBox' = Intersection(clipBox, r)
    /\ clipRgn' = IF driver THEN IntersectRect(clipRgn, r) ELSE clipRgn
    /\ UNCHANGED <<stateStack, driver, driverStack>>

(* setClipPathFill: a mask for an empty box is an ArgumentError, a path    *)
(* that covers pixels a RangeError.                                        *)
SetClipPathFill(covers) ==
    /\ clipRgn' = IF ~driver \/ IsEmpty(clipRgn.box) \/ covers THEN clipRgn
                  ELSE [clipRgn EXCEPT !.masked = TRUE]
    /\ UNCHANGED <<clipBox, stateStack, driver, driverStack>>

(* Where a painting of r gets through: fillRect, by the driver; setDIBits, *)
(* stretchDIBits and the glyphs of drawNormalText, by the device.          *)
FillArea(r) == Pixels(r) \cap Reached(clipRgn)
ImageArea(r) == IF driver THEN Pixels(Intersection(r, clipBox)) ELSE {}

DeviceNext ==
    \/ \E size \in Sizes : Between /\ SetBitmap(size)
    \/ SaveState
    \/ \E keepSaved \in BOOLEAN : RestoreState(keepSaved)
    \/ \E r \in Rects : SetClipRect(r)
    \/ \E covers \in BOOLEAN : SetClipPathFill(covers)

DeviceSpec == DeviceInit /\ [][DeviceNext]_deviceVars

(* A bitmap may be set at any time.                                        *)
SwitchSpec == DeviceInit /\ [][DeviceNext \/ \E size \in Sizes : SetBitmap(size)]_deviceVars

-----------------------------------------------------------------------------
(* Properties.                                                             *)

DeviceTypeOK ==
    /\ clipBox \in Rect
    /\ stateStack \in Seq(Rect)
    /\ driver \in BOOLEAN
    /\ clipRgn \in Region
    /\ driverStack \in Seq(Region)

(* The device and its driver keep a clip and a stack of saved clips each   *)
(* (cfx_renderdevice.dart:90, cfx_agg_devicedriver.dart:223): through all  *)
(* saves, restores and clips they agree on the box.                        *)
BoxesAgree == driver => clipRgn.box = clipBox

(* "Save current state", "Restore state" (cfx_renderdevice.dart:109, 117): *)
(* what fills reach shrinks with each clip and comes back with the restore *)
(* that belongs to the save.                                               *)
Clip == INSTANCE ClipRegion WITH
            Pixel <- Int \X Int,
            Bitmaps <- {Pixels(Whole(s)) : s \in Sizes},
            Areas <- {{}} \cup {Pixels(r) : r \in Rects},
            clip <- Reached(clipRgn),
            saved <- [i \in 1 .. Len(driverStack) |-> Reached(driverStack[i])]
ClipsNest == Clip!ClipSpec

(* An image or a glyph reaches what a fill does.  Refuted: images and      *)
(* glyphs are clipped by the box alone (cfx_renderdevice.dart:323, 393).   *)
ImagesAreClipped == \A r \in Rects : ImageArea(r) \subseteq FillArea(r)
=============================================================================
