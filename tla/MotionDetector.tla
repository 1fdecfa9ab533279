---------------------------- MODULE MotionDetector ---------------------------
(***************************************************************************)
(* MotionDetector: frame by frame the difference to a reference image is    *)
(* compared, zone by zone, with the variance seen so far; the types of the  *)
(* zones decide whether that is an alarm; then the frame is blended into    *)
(* the reference and the difference into the variance.  One action is the   *)
(* body of the run loop for one frame.                                      *)
(*                                                                          *)
(* A zone is one pixel here, and in motion if that pixel is: which pixels   *)
(* of a mask make a zone move is in BlobScan and PolyMask.  The frames are  *)
(* grey, the reference has 16 bits (RGB48), deltas are luminances.  The     *)
(* queue and the loop around the frames are those of FeedFlow.              *)
(***************************************************************************)
EXTENDS Integers, FiniteSets

CONSTANTS
    Zone,
    Level,              \* the luminances of the scenes, of 0 .. 255
    mRefBlend, mVarBlend,   \* powers of two
    mBlendAlarmedImages,    \* BOOLEAN
    MaxScenes           \* bound: changes of the scene

ASSUME MotionAssumption ==
    /\ Level \subseteq 0 .. 255
    /\ {mRefBlend, mVarBlend} \subseteq { 2 ^ n : n \in 1 .. 15 }
    /\ mBlendAlarmedImages \in BOOLEAN /\ MaxScenes \in Nat

ZoneType == {"ACTIVE", "INCLUSIVE", "EXCLUSIVE", "PRECLUSIVE", "INACTIVE"}

VARIABLES
    mType,          \* [Zone -> ZoneType]
    scene,          \* [Zone -> Level], what the camera sees
    scenes,         \* how often it has changed
    mRefImage,      \* [Zone -> 0 .. 65535], as it will be when the first frame comes
    mVarBuffer,     \* [Zone -> variance], 16 bits of it a fraction
    mFrameCount,    \* up to the largest number it is compared with
    mAlarmed,
    zoneAlarmed,    \* Zone::mAlarmed
    crashed         \* the motion image of a zone without MotionData was used

motionVars == << mType, scene, scenes, mRefImage, mVarBuffer, mFrameCount, mAlarmed, zoneAlarmed, crashed >>

DiffThres     == 2
mNoiseLevelSq == 64 * 65536
Smaller(a, b) == IF a < b THEN a ELSE b
mReadyCount   == Smaller(mRefBlend, mVarBlend) \div 2
MaxCount      == mRefBlend + mVarBlend

MotionInit ==
    /\ mType \in [Zone -> ZoneType]
    /\ scene \in [Zone -> Level]
    /\ scenes = 0
    /\ mRefImage = [z \in Zone |-> 256 * scene[z]]
    /\ mVarBuffer = [z \in Zone |-> mNoiseLevelSq]
    /\ mFrameCount = 0
    /\ mAlarmed = FALSE
    /\ zoneAlarmed = [z \in Zone |-> FALSE]
    /\ crashed = FALSE

ChangeScene ==
    /\ scenes < MaxScenes /\ ~crashed
    /\ scene' \in [Zone -> Level] \ {scene}
    /\ scenes' = scenes + 1
    /\ UNCHANGED << mType, mRefImage, mVarBuffer, mFrameCount, mAlarmed, zoneAlarmed, crashed >>

-----------------------------------------------------------------------------

\* Halved until it is no more than the limit; a limit of 0 is none.
Halved(blend, limit) ==
    CHOOSE b \in { blend \div 2 ^ n : n \in 0 .. 15 } :
        \/ b = blend /\ (limit = 0 \/ blend <= limit)
        \/ limit # 0 /\ b <= limit /\ 2 * b > limit

getShift(divisor, limit) ==
    CHOOSE s \in 1 .. 15 : /\ Halved(divisor, limit) <= 2 ^ s
                           /\ s = 1 \/ Halved(divisor, limit) > 2 ^ (s - 1)

Root(n) == CHOOSE r \in 0 .. 255 : r * r <= n /\ n < (r + 1) * (r + 1)

\* Image::yDelta2, with the inactive zones blanked.
delta(z) ==
    IF mType[z] = "INACTIVE" THEN 0
    ELSE LET difference == scene[z] - mRefImage[z] \div 256
         IN  IF difference < 0 THEN -difference ELSE difference

\* Zone::checkMotion
checkMotion(z) == delta(z) > DiffThres * Root(mVarBuffer[z] \div 65536)

Moving(type) == { z \in Zone : mType[z] = type /\ checkMotion(z) }

\* Mutant: the inclusive zones do not need an active one.
DetectedAnyway ==
    IF Moving("ACTIVE") # {} THEN Moving("ACTIVE") \cup Moving("INCLUSIVE")
    ELSE Moving("INCLUSIVE") \cup Moving("EXCLUSIVE")

\* The zones of an alarm; the inclusive ones only beside an active one, the
\* exclusive ones only without.
Detected ==
    IF Moving("PRECLUSIVE") # {} THEN {}
    ELSE IF Moving("ACTIVE") # {} THEN Moving("ACTIVE") \cup Moving("INCLUSIVE")
    ELSE Moving("EXCLUSIVE")

\* Mutant: the variance stays what it was.
VarianceKept(z) == mVarBuffer[z]

\* The end of detectMotion, not reached when a preclusive zone moves.
Variance(z) ==
    LET shift == getShift(mVarBlend, mFrameCount + 1)
        blended == mVarBuffer[z] - mVarBuffer[z] \div 2 ^ shift
                       + delta(z) * delta(z) * 2 ^ (16 - shift)
    IN  IF blended < mNoiseLevelSq THEN mNoiseLevelSq ELSE blended

\* MotionDetector::analyse and detectMotion: the motion image of every detected zone
\* is laid over the frame, and only active and inclusive zones have one.
Analyse ==
    IF mFrameCount > mReadyCount
    THEN LET detected == Detected IN
         /\ zoneAlarmed' = [z \in Zone |-> z \in detected]
         /\ mVarBuffer' = IF Moving("PRECLUSIVE") # {} THEN mVarBuffer
                          ELSE [z \in Zone |-> Variance(z)]
         /\ crashed' = \E z \in detected : mType[z] \notin {"ACTIVE", "INCLUSIVE"}
         /\ mAlarmed' = IF crashed' THEN mAlarmed ELSE detected # {}
    ELSE UNCHANGED << mVarBuffer, mAlarmed, zoneAlarmed, crashed >>

\* Image::blend, of 8 bits into 16.
Blended(z) ==
    LET shift == getShift(Halved(mRefBlend, mFrameCount + 1), 0)
    IN  (mRefImage[z] - mRefImage[z] \div 2 ^ shift + scene[z] * 2 ^ (8 - shift)) % 65536

BlendReference ==
    IF ~crashed' /\ (mBlendAlarmedImages \/ ~mAlarmed')
    THEN mRefImage' = [z \in Zone |-> Blended(z)]
    ELSE UNCHANGED mRefImage

Frame ==
    /\ ~crashed
    /\ Analyse
    /\ BlendReference
    /\ mFrameCount' = Smaller(mFrameCount + 1, MaxCount)
    /\ UNCHANGED << mType, scene, scenes >>

MotionNext == ChangeScene \/ Frame

\* Frames keep coming.
MotionSpec == MotionInit /\ [][MotionNext]_motionVars /\ WF_motionVars(Frame)

-----------------------------------------------------------------------------
(* Properties *)

Alarmed(type) == \E z \in Zone : mType[z] = type /\ zoneAlarmed[z]

\* Between frames the alarm of the component and of its zones agree: no alarm outlives
\* the zones it is for, none is for a preclusive or inactive zone, an inclusive zone has
\* an active one beside it and an exclusive zone none (ozMotionDetector.cpp:260-285,385-455).
AlarmsAgree ==
    ~crashed =>
        /\ mAlarmed = \E z \in Zone : zoneAlarmed[z]
        /\ ~Alarmed("PRECLUSIVE") /\ ~Alarmed("INACTIVE") /\ ~Alarmed("EXCLUSIVE")
        /\ Alarmed("INCLUSIVE") => Alarmed("ACTIVE")

\* A preclusive zone in motion keeps the frame from being an alarm, whatever moves beside
\* it and whether or not there was an alarm before (ozMotionDetector.cpp:391-403).
PreclusionHolds ==
    Moving("PRECLUSIVE") # {} /\ mFrameCount > mReadyCount /\ scene' = scene => ~mAlarmed' /\ ~crashed'

\* Once the scene stays as it is the alarm ends, because the reference catches up with
\* it or, where alarmed frames are not blended, because the variance does: the shifts
\* of 16 bits lose no difference for good (ozMotionDetector.cpp:197-207,470-506).
AlarmEnds == <>[](crashed \/ ~mAlarmed)

\* The alarm that leaves the detector and those of its zones hold together
\* (ozMotionDetector.cpp:260-285,385-455).
AlarmsHold == [][AlarmsAgree' /\ PreclusionHolds]_motionVars
=============================================================================
