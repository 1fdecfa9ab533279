-------------------------- MODULE Watching_proofs ---------------------------
(***************************************************************************)
(* Proofs about components that watch their providers and about the motion *)
(* detector: ProviderWatch, InputFallback and MotionDetector, for any      *)
(* finite set of providers, any set of zones and any times; and about the  *)
(* images they work on: ImageFormats, for any number of operations in any  *)
(* formats, and BlobScan, for any picture, mask, limits and number of tags *)
(***************************************************************************)
EXTENDS
    ProviderWatch, InputFallback, MotionDetector, ImageFormats, BlobScan,
    FiniteSetTheorems, SequenceTheorems, WellFoundedInduction, TLAPS

-----------------------------------------------------------------------------
(***************************************************************************)
(* ProviderWatch.  For any finite set of providers and any number of       *)
(* providers waited for.                                                   *)
(***************************************************************************)

USE CountAssumption

(***************************************************************************)
(* What each side leaves alone.                                            *)
(***************************************************************************)
LEMMA ConsumerFrame ==
  ASSUME ConsumerStep
  PROVE  UNCHANGED << mState, life, mProviders >>
<1>1. CASE ReadSize
  BY <1>1 DEF ReadSize
<1>2. CASE ReadSizeAgain
  BY <1>2 DEF ReadSizeAgain
<1>3. CASE StartRound
  BY <1>3 DEF StartRound, LockProviders
<1>4. CASE EndRound
  BY <1>4 DEF EndRound
<1>5. CASE Evaluate
  BY <1>5 DEF Evaluate
<1>6. CASE ClearQueue
  BY <1>6 DEF ClearQueue
<1>7. CASE RunLoop
  BY <1>7 DEF RunLoop
<1>8. CASE StartCheck
  BY <1>8 DEF StartCheck, LockProviders
<1>9. CASE EndCheck
  BY <1>9 DEF EndCheck
<1>10. CASE StopIfBad
  BY <1>10 DEF StopIfBad
<1>11. ASSUME NEW p \in Provider, ReadReady(p) PROVE UNCHANGED << mState, life, mProviders >>
  BY <1>11 DEF ReadReady
<1>12. ASSUME NEW p \in Provider, ReadWait(p) PROVE UNCHANGED << mState, life, mProviders >>
  BY <1>12 DEF ReadWait
<1>13. ASSUME NEW p \in Provider, CheckReady(p) PROVE UNCHANGED << mState, life, mProviders >>
  BY <1>13 DEF CheckReady
<1>14. ASSUME NEW p \in Provider, CheckEnded(p) PROVE UNCHANGED << mState, life, mProviders >>
  BY <1>14 DEF CheckEnded
<1>15. ASSUME NEW p \in Provider, CheckError(p) PROVE UNCHANGED << mState, life, mProviders >>
  BY <1>15 DEF CheckError
<1> QED
  BY <1>1, <1>2, <1>3, <1>4, <1>5, <1>6, <1>7, <1>8, <1>9, <1>10, <1>11, <1>12, <1>13, <1>14, <1>15 DEF ConsumerStep

(* A provider that takes a step touches no variable of the consumer, leaves the
   map only while no walk is under way, never goes back to waiting, and once
   lost it stays lost. *)
LEMMA ProviderFrame ==
  ASSUME TypeOK, NEW p \in Provider, ProviderStep(p) \/ LeaveMap(p)
  PROVE  /\ UNCHANGED << pc, waitFor, maxWaitCount, counts, todo, looking, result, mStop >>
         /\ mProviders' \subseteq mProviders
         /\ ProvidersLocked => mProviders' = mProviders
         /\ \A q \in Provider : mState'[q] = "wait" => mState[q] = "wait"
         /\ \A q \in Provider : Lost(q) => Lost(q)'
<1> USE DEF TypeOK, wait, walk, Lost, SetState
<1>1. CASE SetReady(p)
  BY <1>1 DEF SetReady
<1>2. CASE SetError(p)
  BY <1>2 DEF SetError
<1>3. CASE SetEnded(p)
  BY <1>3 DEF SetEnded
<1>4. CASE SetErrorAfterCleanup(p)
  BY <1>4 DEF SetErrorAfterCleanup
<1>5. CASE DropConsumer(p)
  BY <1>5 DEF DropConsumer
<1>6. CASE LeaveMap(p)
  BY <1>6 DEF LeaveMap
<1> QED
  BY <1>1, <1>2, <1>3, <1>4, <1>5, <1>6 DEF ProviderStep

(***************************************************************************)
(* Type correctness                                                        *)
(***************************************************************************)
LEMMA TypeInit == Init => TypeOK
<1> SUFFICES ASSUME Init PROVE TypeOK
  OBVIOUS
<1>1. counts \in [{"ready", "wait", "bad"} -> Nat]
  BY DEF Init, NoCounts
<1>2. mState \in [Provider -> State] /\ life \in [Provider -> Life]
  BY DEF Init, State, Life
<1>3. pc \in Label
  BY DEF Init, Label, WaitStep
<1>4. mProviders \subseteq Provider /\ todo \subseteq Provider /\ looking \subseteq Provider
  BY DEF Init
<1>5. waitFor \in Nat /\ maxWaitCount \in Int
  BY DEF Init
<1>6. result \in BOOLEAN /\ mStop \in BOOLEAN
  BY Zenon DEF Init
<1> QED
  BY <1>1, <1>2, <1>3, <1>4, <1>5, <1>6 DEF TypeOK

(* The counters after one more provider has been counted. *)
LEMMA CountType ==
  ASSUME counts \in [{"ready", "wait", "bad"} -> Nat], NEW what \in {"ready", "wait", "bad"}, Count(what)
  PROVE  counts' \in [{"ready", "wait", "bad"} -> Nat]
BY DEF Count

LEMMA SizeType == TypeOK => Cardinality(mProviders) \in Nat
BY FS_Subset, FS_CardinalityType DEF TypeOK

LEMMA TypeStep ==
  ASSUME TypeOK, [Next]_vars
  PROVE  TypeOK'
<1> USE DEF TypeOK, State, Life, Label, WaitStep, CheckStep, wait, walk
<1>1. CASE ConsumerStep
  <2>1. CASE ReadSize
    BY <2>1, SizeType DEF ReadSize
  <2>2. CASE ReadSizeAgain
    BY <2>2, SizeType DEF ReadSizeAgain
  <2>3. CASE StartRound
    BY <2>3 DEF StartRound, LockProviders, NoCounts
  <2>4. CASE EndRound
    BY <2>4 DEF EndRound
  <2>5. CASE Evaluate
    BY <2>5 DEF Evaluate
  <2>6. CASE ClearQueue
    BY <2>6 DEF ClearQueue
  <2>7. CASE RunLoop
    BY <2>7 DEF RunLoop
  <2>8. CASE StartCheck
    BY <2>8 DEF StartCheck, LockProviders
  <2>9. CASE EndCheck
    BY <2>9 DEF EndCheck
  <2>10. CASE StopIfBad
    BY <2>10 DEF StopIfBad
  <2>11. ASSUME NEW p \in Provider, ReadReady(p) PROVE TypeOK'
    <3>1. CASE mState[p] = "ready"
      BY <2>11, <3>1 DEF ReadReady, Count
    <3>2. CASE mState[p] # "ready"
      BY <2>11, <3>2 DEF ReadReady
    <3> QED
      BY <3>1, <3>2
  <2>12. ASSUME NEW p \in Provider, ReadWait(p) PROVE TypeOK'
    BY <2>12 DEF ReadWait, Count
  <2>13. ASSUME NEW p \in Provider, CheckReady(p) PROVE TypeOK'
    BY <2>13 DEF CheckReady
  <2>14. ASSUME NEW p \in Provider, CheckEnded(p) PROVE TypeOK'
    BY <2>14 DEF CheckEnded
  <2>15. ASSUME NEW p \in Provider, CheckError(p) PROVE TypeOK'
    BY <2>15 DEF CheckError
  <2> QED
    BY <1>1, <2>1, <2>2, <2>3, <2>4, <2>5, <2>6, <2>7, <2>8, <2>9, <2>10, <2>11, <2>12, <2>13, <2>14, <2>15 DEF ConsumerStep
<1>2. ASSUME NEW p \in Provider, ProviderStep(p) \/ LeaveMap(p) PROVE TypeOK'
  <2> USE DEF SetState
  <2>1. CASE SetReady(p)
    BY <2>1 DEF SetReady
  <2>2. CASE SetError(p)
    BY <2>2 DEF SetError
  <2>3. CASE SetEnded(p)
    BY <2>3 DEF SetEnded
  <2>4. CASE SetErrorAfterCleanup(p)
    BY <2>4 DEF SetErrorAfterCleanup
  <2>5. CASE DropConsumer(p)
    BY <2>5 DEF DropConsumer
  <2>6. CASE LeaveMap(p)
    BY <2>6 DEF LeaveMap
  <2> QED
    BY <1>2, <2>1, <2>2, <2>3, <2>4, <2>5, <2>6 DEF ProviderStep
<1>3. CASE UNCHANGED vars
  BY <1>3 DEF vars, wait, walk
<1> QED
  BY <1>1, <1>2, <1>3 DEF Next

(***************************************************************************)
(* The map and the walks over it                                           *)
(***************************************************************************)
LEMMA MapStep ==
  ASSUME TypeOK, MapFollowsLife, [Next]_vars
  PROVE  MapFollowsLife'
<1> USE DEF MapFollowsLife
<1>1. CASE ConsumerStep
  BY <1>1, ConsumerFrame
<1>2. ASSUME NEW p \in Provider, ProviderStep(p) \/ LeaveMap(p) PROVE MapFollowsLife'
  <2> USE DEF TypeOK, Life, State, SetState
  <2>1. CASE SetReady(p)
    BY <2>1 DEF SetReady
  <2>2. CASE SetError(p)
    BY <2>2 DEF SetError
  <2>3. CASE SetEnded(p)
    BY <2>3 DEF SetEnded
  <2>4. CASE SetErrorAfterCleanup(p)
    BY <2>4 DEF SetErrorAfterCleanup
  <2>5. CASE DropConsumer(p)
    BY <2>5 DEF DropConsumer
  <2>6. CASE LeaveMap(p)
    BY <2>6 DEF LeaveMap
  <2> QED
    BY <1>2, <2>1, <2>2, <2>3, <2>4, <2>5, <2>6 DEF ProviderStep
<1>3. CASE UNCHANGED vars
  BY <1>3 DEF vars
<1> QED
  BY <1>1, <1>2, <1>3 DEF Next

LEMMA WalkStep ==
  ASSUME TypeOK, WalkInMap, [Next]_vars
  PROVE  WalkInMap'
<1> USE DEF TypeOK, WalkInMap, ProvidersLocked, walk
<1>1. CASE ConsumerStep
  <2>1. CASE ReadSize
    BY <2>1 DEF ReadSize
  <2>2. CASE ReadSizeAgain
    BY <2>2 DEF ReadSizeAgain
  <2>3. CASE StartRound
    BY <2>3 DEF StartRound, LockProviders
  <2>4. CASE EndRound
    BY <2>4 DEF EndRound
  <2>5. CASE Evaluate
    BY <2>5 DEF Evaluate
  <2>6. CASE ClearQueue
    BY <2>6 DEF ClearQueue
  <2>7. CASE RunLoop
    BY <2>7 DEF RunLoop
  <2>8. CASE StartCheck
    BY <2>8 DEF StartCheck, LockProviders
  <2>9. CASE EndCheck
    BY <2>9 DEF EndCheck
  <2>10. CASE StopIfBad
    BY <2>10 DEF StopIfBad
  <2>11. ASSUME NEW p \in Provider, ReadReady(p) PROVE WalkInMap'
    BY <2>11 DEF ReadReady
  <2>12. ASSUME NEW p \in Provider, ReadWait(p) PROVE WalkInMap'
    BY <2>12 DEF ReadWait
  <2>13. ASSUME NEW p \in Provider, CheckReady(p) PROVE WalkInMap'
    BY <2>13 DEF CheckReady
  <2>14. ASSUME NEW p \in Provider, CheckEnded(p) PROVE WalkInMap'
    BY <2>14 DEF CheckEnded
  <2>15. ASSUME NEW p \in Provider, CheckError(p) PROVE WalkInMap'
    BY <2>15 DEF CheckError
  <2> QED
    BY <1>1, <2>1, <2>2, <2>3, <2>4, <2>5, <2>6, <2>7, <2>8, <2>9, <2>10, <2>11, <2>12, <2>13, <2>14, <2>15 DEF ConsumerStep
<1>2. ASSUME NEW p \in Provider, ProviderStep(p) \/ LeaveMap(p) PROVE WalkInMap'
  BY <1>2, ProviderFrame
<1>3. CASE UNCHANGED vars
  BY <1>3 DEF vars, wait, walk
<1> QED
  BY <1>1, <1>2, <1>3 DEF Next

(***************************************************************************)
(* Waiting                                                                 *)
(***************************************************************************)
(* The map only shrinks, so its size does. *)
LEMMA SizeShrinks ==
  ASSUME TypeOK, [Next]_vars
  PROVE  Cardinality(mProviders') <= Cardinality(mProviders)
<1>1. mProviders' \subseteq mProviders
  BY ConsumerFrame, ProviderFrame DEF Next, vars
<1>2. IsFiniteSet(mProviders)
  BY FS_Subset DEF TypeOK
<1> QED
  BY <1>1, <1>2, FS_Subset

LEMMA NoneMayWaitStep ==
  ASSUME TypeOK, TypeOK', NoneMayWait, [Next]_vars
  PROVE  NoneMayWait'
<1> USE DEF TypeOK, NoneMayWait, wait
<1>1. CASE ConsumerStep
  <2>1. CASE ReadSize
    BY <2>1, SizeType DEF ReadSize
  <2>2. CASE ReadSizeAgain
    BY <2>2, SizeType DEF ReadSizeAgain
  <2>3. CASE StartRound
    BY <2>3 DEF StartRound, LockProviders
  <2>4. CASE EndRound
    BY <2>4 DEF EndRound
  <2>5. CASE Evaluate
    BY <2>5 DEF Evaluate
  <2>6. CASE ClearQueue
    BY <2>6 DEF ClearQueue
  <2>7. CASE RunLoop
    BY <2>7 DEF RunLoop
  <2>8. CASE StartCheck
    BY <2>8 DEF StartCheck, LockProviders
  <2>9. CASE EndCheck
    BY <2>9 DEF EndCheck
  <2>10. CASE StopIfBad
    BY <2>10 DEF StopIfBad
  <2>11. ASSUME NEW p \in Provider, ReadReady(p) PROVE NoneMayWait'
    BY <2>11 DEF ReadReady
  <2>12. ASSUME NEW p \in Provider, ReadWait(p) PROVE NoneMayWait'
    BY <2>12 DEF ReadWait
  <2>13. ASSUME NEW p \in Provider, CheckReady(p) PROVE NoneMayWait'
    BY <2>13 DEF CheckReady
  <2>14. ASSUME NEW p \in Provider, CheckEnded(p) PROVE NoneMayWait'
    BY <2>14 DEF CheckEnded
  <2>15. ASSUME NEW p \in Provider, CheckError(p) PROVE NoneMayWait'
    BY <2>15 DEF CheckError
  <2> QED
    BY <1>1, <2>1, <2>2, <2>3, <2>4, <2>5, <2>6, <2>7, <2>8, <2>9, <2>10, <2>11, <2>12, <2>13, <2>14, <2>15 DEF ConsumerStep
<1>2. ASSUME NEW p \in Provider, ProviderStep(p) \/ LeaveMap(p) PROVE NoneMayWait'
  <2>1. Cardinality(mProviders) \in Nat /\ Cardinality(mProviders)' \in Nat
    BY SizeType, FS_Subset, FS_CardinalityType
  <2>2. Cardinality(mProviders)' <= Cardinality(mProviders)
    BY SizeShrinks
  <2> QED
    BY <1>2, <2>1, <2>2, ProviderFrame
<1>3. CASE UNCHANGED vars
  BY <1>3 DEF vars, wait, walk
<1> QED
  BY <1>1, <1>2, <1>3 DEF Next

LEMMA VisitedStep ==
  ASSUME TypeOK, WalkInMap, VisitedDoNotWait, [Next]_vars
  PROVE  VisitedDoNotWait'
<1> USE DEF TypeOK, VisitedDoNotWait, wait, walk
<1>1. CASE ConsumerStep
  <2>1. CASE ReadSize
    BY <2>1 DEF ReadSize
  <2>2. CASE ReadSizeAgain
    BY <2>2 DEF ReadSizeAgain
  <2>3. CASE StartRound
    BY <2>3 DEF StartRound, LockProviders
  <2>4. CASE EndRound
    BY <2>4 DEF EndRound, WalkInMap
  <2>5. CASE Evaluate
    BY <2>5 DEF Evaluate
  <2>6. CASE ClearQueue
    BY <2>6 DEF ClearQueue
  <2>7. CASE RunLoop
    BY <2>7 DEF RunLoop
  <2>8. CASE StartCheck
    BY <2>8 DEF StartCheck, LockProviders
  <2>9. CASE EndCheck
    BY <2>9 DEF EndCheck
  <2>10. CASE StopIfBad
    BY <2>10 DEF StopIfBad
  <2>11. ASSUME NEW p \in Provider, ReadReady(p) PROVE VisitedDoNotWait'
    BY <2>11 DEF ReadReady, Count, WalkInMap
  <2>12. ASSUME NEW p \in Provider, ReadWait(p) PROVE VisitedDoNotWait'
    BY <2>12 DEF ReadWait, Count, WalkInMap
  <2>13. ASSUME NEW p \in Provider, CheckReady(p) PROVE VisitedDoNotWait'
    BY <2>13 DEF CheckReady
  <2>14. ASSUME NEW p \in Provider, CheckEnded(p) PROVE VisitedDoNotWait'
    BY <2>14 DEF CheckEnded
  <2>15. ASSUME NEW p \in Provider, CheckError(p) PROVE VisitedDoNotWait'
    BY <2>15 DEF CheckError
  <2> QED
    BY <1>1, <2>1, <2>2, <2>3, <2>4, <2>5, <2>6, <2>7, <2>8, <2>9, <2>10, <2>11, <2>12, <2>13, <2>14, <2>15 DEF ConsumerStep
<1>2. ASSUME NEW p \in Provider, ProviderStep(p) \/ LeaveMap(p) PROVE VisitedDoNotWait'
  BY <1>2, ProviderFrame
<1>3. CASE UNCHANGED vars
  BY <1>3 DEF vars, wait, walk
<1> QED
  BY <1>1, <1>2, <1>3 DEF Next

LEMMA LoopStep ==
  ASSUME TypeOK, WalkInMap, NoneMayWait, VisitedDoNotWait, LoopMeansReady, [Next]_vars
  PROVE  LoopMeansReady'
<1> USE DEF LoopMeansReady, InLoop, CheckStep, TypeOK
<1>1. CASE ConsumerStep
  <2>1. CASE ReadSize
    BY <2>1 DEF ReadSize
  <2>2. CASE ReadSizeAgain
    BY <2>2 DEF ReadSizeAgain
  <2>3. CASE StartRound
    BY <2>3 DEF StartRound, LockProviders
  <2>4. CASE EndRound
    BY <2>4 DEF EndRound
  <2>5. CASE Evaluate
    BY <2>5 DEF Evaluate, NoneMayWait, VisitedDoNotWait, WalkInMap
  <2>6. CASE ClearQueue
    BY <2>6 DEF ClearQueue
  <2>7. CASE RunLoop
    BY <2>7 DEF RunLoop
  <2>8. CASE StartCheck
    BY <2>8 DEF StartCheck, LockProviders
  <2>9. CASE EndCheck
    BY <2>9 DEF EndCheck
  <2>10. CASE StopIfBad
    BY <2>10 DEF StopIfBad
  <2>11. ASSUME NEW p \in Provider, ReadReady(p) PROVE LoopMeansReady'
    BY <2>11 DEF ReadReady
  <2>12. ASSUME NEW p \in Provider, ReadWait(p) PROVE LoopMeansReady'
    BY <2>12 DEF ReadWait
  <2>13. ASSUME NEW p \in Provider, CheckReady(p) PROVE LoopMeansReady'
    BY <2>13 DEF CheckReady
  <2>14. ASSUME NEW p \in Provider, CheckEnded(p) PROVE LoopMeansReady'
    BY <2>14 DEF CheckEnded
  <2>15. ASSUME NEW p \in Provider, CheckError(p) PROVE LoopMeansReady'
    BY <2>15 DEF CheckError
  <2> QED
    BY <1>1, <2>1, <2>2, <2>3, <2>4, <2>5, <2>6, <2>7, <2>8, <2>9, <2>10, <2>11, <2>12, <2>13, <2>14, <2>15 DEF ConsumerStep
<1>2. ASSUME NEW p \in Provider, ProviderStep(p) \/ LeaveMap(p) PROVE LoopMeansReady'
  BY <1>2, ProviderFrame
<1>3. CASE UNCHANGED vars
  BY <1>3 DEF vars, wait, walk
<1> QED
  BY <1>1, <1>2, <1>3 DEF Next

(***************************************************************************)
(* Checking                                                                *)
(***************************************************************************)
LEMMA CheckStepRight ==
  ASSUME TypeOK, MapFollowsLife, WalkInMap, CheckIsRight, [Next]_vars
  PROVE  CheckIsRight'
<1> USE DEF TypeOK, CheckIsRight, InLoop, CheckStep, Lost, wait, walk
<1>1. CASE ConsumerStep
  <2>1. CASE ReadSize
    BY <2>1 DEF ReadSize
  <2>2. CASE ReadSizeAgain
    BY <2>2 DEF ReadSizeAgain
  <2>3. CASE StartRound
    BY <2>3 DEF StartRound, LockProviders, NoCounts
  <2>4. CASE EndRound
    BY <2>4 DEF EndRound
  <2>5. CASE Evaluate
    BY <2>5 DEF Evaluate
  <2>6. CASE ClearQueue
    BY <2>6 DEF ClearQueue
  <2>7. CASE RunLoop
    BY <2>7 DEF RunLoop
  <2>8. CASE StartCheck
    BY <2>8 DEF StartCheck, LockProviders, MapFollowsLife, Life
  <2>9. CASE EndCheck
    BY <2>9 DEF EndCheck
  <2>10. CASE StopIfBad
    BY <2>10 DEF StopIfBad
  <2>11. ASSUME NEW p \in Provider, ReadReady(p) PROVE CheckIsRight'
    BY <2>11 DEF ReadReady, Count
  <2>12. ASSUME NEW p \in Provider, ReadWait(p) PROVE CheckIsRight'
    BY <2>12 DEF ReadWait, Count
  <2>13. ASSUME NEW p \in Provider, CheckReady(p) PROVE CheckIsRight'
    BY <2>13 DEF CheckReady, WalkInMap
  <2>14. ASSUME NEW p \in Provider, CheckEnded(p) PROVE CheckIsRight'
    BY <2>14 DEF CheckEnded, WalkInMap
  <2>15. ASSUME NEW p \in Provider, CheckError(p) PROVE CheckIsRight'
    BY <2>15 DEF CheckError
  <2> QED
    BY <1>1, <2>1, <2>2, <2>3, <2>4, <2>5, <2>6, <2>7, <2>8, <2>9, <2>10, <2>11, <2>12, <2>13, <2>14, <2>15 DEF ConsumerStep
<1>2. ASSUME NEW p \in Provider, ProviderStep(p) \/ LeaveMap(p) PROVE CheckIsRight'
  <2>1. \A q \in looking : pc = "checkError" => mState'[q] = "ended"
    <3> SUFFICES ASSUME NEW q \in looking, pc = "checkError" PROVE mState'[q] = "ended"
      OBVIOUS
    <3>1. q \in mProviders /\ mState[q] = "ended" /\ life[q] = "leaving"
      BY DEF WalkInMap, ProvidersLocked, MapFollowsLife
    <3> USE DEF SetState
    <3>2. CASE SetReady(p)
      BY <3>1, <3>2 DEF SetReady
    <3>3. CASE SetError(p)
      BY <3>1, <3>3 DEF SetError
    <3>4. CASE SetEnded(p)
      BY <3>1, <3>4 DEF SetEnded
    <3>5. CASE SetErrorAfterCleanup(p)
      BY <3>1, <3>5 DEF SetErrorAfterCleanup
    <3>6. CASE DropConsumer(p)
      BY <3>1, <3>6 DEF DropConsumer
    <3>7. CASE LeaveMap(p)
      BY <3>1, <3>7 DEF LeaveMap
    <3> QED
      BY <1>2, <3>2, <3>3, <3>4, <3>5, <3>6, <3>7 DEF ProviderStep
  <2> QED
    BY <1>2, <2>1, ProviderFrame DEF Lost
<1>3. CASE UNCHANGED vars
  BY <1>3 DEF vars, wait, walk
<1> QED
  BY <1>1, <1>2, <1>3 DEF Next

LEMMA StopStep ==
  ASSUME TypeOK, CheckIsRight, StopJustified, [Next]_vars
  PROVE  StopJustified'
<1> USE DEF StopJustified, CheckIsRight, CheckStep, Lost, wait, walk
<1>1. CASE ConsumerStep
  <2>1. CASE ReadSize
    BY <2>1 DEF ReadSize
  <2>2. CASE ReadSizeAgain
    BY <2>2 DEF ReadSizeAgain
  <2>3. CASE StartRound
    BY <2>3 DEF StartRound, LockProviders
  <2>4. CASE EndRound
    BY <2>4 DEF EndRound
  <2>5. CASE Evaluate
    BY <2>5 DEF Evaluate
  <2>6. CASE ClearQueue
    BY <2>6 DEF ClearQueue
  <2>7. CASE RunLoop
    BY <2>7 DEF RunLoop
  <2>8. CASE StartCheck
    BY <2>8 DEF StartCheck, LockProviders
  <2>9. CASE EndCheck
    BY <2>9 DEF EndCheck
  <2>10. CASE StopIfBad
    BY <2>10 DEF StopIfBad
  <2>11. ASSUME NEW p \in Provider, ReadReady(p) PROVE StopJustified'
    BY <2>11 DEF ReadReady
  <2>12. ASSUME NEW p \in Provider, ReadWait(p) PROVE StopJustified'
    BY <2>12 DEF ReadWait
  <2>13. ASSUME NEW p \in Provider, CheckReady(p) PROVE StopJustified'
    BY <2>13 DEF CheckReady
  <2>14. ASSUME NEW p \in Provider, CheckEnded(p) PROVE StopJustified'
    BY <2>14 DEF CheckEnded
  <2>15. ASSUME NEW p \in Provider, CheckError(p) PROVE StopJustified'
    BY <2>15 DEF CheckError
  <2> QED
    BY <1>1, <2>1, <2>2, <2>3, <2>4, <2>5, <2>6, <2>7, <2>8, <2>9, <2>10, <2>11, <2>12, <2>13, <2>14, <2>15 DEF ConsumerStep
<1>2. ASSUME NEW p \in Provider, ProviderStep(p) \/ LeaveMap(p) PROVE StopJustified'
  BY <1>2, ProviderFrame
<1>3. CASE UNCHANGED vars
  BY <1>3 DEF vars, wait, walk
<1> QED
  BY <1>1, <1>2, <1>3 DEF Next

LEMMA FatalStep ==
  ASSUME TypeOK, CheckIsRight, NeverFatal, [Next]_vars
  PROVE  NeverFatal'
<1> USE DEF NeverFatal
<1>1. CASE ConsumerStep
  <2>1. CASE ReadSize
    BY <2>1 DEF ReadSize
  <2>2. CASE ReadSizeAgain
    BY <2>2 DEF ReadSizeAgain
  <2>3. CASE StartRound
    BY <2>3 DEF StartRound, LockProviders
  <2>4. CASE EndRound
    BY <2>4 DEF EndRound
  <2>5. CASE Evaluate
    BY <2>5 DEF Evaluate
  <2>6. CASE ClearQueue
    BY <2>6 DEF ClearQueue
  <2>7. CASE RunLoop
    BY <2>7 DEF RunLoop
  <2>8. CASE StartCheck
    BY <2>8 DEF StartCheck, LockProviders
  <2>9. CASE EndCheck
    BY <2>9 DEF EndCheck
  <2>10. CASE StopIfBad
    BY <2>10 DEF StopIfBad
  <2>11. ASSUME NEW p \in Provider, ReadReady(p) PROVE NeverFatal'
    BY <2>11 DEF ReadReady
  <2>12. ASSUME NEW p \in Provider, ReadWait(p) PROVE NeverFatal'
    BY <2>12 DEF ReadWait
  <2>13. ASSUME NEW p \in Provider, CheckReady(p) PROVE NeverFatal'
    BY <2>13 DEF CheckReady
  <2>14. ASSUME NEW p \in Provider, CheckEnded(p) PROVE NeverFatal'
    BY <2>14 DEF CheckEnded
  <2>15. ASSUME NEW p \in Provider, CheckError(p) PROVE NeverFatal'
    BY <2>15 DEF CheckError, CheckIsRight
  <2> QED
    BY <1>1, <2>1, <2>2, <2>3, <2>4, <2>5, <2>6, <2>7, <2>8, <2>9, <2>10, <2>11, <2>12, <2>13, <2>14, <2>15 DEF ConsumerStep
<1>2. ASSUME NEW p \in Provider, ProviderStep(p) \/ LeaveMap(p) PROVE NeverFatal'
  BY <1>2, ProviderFrame
<1>3. CASE UNCHANGED vars
  BY <1>3 DEF vars, wait, walk
<1> QED
  BY <1>1, <1>2, <1>3 DEF Next

(***************************************************************************)
(* The theorems                                                            *)
(***************************************************************************)
LEMMA WatchInit == Init => WatchInv
BY TypeInit DEF Init, WatchInv, MapFollowsLife, WalkInMap, ProvidersLocked, NoneMayWait,
   VisitedDoNotWait, CheckIsRight, CheckStep, InLoop, NoCounts, LoopMeansReady, StopJustified, NeverFatal

LEMMA WatchStep == WatchInv /\ [Next]_vars => WatchInv'
BY TypeStep, MapStep, WalkStep, NoneMayWaitStep, VisitedStep, LoopStep, CheckStepRight, StopStep, FatalStep
   DEF WatchInv

(* The inductive invariant: what a walk has seen so far is true of the
   providers it has passed, whatever they do meanwhile. *)
THEOREM WatchInvariant == Spec => []WatchInv
BY WatchInit, WatchStep, PTL DEF Spec

(* A consumer that waits for all of its providers enters its run loop only when
   every provider it still has is past waiting. *)
THEOREM NoLoopBeforeReady == Spec => []LoopMeansReady
BY WatchInvariant, PTL DEF WatchInv

(* checkProviders stops a component only for a provider that ended, failed or
   dropped it. *)
THEOREM StopsAreJustified == Spec => []StopJustified
BY WatchInvariant, PTL DEF WatchInv

(* No thread reaches the Fatal of checkProviders. *)
THEOREM FatalUnreachable == Spec => []NeverFatal
BY WatchInvariant, PTL DEF WatchInv

-----------------------------------------------------------------------------
(***************************************************************************)
(* InputFallback.  Who is given up is the provider of the slot, for any    *)
(* finite set of providers.                                                *)
(***************************************************************************)

USE CountAssumption

LEMMA SlotCount == Cardinality(Provider) \in Nat
BY FS_CardinalityType

(* A list of as many slots as there are providers, no two alike, leaves none out. *)
LEMMA ListIsComplete ==
  ASSUME NEW list \in [Slot -> Provider], \A i, j \in Slot : list[i] = list[j] => i = j
  PROVE  \A p \in Provider : \E i \in Slot : list[i] = p
<1>1. IsFiniteSet(Slot) /\ Cardinality(Slot) = Cardinality(Provider)
  BY SlotCount, FS_Interval DEF Slot
<1>2. list \in Injection(Slot, Provider)
  BY DEF Injection, IsInjective
<1>3. list \in Surjection(Slot, Provider)
  BY <1>1, <1>2, FS_Injection
<1> QED
  BY <1>3 DEF Surjection

(* There is such a list. *)
LEMMA ListExists ==
  \E list \in [Slot -> Provider] : \A i, j \in Slot : list[i] = list[j] => i = j
<1> DEFINE n == Cardinality(Provider)
<1>1. PICK f : f \in Bijection(1 .. n, Provider)
  BY FS_CardinalityType DEF ExistsBijection
<1>2. f \in [1 .. n -> Provider] /\ \A a, b \in 1 .. n : f[a] = f[b] => a = b
  BY <1>1 DEF Bijection, Injection, IsInjective
<1>3. [i \in Slot |-> f[i + 1]] \in [Slot -> Provider]
  BY <1>2, SlotCount DEF Slot
<1>4. \A i, j \in Slot : f[i + 1] = f[j + 1] => i = j
  BY <1>2, SlotCount DEF Slot
<1> QED
  BY <1>3, <1>4

LEMMA FirstList ==
  ASSUME FallbackInit
  PROVE  /\ mProviderList \in [Slot -> Provider]
         /\ \A i, j \in Slot : mProviderList[i] = mProviderList[j] => i = j
BY ListExists DEF FallbackInit

(***************************************************************************)
(* Slots                                                                   *)
(***************************************************************************)
LEMMA SlotOf ==
  ASSUME NEW p \in Listed
  PROVE  priority(p) \in Slot /\ mProviderList[priority(p)] = p
BY DEF Listed, priority

LEMMA OnlySlot ==
  ASSUME SlotsFollowMap, NEW i \in Slot, mProviderList[i] # None
  PROVE  mProviderList[i] \in Listed /\ priority(mProviderList[i]) = i
<1>1. mProviderList[i] \in Listed
  BY DEF Listed
<1> QED
  BY <1>1, SlotOf DEF SlotsFollowMap

(* A slot given up changes nothing for the others. *)
LEMMA SlotGivenUp ==
  ASSUME FallbackTyped, SlotsFollowMap, NEW p \in Provider, Deregister(p), mProviders' = mProviders \ {p}
  PROVE  /\ mProviderList' \in [Slot -> Provider \cup {None}]
         /\ SlotsFollowMap'
         /\ Listed' = Listed \ {p}
         /\ \A q \in Listed' : priority(q)' = priority(q)
<1> USE NoneAssumption
<1>1. /\ mProviderList' \in [Slot -> Provider \cup {None}]
      /\ \A i \in Slot : mProviderList'[i] = IF mProviderList[i] = p THEN None ELSE mProviderList[i]
  BY DEF Deregister, FallbackTyped
<1>2. Listed' = Listed \ {p}
  BY <1>1 DEF Listed
<1>3. ~(Provider \subseteq mProviders')
  OBVIOUS
<1>4. mProviders' \subseteq Listed'
  BY <1>2 DEF SlotsFollowMap
<1>5. ASSUME NEW i \in Slot, NEW j \in Slot, mProviderList'[i] = mProviderList'[j], i # j
      PROVE  mProviderList'[i] = None
  BY <1>1, <1>5 DEF SlotsFollowMap
<1>6. SlotsFollowMap'
  BY <1>3, <1>4, <1>5 DEF SlotsFollowMap
<1>7. ASSUME NEW q \in Listed' PROVE priority(q)' = priority(q)
  <2>1. q \in Listed /\ q # p /\ q # None
    BY <1>2 DEF Listed
  <2>2. \A i \in Slot : mProviderList'[i] = q <=> mProviderList[i] = q
    BY <1>1, <2>1
  <2> QED
    BY <2>2 DEF priority
<1> QED
  BY <1>1, <1>2, <1>6, <1>7

(***************************************************************************)
(* Steps that leave slots, current provider and history alone              *)
(***************************************************************************)
LEMMA QuietStep ==
  ASSUME FallbackInv, UNCHANGED << mProviderList, timedOut, mCurrentProvider, lastPassed, wasSilent, mProviders >>,
         mFrameQueue' \in Seq(Provider), Working' => Working,
         pc' # "crashed" \/ pc' = pc, Provider = {} => counts' = NoCounts
  PROVE  FallbackInv' /\ ~Flaps
<1> USE DEF FallbackInv
<1>1. Listed' = Listed /\ \A p : priority(p)' = priority(p)
  BY DEF Listed, priority
<1>2. FallbackTyped'
  BY DEF FallbackTyped
<1>3. SlotsFollowMap'
  BY <1>1 DEF SlotsFollowMap
<1>4. CurrentIsThere'
  BY DEF CurrentIsThere
<1>5. PassedIsCurrent'
  <2>1. priority(mCurrentProvider)' = priority(mCurrentProvider) /\ priority(lastPassed)' = priority(lastPassed)
    BY DEF priority
  <2> QED
    BY <1>1, <2>1 DEF PassedIsCurrent
<1>6. CrashNeedsDeparture'
  BY DEF CrashNeedsDeparture
<1>7. ~Flaps
  BY DEF Flaps
<1> QED
  BY <1>2, <1>3, <1>4, <1>5, <1>6, <1>7

(* The waiting and the checks are quiet. *)
LEMMA WaitQuiet ==
  ASSUME FallbackInv, Wait
  PROVE  FallbackInv' /\ ~Flaps
<1>1. UNCHANGED << mProviderList, timedOut, mCurrentProvider, lastPassed, wasSilent >> /\ mFrameQueue' \in Seq(Provider)
  BY DEF Wait, feeds, history, FallbackInv, FallbackTyped
<1>2. /\ mProviders' = mProviders /\ ~Working' /\ pc' # "crashed"
      /\ Provider = {} => counts' = NoCounts
  <2> USE DEF Working, CheckStep, FallbackInv, CurrentIsThere
  <2>1. CASE ReadSize
    BY <2>1 DEF ReadSize
  <2>2. CASE ReadSizeAgain
    BY <2>2 DEF ReadSizeAgain
  <2>3. CASE StartRound
    BY <2>3 DEF StartRound, LockProviders
  <2>4. CASE EndRound
    BY <2>4 DEF EndRound, wait
  <2>5. CASE Evaluate /\ pc' # "loop"
    BY <2>5 DEF Evaluate, wait
  <2>6. ASSUME NEW p \in Provider, ReadReady(p)
        PROVE  mProviders' = mProviders /\ ~Working' /\ pc' # "crashed"
    BY <2>6 DEF ReadReady
  <2>7. ASSUME NEW p \in Provider, ReadWait(p)
        PROVE  mProviders' = mProviders /\ ~Working' /\ pc' # "crashed"
    BY <2>7 DEF ReadWait
  <2> QED
    BY <2>1, <2>2, <2>3, <2>4, <2>5, <2>6, <2>7 DEF Wait
<1> QED
  BY <1>1, <1>2, QuietStep

LEMMA CheckQuiet ==
  ASSUME FallbackInv, Check
  PROVE  FallbackInv' /\ ~Flaps
<1>1. UNCHANGED << mProviderList, timedOut, mCurrentProvider, lastPassed, wasSilent >> /\ mFrameQueue' \in Seq(Provider)
  BY DEF Check, feeds, history, FallbackInv, FallbackTyped
<1>2. mProviders' = mProviders /\ Working /\ pc' # "crashed" /\ counts' = counts
  <2> USE DEF Working, CheckStep, wait
  <2>1. CASE StartCheck
    BY <2>1 DEF StartCheck, LockProviders
  <2>2. CASE EndCheck
    BY <2>2 DEF EndCheck
  <2>3. ASSUME NEW p \in Provider, CheckReady(p)
        PROVE  mProviders' = mProviders /\ Working /\ pc' # "crashed" /\ counts' = counts
    BY <2>3 DEF CheckReady
  <2>4. ASSUME NEW p \in Provider, CheckEnded(p)
        PROVE  mProviders' = mProviders /\ Working /\ pc' # "crashed" /\ counts' = counts
    BY <2>4 DEF CheckEnded
  <2>5. ASSUME NEW p \in Provider, CheckError(p)
        PROVE  mProviders' = mProviders /\ Working /\ pc' # "crashed" /\ counts' = counts
    BY <2>5 DEF CheckError
  <2> QED
    BY <2>1, <2>2, <2>3, <2>4, <2>5 DEF Check
<1> QED
  BY <1>1, <1>2, QuietStep DEF FallbackInv, CurrentIsThere

LEMMA OtherQuiet ==
  ASSUME FallbackInv, \/ Retry \/ LoopTop \/ EndFrames \/ Checked
                      \/ \E p \in Provider : QueueFrame(p) \/ Change(p)
  PROVE  FallbackInv' /\ ~Flaps
<1> DEFINE Quiet == /\ UNCHANGED << mProviderList, timedOut, mCurrentProvider, lastPassed, wasSilent, mProviders >>
                    /\ mFrameQueue' \in Seq(Provider) /\ (Working' => Working)
                    /\ pc' # "crashed" \/ pc' = pc
                    /\ counts' = counts
<1> USE DEF feeds, history, wait, vars, Working, CheckStep, FallbackInv, FallbackTyped
<1>1. ASSUME Retry PROVE Quiet
  BY <1>1 DEF Retry, ClearQueue
<1>2. ASSUME LoopTop PROVE Quiet
  BY <1>2 DEF LoopTop, GoTo
<1>3. ASSUME EndFrames PROVE Quiet
  BY <1>3 DEF EndFrames, GoTo
<1>4. ASSUME Checked PROVE Quiet
  BY <1>4 DEF Checked
<1>5. ASSUME NEW p \in Provider, QueueFrame(p) PROVE Quiet
  BY <1>5 DEF QueueFrame
<1>6. ASSUME NEW p \in Provider, Change(p) PROVE Quiet
  BY <1>6 DEF Change, SetReady, SetError, SetEnded, SetErrorAfterCleanup, SetState
<1>7. Quiet
  BY <1>1, <1>2, <1>3, <1>4, <1>5, <1>6
<1> QED
  BY <1>7, QuietStep DEF CurrentIsThere

(***************************************************************************)
(* The other steps                                                         *)
(***************************************************************************)
LEMMA DepartureStep ==
  ASSUME FallbackInv, NEW p \in Provider, Leave(p) \/ QueueFull(p)
  PROVE  FallbackInv' /\ ~Flaps
<1> USE NoneAssumption DEF FallbackInv
<1>1. /\ UNCHANGED << mCurrentProvider, mFrameQueue, lastPassed, wasSilent, pc, counts >>
      /\ mProviders' = mProviders \ {p} /\ Deregister(p)
  BY DEF Leave, QueueFull, LeaveMap, DropConsumer, history, wait
<1>2. /\ mProviderList' \in [Slot -> Provider \cup {None}] /\ SlotsFollowMap'
      /\ Listed' = Listed \ {p} /\ \A q \in Listed' : priority(q)' = priority(q)
  BY <1>1, SlotGivenUp
<1>3. FallbackTyped'
  BY <1>1, <1>2 DEF FallbackTyped
<1>4. CurrentIsThere'
  BY <1>1 DEF CurrentIsThere, Working
<1>5. PassedIsCurrent'
  <2>1. timedOut' \subseteq timedOut
    BY <1>1 DEF Deregister
  <2>2. ASSUME {lastPassed', mCurrentProvider'} \subseteq Listed', ~wasSilent'
        PROVE  priority(mCurrentProvider)' <= priority(lastPassed)'
    <3>1. lastPassed \in Listed' /\ mCurrentProvider \in Listed'
      BY <2>2, <1>1
    <3>2. priority(lastPassed)' = priority(lastPassed) /\ priority(mCurrentProvider)' = priority(mCurrentProvider)
      BY <3>1, <1>1, <1>2 DEF priority
    <3> QED
      BY <3>1, <3>2, <2>2, <1>1, <1>2 DEF PassedIsCurrent
  <2> QED
    BY <2>1, <2>2, <1>1 DEF PassedIsCurrent
<1>6. CrashNeedsDeparture'
  BY <1>1 DEF CrashNeedsDeparture
<1>7. ~Flaps
  BY <1>1 DEF Flaps
<1> QED
  BY <1>2, <1>3, <1>4, <1>5, <1>6, <1>7

LEMMA TimeOutStep ==
  ASSUME FallbackInv, NEW p \in Provider, TimeOut(p)
  PROVE  FallbackInv' /\ ~Flaps
<1> USE DEF FallbackInv
<1>1. /\ UNCHANGED << mProviders, pc, counts, mProviderList, mCurrentProvider, mFrameQueue, lastPassed >>
      /\ timedOut' = timedOut \cup {p} /\ wasSilent' = (wasSilent \/ p = lastPassed)
  BY DEF TimeOut, vars, wait
<1>2. Listed' = Listed /\ priority(mCurrentProvider)' = priority(mCurrentProvider) /\ priority(lastPassed)' = priority(lastPassed)
  BY <1>1 DEF Listed, priority
<1>3. FallbackTyped' /\ SlotsFollowMap' /\ CurrentIsThere' /\ CrashNeedsDeparture'
  BY <1>1, <1>2 DEF FallbackTyped, SlotsFollowMap, CurrentIsThere, CrashNeedsDeparture, Working
<1>4. PassedIsCurrent'
  BY <1>1, <1>2 DEF PassedIsCurrent
<1> QED
  BY <1>1, <1>3, <1>4 DEF Flaps

(* The wait ends with a ready provider, so there is a first slot. *)
LEMMA BeginStep ==
  ASSUME FallbackInv, Begin
  PROVE  FallbackInv' /\ ~Flaps
<1> USE NoneAssumption DEF FallbackInv
<1>1. /\ UNCHANGED << mProviders, counts, mProviderList, timedOut, mFrameQueue, lastPassed, wasSilent >>
      /\ mCurrentProvider' = mProviderList[0] /\ pc' = "loop" /\ counts.ready > 0
  BY DEF Begin, Evaluate, history, wait
<1>2. Provider # {}
  BY <1>1 DEF CurrentIsThere, NoCounts
<1>3. 0 \in Slot
  BY <1>2, SlotCount, FS_EmptySet DEF Slot
<1>4. Listed' = Listed /\ \A q : priority(q)' = priority(q)
  BY <1>1 DEF Listed, priority
<1>5. FallbackTyped'
  BY <1>1, <1>3 DEF FallbackTyped
<1>6. SlotsFollowMap' /\ CrashNeedsDeparture'
  BY <1>1, <1>4 DEF SlotsFollowMap, CrashNeedsDeparture
<1>7. CurrentIsThere'
  BY <1>1, <1>2, <1>3 DEF CurrentIsThere, SlotsFollowMap
<1>8. PassedIsCurrent'
  <2>1. ASSUME {lastPassed', mCurrentProvider'} \subseteq Listed'
        PROVE  priority(mCurrentProvider)' <= priority(lastPassed)'
    <3>1. mProviderList[0] # None /\ lastPassed \in Listed
      BY <2>1, <1>1, <1>4 DEF Listed
    <3>2. priority(mProviderList[0]) = 0 /\ priority(lastPassed) \in Slot
      BY <3>1, <1>3, OnlySlot, SlotOf
    <3>3. priority(mCurrentProvider)' = priority(mProviderList[0]) /\ priority(lastPassed)' = priority(lastPassed)
      BY <1>1 DEF priority
    <3> QED
      BY <3>2, <3>3, SlotCount DEF Slot
  <2> QED
    BY <2>1, <1>1 DEF PassedIsCurrent
<1> QED
  BY <1>1, <1>5, <1>6, <1>7, <1>8 DEF Flaps

(* A frame is passed on only if its provider is not behind the current one. *)
LEMMA HandleFrameStep ==
  ASSUME FallbackInv, HandleFrame
  PROVE  FallbackInv' /\ ~Flaps
<1> DEFINE provider == Head(mFrameQueue)
           current  == IF priority(provider) < priority(mCurrentProvider) THEN provider ELSE mCurrentProvider
<1> USE NoneAssumption DEF FallbackInv
<1>1. /\ UNCHANGED << mProviders, counts, mProviderList, pc >>
      /\ mFrameQueue # << >> /\ mFrameQueue' = Tail(mFrameQueue)
      /\ provider \in Listed /\ mCurrentProvider \in Listed
      /\ mCurrentProvider' = current /\ timedOut' = timedOut \ {provider}
  BY DEF HandleFrame, vars, wait
<1>2. \/ provider = current /\ lastPassed' = provider /\ wasSilent' = FALSE
      \/ provider # current /\ lastPassed' = lastPassed /\ wasSilent' = wasSilent
  BY DEF HandleFrame, history
<1>3. /\ provider \in Provider /\ mFrameQueue' \in Seq(Provider)
  BY <1>1 DEF FallbackTyped
<1>4. Listed' = Listed /\ SlotsFollowMap'
  BY <1>1 DEF Listed, SlotsFollowMap
<1>5. current \in Listed /\ priority(current) <= priority(mCurrentProvider)
  BY <1>1, SlotOf, SlotCount DEF Slot
<1> HIDE DEF provider, current
<1>6. FallbackTyped'
  BY <1>1, <1>2, <1>3, <1>5, Zenon DEF FallbackTyped, Listed
<1>7. CurrentIsThere' /\ CrashNeedsDeparture'
  BY <1>1, <1>5 DEF CurrentIsThere, CrashNeedsDeparture, Working, Listed
<1>8. priority(mCurrentProvider)' = priority(current) /\ priority(lastPassed)' = priority(lastPassed')
  BY <1>1 DEF priority
<1>9. priority(current) \in Int /\ priority(mCurrentProvider) \in Int
  BY <1>1, <1>5, SlotOf, SlotCount DEF Slot
<1>10. PassedIsCurrent' /\ ~Flaps
  <2>1. CASE provider = current /\ lastPassed' = provider /\ wasSilent' = FALSE
    <3>1. lastPassed' \notin timedOut'
      BY <2>1, <1>1
    <3>2. priority(mCurrentProvider)' <= priority(lastPassed)'
      BY <2>1, <1>8, <1>9
    <3>3. PassedIsCurrent'
      BY <3>1, <3>2 DEF PassedIsCurrent
    <3>4. ASSUME lastPassed \in Listed, ~wasSilent PROVE ~(priority(lastPassed) < priority(lastPassed'))
      <4>1. priority(mCurrentProvider) <= priority(lastPassed) /\ priority(lastPassed) \in Int
        BY <3>4, <1>1, SlotOf, SlotCount DEF PassedIsCurrent, Slot
      <4>2. priority(lastPassed') = priority(current)
        BY <2>1
      <4> QED
        BY <4>1, <4>2, <1>5, <1>9
    <3>5. ~Flaps
      BY <3>4 DEF Flaps
    <3> QED
      BY <3>3, <3>5
  <2>2. CASE provider # current /\ lastPassed' = lastPassed /\ wasSilent' = wasSilent
    <3>1. current = mCurrentProvider
      BY <2>2 DEF current
    <3>2. priority(mCurrentProvider)' = priority(mCurrentProvider) /\ priority(lastPassed)' = priority(lastPassed)
      BY <3>1, <2>2, <1>8
    <3> QED
      BY <3>1, <3>2, <2>2, <1>1, <1>4 DEF PassedIsCurrent, Flaps
  <2> QED
    BY <1>2, <2>1, <2>2
<1> QED
  BY <1>4, <1>6, <1>7, <1>10

(* While all providers are there, each has its slot. *)
LEMMA AllListed ==
  ASSUME FallbackInv, Provider \subseteq mProviders
  PROVE  Provider \subseteq Listed
BY DEF FallbackInv, SlotsFollowMap

LEMMA NoneStep ==
  ASSUME FallbackInv, HandleFrameOfNone \/ CheckTimeoutOfNone
  PROVE  FallbackInv' /\ ~Flaps
<1> USE DEF FallbackInv
<1>1. /\ UNCHANGED << mProviders, counts, mProviderList, timedOut, mCurrentProvider, mFrameQueue, lastPassed, wasSilent >>
      /\ pc' = "crashed" /\ Working
      /\ \/ mFrameQueue # << >> /\ ~({Head(mFrameQueue), mCurrentProvider} \subseteq Listed)
         \/ mCurrentProvider \notin Listed
  BY DEF HandleFrameOfNone, CheckTimeoutOfNone, GoTo, feeds, history, wait, Working
<1>2. ~(Provider \subseteq mProviders)
  <2> SUFFICES ASSUME Provider \subseteq mProviders PROVE FALSE
    OBVIOUS
  <2>1. mCurrentProvider \in Listed
    BY <1>1, AllListed DEF CurrentIsThere, FallbackTyped
  <2>2. mFrameQueue # << >> => Head(mFrameQueue) \in Listed
    BY AllListed DEF FallbackTyped
  <2> QED
    BY <1>1, <2>1, <2>2
<1>3. Listed' = Listed /\ priority(mCurrentProvider)' = priority(mCurrentProvider) /\ priority(lastPassed)' = priority(lastPassed)
  BY <1>1 DEF Listed, priority
<1>4. FallbackTyped' /\ SlotsFollowMap' /\ PassedIsCurrent'
  BY <1>1, <1>3 DEF FallbackTyped, SlotsFollowMap, PassedIsCurrent
<1>5. CurrentIsThere' /\ CrashNeedsDeparture'
  BY <1>1, <1>2 DEF CurrentIsThere, CrashNeedsDeparture, Working, CheckStep
<1> QED
  BY <1>1, <1>4, <1>5 DEF Flaps

(* The next slot is taken only from a provider that has been silent. *)
LEMMA CheckTimeoutStep ==
  ASSUME FallbackInv, CheckTimeout
  PROVE  FallbackInv' /\ ~Flaps
<1> DEFINE next == priority(mCurrentProvider) + 1
<1> USE NoneAssumption DEF FallbackInv
<1>1. /\ UNCHANGED << mProviders, counts, mProviderList, timedOut, mFrameQueue, lastPassed, wasSilent >>
      /\ mCurrentProvider \in Listed /\ Working
      /\ \/ /\ mCurrentProvider \in timedOut /\ next \in Slot
            /\ mCurrentProvider' = mProviderList[next]
            /\ pc' = IF mProviderList[next] = None THEN "crashed" ELSE "loop"
         \/ mCurrentProvider' = mCurrentProvider /\ pc' = "loop"
  BY DEF CheckTimeout, GoTo, history, wait, Working
<1>2. CASE mCurrentProvider' = mCurrentProvider /\ pc' = "loop"
  <2>1. pc' # "crashed" /\ mFrameQueue' \in Seq(Provider) /\ (Provider = {} => counts' = NoCounts)
    BY <1>1, <1>2 DEF FallbackTyped, CurrentIsThere
  <2> QED
    BY <1>1, <1>2, <2>1, QuietStep
<1>3. CASE /\ mCurrentProvider \in timedOut /\ next \in Slot
           /\ mCurrentProvider' = mProviderList[next]
           /\ pc' = IF mProviderList[next] = None THEN "crashed" ELSE "loop"
  <2>1. Listed' = Listed /\ priority(mCurrentProvider)' = priority(mProviderList[next])
                        /\ priority(lastPassed)' = priority(lastPassed)
    BY <1>1, <1>3 DEF Listed, priority
  <2>2. FallbackTyped'
    BY <1>1, <1>3 DEF FallbackTyped
  <2>3. SlotsFollowMap'
    BY <1>1, <2>1 DEF SlotsFollowMap
  <2>4. Provider \subseteq mProviders => mProviderList[next] # None
    BY <1>3 DEF SlotsFollowMap
  <2>5. CrashNeedsDeparture'
    BY <1>1, <1>3, <2>4 DEF CrashNeedsDeparture
  <2>6. CurrentIsThere'
    BY <1>1, <1>3, <2>4 DEF CurrentIsThere, Working, CheckStep
  <2>7. PassedIsCurrent'
    <3>1. ASSUME {lastPassed', mCurrentProvider'} \subseteq Listed', ~wasSilent'
          PROVE  priority(mCurrentProvider)' <= priority(lastPassed)'
      <4>1. lastPassed \in Listed /\ mProviderList[next] # None /\ ~wasSilent
        BY <3>1, <2>1, <1>1, <1>3 DEF Listed
      <4>2. priority(mProviderList[next]) = next
        BY <4>1, <1>3, OnlySlot
      <4>3. lastPassed # mCurrentProvider
        BY <4>1, <1>3 DEF PassedIsCurrent
      <4>4. priority(mCurrentProvider) <= priority(lastPassed)
        BY <4>1, <1>1 DEF PassedIsCurrent
      <4>5. priority(mCurrentProvider) # priority(lastPassed)
        BY <4>1, <4>3, <1>1, SlotOf
      <4>6. priority(mCurrentProvider) \in Int /\ priority(lastPassed) \in Int
        BY <4>1, <1>1, SlotOf, SlotCount DEF Slot
      <4> QED
        BY <2>1, <4>2, <4>4, <4>5, <4>6
    <3> QED
      BY <3>1, <1>1 DEF PassedIsCurrent
  <2>8. ~Flaps
    BY <1>1 DEF Flaps
  <2> QED
    BY <2>2, <2>3, <2>5, <2>6, <2>7, <2>8
<1> QED
  BY <1>1, <1>2, <1>3

(***************************************************************************)
(* The fallback                                                            *)
(***************************************************************************)
LEMMA FallbackStart == FallbackInit => FallbackInv
<1> SUFFICES ASSUME FallbackInit PROVE FallbackInv
  OBVIOUS
<1> USE NoneAssumption
<1>1. /\ mProviderList \in [Slot -> Provider]
      /\ \A i, j \in Slot : mProviderList[i] = mProviderList[j] => i = j
  BY FirstList
<1>2. Provider \subseteq Listed
  BY <1>1, ListIsComplete DEF Listed
<1>3. FallbackTyped
  BY <1>1 DEF FallbackTyped, FallbackInit, Init
<1>4. SlotsFollowMap
  BY <1>1, <1>2 DEF SlotsFollowMap, FallbackInit, Init
<1>5. CurrentIsThere /\ CrashNeedsDeparture
  BY DEF CurrentIsThere, CrashNeedsDeparture, Working, CheckStep, FallbackInit, Init
<1>6. PassedIsCurrent
  BY DEF PassedIsCurrent, FallbackInit, Listed
<1> QED
  BY <1>3, <1>4, <1>5, <1>6 DEF FallbackInv

LEMMA FallbackStep ==
  ASSUME FallbackInv, [FallbackNext]_fallbackVars
  PROVE  FallbackInv' /\ (CrashNeedsDeparture' /\ ~Flaps)
<1>1. CASE RunStep
  BY <1>1, WaitQuiet, CheckQuiet, OtherQuiet, BeginStep, HandleFrameStep, NoneStep, CheckTimeoutStep
     DEF RunStep, FallbackInv
<1>2. ASSUME NEW p \in Provider, FeedStep(p) PROVE FallbackInv' /\ ~Flaps
  BY <1>2, OtherQuiet, DepartureStep, TimeOutStep DEF FeedStep
<1>3. CASE UNCHANGED fallbackVars
  <2>1. /\ UNCHANGED << mProviderList, timedOut, mCurrentProvider, lastPassed, wasSilent, mProviders, pc, counts >>
        /\ mFrameQueue' = mFrameQueue
    BY <1>3 DEF fallbackVars, vars, feeds, history, wait
  <2>2. (Working' => Working) /\ mFrameQueue' \in Seq(Provider) /\ (Provider = {} => counts' = NoCounts)
    BY <2>1 DEF Working, FallbackInv, FallbackTyped, CurrentIsThere
  <2> QED
    BY <2>1, <2>2, QuietStep DEF FallbackInv
<1> QED
  BY <1>1, <1>2, <1>3 DEF FallbackNext, FallbackInv

(* The inductive invariant, for any finite set of providers (ozInputFallback.cpp:60-150). *)
THEOREM FallbackInvariant == FallbackSpec => []FallbackInv
<1>1. FallbackInv /\ [FallbackNext]_fallbackVars => FallbackInv'
  BY FallbackStep
<1> QED
  BY <1>1, FallbackStart, PTL DEF FallbackSpec

(* The fallback stays with what serves, and a NULL entry is met only after a departure,
   for any providers and any queue size (ozInputFallback.cpp:60-150). *)
THEOREM FallbackAlwaysHolds == FallbackSpec => FallbackHolds
<1>1. FallbackInv /\ [FallbackNext]_fallbackVars => [CrashNeedsDeparture' /\ ~Flaps]_fallbackVars
  BY FallbackStep
<1> QED
  BY <1>1, FallbackInvariant, PTL DEF FallbackSpec, FallbackHolds

HIDE CountAssumption


-----------------------------------------------------------------------------
(***************************************************************************)
(* MotionDetector.  The alarms agree between frames; a frame that is       *)
(* analysed sets them all from the same set of zones, any other step       *)
(* leaves them alone.                                                      *)
(***************************************************************************)

-----------------------------------------------------------------------------
(***************************************************************************)
(* MotionDetector.  The alarms agree between frames; a frame that is       *)
(* analysed sets them all from the same set of zones, any other step       *)
(* leaves them alone.                                                      *)
(***************************************************************************)

LEMMA MotionStart == MotionInit => AlarmsAgree
  BY DEF MotionInit, AlarmsAgree, Alarmed

\* What a zone in the set of the detected ones says of the others.
LEMMA DetectedTypes ==
  /\ Detected \subseteq Zone
  /\ \A z \in Detected : mType[z] \in {"ACTIVE", "INCLUSIVE", "EXCLUSIVE"}
  /\ (\E z \in Detected : mType[z] = "INCLUSIVE") => \E z \in Detected : mType[z] = "ACTIVE"
  BY DEF Detected, Moving

\* The alarms after a frame that was looked at.
LEMMA AnalyseAgrees ==
  ASSUME Analyse, mFrameCount > mReadyCount, mType' = mType
  PROVE  AlarmsAgree'
<1>1. /\ zoneAlarmed' = [z \in Zone |-> z \in Detected]
      /\ crashed' = \E z \in Detected : mType[z] \notin {"ACTIVE", "INCLUSIVE"}
      /\ mAlarmed' = IF crashed' THEN mAlarmed ELSE Detected # {}
  BY DEF Analyse
<1> SUFFICES ASSUME ~crashed' PROVE AlarmsAgree'
  BY DEF AlarmsAgree
<1>2. \A z \in Detected : mType[z] \in {"ACTIVE", "INCLUSIVE"}
  BY <1>1
<1>3. mAlarmed' = (Detected # {})
  BY <1>1
<1>4. \A z \in Zone : zoneAlarmed'[z] = (z \in Detected)
  BY <1>1
<1>5. mAlarmed' = \E z \in Zone : zoneAlarmed'[z]
  BY <1>3, <1>4, DetectedTypes
<1>6. \A type : Alarmed(type)' = \E z \in Detected : mType[z] = type
  BY <1>4, DetectedTypes DEF Alarmed
<1>7. ~Alarmed("PRECLUSIVE")' /\ ~Alarmed("INACTIVE")' /\ ~Alarmed("EXCLUSIVE")'
  BY <1>2, <1>6
<1>8. Alarmed("INCLUSIVE")' => Alarmed("ACTIVE")'
  BY <1>6, DetectedTypes
<1> QED
  BY <1>5, <1>7, <1>8 DEF AlarmsAgree

LEMMA MotionStep == AlarmsAgree /\ [MotionNext]_motionVars => AlarmsAgree' 
<1> SUFFICES ASSUME AlarmsAgree, [MotionNext]_motionVars PROVE AlarmsAgree'
  OBVIOUS
<1>1. CASE Frame /\ mFrameCount > mReadyCount
  BY <1>1, AnalyseAgrees DEF Frame
<1>2. CASE Frame /\ ~(mFrameCount > mReadyCount)
  <2>1. UNCHANGED << mType, mAlarmed, zoneAlarmed, crashed >>
    BY <1>2 DEF Frame, Analyse
  <2> QED
    BY <2>1 DEF AlarmsAgree, Alarmed
<1>3. CASE ChangeScene
  BY <1>3 DEF ChangeScene, AlarmsAgree, Alarmed
<1>4. CASE UNCHANGED motionVars
  BY <1>4 DEF motionVars, AlarmsAgree, Alarmed
<1> QED
  BY <1>1, <1>2, <1>3, <1>4 DEF MotionNext

LEMMA PreclusionStep == [MotionNext]_motionVars => PreclusionHolds \/ UNCHANGED motionVars
<1> SUFFICES ASSUME MotionNext, Moving("PRECLUSIVE") # {}, mFrameCount > mReadyCount, scene' = scene
             PROVE  ~mAlarmed' /\ ~crashed'
  BY DEF PreclusionHolds
<1>1. Frame
  BY DEF MotionNext, ChangeScene
<1>2. Detected = {}
  BY DEF Detected
<1> QED
  BY <1>1, <1>2 DEF Frame, Analyse

\* The alarm of the detector and those of its zones agree after every frame, and a
\* preclusive zone in motion prevents an alarm.
THEOREM AlarmsAlwaysHold == MotionSpec => AlarmsHold
<1>1. AlarmsAgree /\ [MotionNext]_motionVars => [AlarmsAgree' /\ PreclusionHolds]_motionVars
  BY MotionStep, PreclusionStep
<1> QED
  BY <1>1, MotionStart, MotionStep, PTL DEF MotionSpec, AlarmsHold

-----------------------------------------------------------------------------
(***************************************************************************)
(* ImageFormats.  First what is read from a pixel of each format, then that *)
(* each operation makes a pixel of its format, a case for each.            *)
(***************************************************************************)

\* A pixel with the three channels kinds.
ThreeOf(b, kinds, S) == DOMAIN b = 1 .. 3 /\ ByteOf(b[1], kinds[1], S) /\ ByteOf(b[2], kinds[2], S) /\ ByteOf(b[3], kinds[3], S)

(* The bytes of a pixel, format by format. *)
LEMMA PixelKinds ==
    ASSUME NEW b, NEW S
    PROVE  /\ PixelOf("GREY", b, S) <=> DOMAIN b = 1 .. 1 /\ ByteOf(b[1], "Y", S)
           /\ PixelOf("GREY16", b, S) <=> DOMAIN b = 1 .. 2 /\ ByteOf(b[1], "Y", S) /\ ByteOf(b[2], "YLow", S)
           /\ PixelOf("RGB", b, S) <=> ThreeOf(b, RGB, S)
           /\ PixelOf("RGB48", b, S) <=>
                  /\ DOMAIN b = 1 .. 6
                  /\ ByteOf(b[1], "R", S) /\ ByteOf(b[3], "G", S) /\ ByteOf(b[5], "B", S)
                  /\ ByteOf(b[2], "RLow", S) /\ ByteOf(b[4], "GLow", S) /\ ByteOf(b[6], "BLow", S)
           /\ \A f \in {"YUV", "YUVP"} : PixelOf(f, b, S) <=> ThreeOf(b, yuv, S)
           /\ \A f \in {"YUVJ", "YUVJP"} : PixelOf(f, b, S) <=> ThreeOf(b, YUV, S)
<1>1. PixelOf("GREY", b, S) <=> DOMAIN b = 1 .. 1 /\ ByteOf(b[1], "Y", S)
  <2>1. Kinds["GREY"] = << "Y" >> /\ DOMAIN << "Y" >> = 1 .. 1
    BY DEF Kinds
  <2>2. \A i : i \in 1 .. 1 <=> i = 1
    OBVIOUS
  <2> QED
    BY <2>1, <2>2 DEF PixelOf
<1>2. PixelOf("GREY16", b, S) <=> DOMAIN b = 1 .. 2 /\ ByteOf(b[1], "Y", S) /\ ByteOf(b[2], "YLow", S)
  <2>1. Kinds["GREY16"] = << "Y", "YLow" >> /\ DOMAIN << "Y", "YLow" >> = 1 .. 2
    BY DEF Kinds
  <2>2. \A i : i \in 1 .. 2 <=> i \in {1, 2}
    OBVIOUS
  <2> QED
    BY <2>1, <2>2 DEF PixelOf
<1> DEFINE Three(f, kinds) == PixelOf(f, b, S) <=> ThreeOf(b, kinds, S)
<1>3. ASSUME NEW f, NEW k1, NEW k2, NEW k3, Kinds[f] = << k1, k2, k3 >>
      PROVE  Three(f, << k1, k2, k3 >>)
  <2>1. DOMAIN << k1, k2, k3 >> = 1 .. 3 /\ \A i : i \in 1 .. 3 <=> i \in {1, 2, 3}
    OBVIOUS
  <2> QED
    BY <2>1, <1>3 DEF PixelOf, ThreeOf
<1>4. PixelOf("RGB48", b, S) <=>
          /\ DOMAIN b = 1 .. 6
          /\ ByteOf(b[1], "R", S) /\ ByteOf(b[3], "G", S) /\ ByteOf(b[5], "B", S)
          /\ ByteOf(b[2], "RLow", S) /\ ByteOf(b[4], "GLow", S) /\ ByteOf(b[6], "BLow", S)
  <2> DEFINE ks == << "R", "RLow", "G", "GLow", "B", "BLow" >>
  <2>1. Kinds["RGB48"] = ks /\ DOMAIN ks = 1 .. 6
    BY DEF Kinds
  <2>2. \A i : i \in 1 .. 6 <=> i \in {1, 2, 3, 4, 5, 6}
    OBVIOUS
  <2>3. ks[1] = "R" /\ ks[2] = "RLow" /\ ks[3] = "G" /\ ks[4] = "GLow" /\ ks[5] = "B" /\ ks[6] = "BLow"
    OBVIOUS
  <2> HIDE DEF ks
  <2> QED
    BY <2>1, <2>2, <2>3 DEF PixelOf
<1>5. Kinds["RGB"] = RGB /\ Kinds["YUV"] = yuv /\ Kinds["YUVP"] = yuv /\ Kinds["YUVJ"] = YUV /\ Kinds["YUVJP"] = YUV
  BY DEF Kinds, RGB, yuv, YUV
<1>6. Three("RGB", RGB) /\ Three("YUV", yuv) /\ Three("YUVP", yuv) /\ Three("YUVJ", YUV) /\ Three("YUVJP", YUV)
  BY <1>3, <1>5 DEF RGB, yuv, YUV
<1> QED
  BY <1>1, <1>2, <1>4, <1>6

(* What is calculated from one byte and from three. *)
LEMMA CalculatedOfOne ==
    ASSUME NEW kind, NEW x, NEW k, Fits(x, k)
    PROVE  Calculated(kind, << x >>, << k >>) = [is |-> kind, of |-> x.of]
<1>1. UNION { << x >>[i].of : i \in DOMAIN << x >> } = x.of
  <2>1. DOMAIN << x >> = {1} /\ << x >>[1] = x
    OBVIOUS
  <2> HIDE DEF Fits
  <2> QED
    BY <2>1
<1>2. \A i \in DOMAIN << k >> : Fits(<< x >>[i], << k >>[i])
  OBVIOUS
<1> QED
  BY <1>1, <1>2 DEF Calculated

LEMMA CalculatedOfThree ==
    ASSUME NEW kind, NEW b, DOMAIN b = 1 .. 3, NEW k1, NEW k2, NEW k3, Fits(b[1], k1), Fits(b[2], k2), Fits(b[3], k3)
    PROVE  Calculated(kind, b, << k1, k2, k3 >>) = [is |-> kind, of |-> b[1].of \cup b[2].of \cup b[3].of]
<1>1. \A i : i \in 1 .. 3 <=> i \in {1, 2, 3}
  OBVIOUS
<1>2. UNION { b[i].of : i \in DOMAIN b } = b[1].of \cup b[2].of \cup b[3].of
  BY <1>1
<1>3. \A i \in DOMAIN << k1, k2, k3 >> : Fits(b[i], << k1, k2, k3 >>[i])
  OBVIOUS
<1> QED
  BY <1>2, <1>3 DEF Calculated

(* From the three channels of a colour space to a channel of another. *)
LEMMA Conversion ==
    ASSUME NEW S, NEW b, NEW kind, NEW kinds, kinds \in {RGB, yuv, YUV}, ThreeOf(b, kinds, S)
    PROVE  Calculated(kind, b, kinds) = [is |-> kind, of |-> S]
<1>1. kinds = << kinds[1], kinds[2], kinds[3] >>
  BY DEF RGB, yuv, YUV
<1>2. Fits(b[1], kinds[1]) /\ Fits(b[2], kinds[2]) /\ Fits(b[3], kinds[3]) /\ DOMAIN b = 1 .. 3
  BY DEF ThreeOf, ByteOf, IsLow, Fits, RGB, yuv, YUV
<1>3. b[1].of \cup b[2].of \cup b[3].of = S
  BY DEF ThreeOf, ByteOf, IsLow, RGB, yuv, YUV
<1> DEFINE k1 == kinds[1]  k2 == kinds[2]  k3 == kinds[3]
<1>4. Fits(b[1], k1) /\ Fits(b[2], k2) /\ Fits(b[3], k3)
  BY <1>2
<1>5. kinds = << k1, k2, k3 >>
  BY <1>1
<1> HIDE DEF k1, k2, k3
<1> QED
  BY <1>2, <1>3, <1>4, <1>5, CalculatedOfThree

(* From one channel to one of the other range, or to a colour. *)
LEMMA ConversionOfOne ==
    ASSUME NEW S, NEW x, NEW k, NEW kind, ByteOf(x, k, S), ~IsLow(k)
    PROVE  Calculated(kind, << x >>, << k >>) = [is |-> kind, of |-> x.of]
  BY CalculatedOfOne DEF ByteOf, Fits

(* A pixel read as luminance, as colours and as luminance with colour differences. *)
LEMMA HighOf ==
    ASSUME NEW b, NEW S, PixelOf("RGB48", b, S)
    PROVE  ThreeOf(High(b), RGB, S)
<1>1. ByteOf(b[1], "R", S) /\ ByteOf(b[3], "G", S) /\ ByteOf(b[5], "B", S)
  BY PixelKinds
<1> QED
  BY <1>1 DEF High, ThreeOf, RGB

LEMMA LuminanceOf ==
    ASSUME NEW f \in Format, NEW b, NEW S, PixelOf(f, b, S)
    PROVE  Luminance(f, b).is = "Y" /\ Luminance(f, b).of = S
<1>1. CASE f \in {"GREY", "GREY16", "YUVJ", "YUVJP"}
  <2>1. ByteOf(b[1], "Y", S)
    BY <1>1, PixelKinds DEF ThreeOf, YUV
  <2>2. Luminance(f, b) = b[1]
    BY <1>1 DEF Luminance
  <2> QED
    BY <2>1, <2>2 DEF ByteOf, IsLow
<1>2. CASE f = "RGB"
  <2>1. Luminance(f, b) = Calculated("Y", b, RGB)
    BY <1>2 DEF Luminance, RGB2YUVJ, YUV
  <2>2. ThreeOf(b, RGB, S)
    BY <1>2, PixelKinds
  <2> QED
    BY <2>1, <2>2, Conversion
<1>3. CASE f = "RGB48"
  <2>1. Luminance(f, b) = Calculated("Y", High(b), RGB)
    BY <1>3 DEF Luminance, RGB2YUVJ, YUV
  <2>2. ThreeOf(High(b), RGB, S)
    BY <1>3, HighOf
  <2> QED
    BY <2>1, <2>2, Conversion
<1>4. CASE f \in {"YUV", "YUVP"}
  <2>1. ByteOf(b[1], "y", S)
    BY <1>4, PixelKinds DEF ThreeOf, yuv
  <2>2. Luminance(f, b) = Calculated("Y", << b[1] >>, << "y" >>)
    BY <1>4 DEF Luminance, YUV2YUVJ, YUV, yuv
  <2>3. Luminance(f, b) = [is |-> "Y", of |-> b[1].of]
    BY <2>1, <2>2, ConversionOfOne DEF IsLow
  <2> QED
    BY <2>1, <2>3 DEF ByteOf, IsLow
<1> QED
  BY <1>1, <1>2, <1>3, <1>4 DEF Format

LEMMA RgbOf ==
    ASSUME NEW f \in Format, NEW b, NEW S, PixelOf(f, b, S)
    PROVE  ThreeOf(Rgb(f, b), RGB, S)
<1>0. \A k \in {"R", "G", "B"} : ByteOf([is |-> k, of |-> S], k, S)
  BY DEF ByteOf, IsLow
<1>1. CASE f \in {"GREY", "GREY16"}
  <2>1. ByteOf(b[1], "Y", S) /\ b[1].of = S
    BY <1>1, PixelKinds DEF ByteOf, IsLow
  <2>2. Rgb(f, b) = [c \in 1 .. 3 |-> Calculated(RGB[c], << b[1] >>, << "Y" >>)]
    BY <1>1 DEF Rgb
  <2>3. \A k : Calculated(k, << b[1] >>, << "Y" >>) = [is |-> k, of |-> S]
    BY <2>1, ConversionOfOne DEF IsLow
  <2> QED
    BY <1>0, <2>2, <2>3 DEF ThreeOf, RGB
<1>2. CASE f = "RGB"
  BY <1>2, PixelKinds DEF Rgb
<1>3. CASE f = "RGB48"
  BY <1>3, HighOf DEF Rgb
<1>4. CASE f \in {"YUV", "YUVP"}
  <2>1. ThreeOf(b, yuv, S)
    BY <1>4, PixelKinds
  <2>2. Rgb(f, b) = [c \in 1 .. 3 |-> Calculated(RGB[c], b, yuv)]
    BY <1>4 DEF Rgb, YUV2RGB
  <2>3. \A k : Calculated(k, b, yuv) = [is |-> k, of |-> S]
    BY <2>1, Conversion
  <2> QED
    BY <1>0, <2>2, <2>3 DEF ThreeOf, RGB
<1>5. CASE f \in {"YUVJ", "YUVJP"}
  <2>1. ThreeOf(b, YUV, S)
    BY <1>5, PixelKinds
  <2>2. Rgb(f, b) = [c \in 1 .. 3 |-> Calculated(RGB[c], b, YUV)]
    BY <1>5 DEF Rgb, YUVJ2RGB
  <2>3. \A k : Calculated(k, b, YUV) = [is |-> k, of |-> S]
    BY <2>1, Conversion
  <2> QED
    BY <1>0, <2>2, <2>3 DEF ThreeOf, RGB
<1> QED
  BY <1>1, <1>2, <1>3, <1>4, <1>5 DEF Format

LEMMA NeutralFits == \A S : \A k \in {"u", "v", "U", "V"} : ByteOf(Neutral, k, S)
  BY DEF ByteOf, IsLow, Neutral, Fits

LEMMA YuvOf ==
    ASSUME NEW f \in Format, NEW b, NEW S, PixelOf(f, b, S)
    PROVE  ThreeOf(Yuv(f, b), yuv, S)
<1>0. \A k \in {"y", "u", "v"} : ByteOf([is |-> k, of |-> S], k, S)
  BY DEF ByteOf, IsLow, Fits
<1>1. CASE f \in {"GREY", "GREY16"}
  <2>1. ByteOf(b[1], "Y", S) /\ b[1].of = S
    BY <1>1, PixelKinds DEF ByteOf, IsLow
  <2>2. YUVJ2YUV(1, b[1]) = [is |-> "y", of |-> S]
    BY <2>1, ConversionOfOne DEF IsLow, YUVJ2YUV, YUV, yuv
  <2>3. Yuv(f, b) = << YUVJ2YUV(1, b[1]), Neutral, Neutral >>
    BY <1>1 DEF Yuv
  <2> QED
    BY <1>0, <2>2, <2>3, NeutralFits DEF ThreeOf, yuv
<1>2. CASE f \in {"RGB", "RGB48"}
  <2> DEFINE rgb == IF f = "RGB" THEN b ELSE High(b)
  <2>1. ThreeOf(rgb, RGB, S)
    BY <1>2, PixelKinds, HighOf
  <2>2. Yuv(f, b) = [c \in 1 .. 3 |-> Calculated(yuv[c], rgb, RGB)]
    BY <1>2 DEF Yuv, RGB2YUV
  <2>3. \A k : Calculated(k, rgb, RGB) = [is |-> k, of |-> S]
    BY <2>1, Conversion
  <2> HIDE DEF rgb
  <2> QED
    BY <1>0, <2>2, <2>3 DEF ThreeOf, yuv
<1>3. CASE f \in {"YUV", "YUVP"}
  BY <1>3, PixelKinds DEF Yuv
<1>4. CASE f \in {"YUVJ", "YUVJP"}
  <2>1. ByteOf(b[1], "Y", S) /\ ByteOf(b[2], "U", S) /\ ByteOf(b[3], "V", S)
    BY <1>4, PixelKinds DEF ThreeOf, YUV
  <2>2. Yuv(f, b) = [c \in 1 .. 3 |-> YUVJ2YUV(c, b[c])]
    BY <1>4 DEF Yuv
  <2>3. /\ YUVJ2YUV(1, b[1]) = [is |-> "y", of |-> b[1].of]
        /\ YUVJ2YUV(2, b[2]) = [is |-> "u", of |-> b[2].of]
        /\ YUVJ2YUV(3, b[3]) = [is |-> "v", of |-> b[3].of]
    BY <2>1, ConversionOfOne DEF IsLow, YUVJ2YUV, YUV, yuv
  <2>4. /\ ByteOf([is |-> "y", of |-> b[1].of], "y", S)
        /\ ByteOf([is |-> "u", of |-> b[2].of], "u", S)
        /\ ByteOf([is |-> "v", of |-> b[3].of], "v", S)
    BY <2>1 DEF ByteOf, IsLow, Fits
  <2> QED
    BY <2>2, <2>3, <2>4 DEF ThreeOf, yuv
<1> QED
  BY <1>1, <1>2, <1>3, <1>4 DEF Format

LEMMA YuvjOf ==
    ASSUME NEW f \in Format, NEW b, NEW S, PixelOf(f, b, S)
    PROVE  ThreeOf(Yuvj(f, b), YUV, S)
<1>0. \A k \in {"Y", "U", "V"} : ByteOf([is |-> k, of |-> S], k, S)
  BY DEF ByteOf, IsLow, Fits
<1>1. CASE f \in {"GREY", "GREY16"}
  <2>1. ByteOf(b[1], "Y", S)
    BY <1>1, PixelKinds
  <2>2. Yuvj(f, b) = << b[1], Neutral, Neutral >>
    BY <1>1 DEF Yuvj
  <2> QED
    BY <2>1, <2>2, NeutralFits DEF ThreeOf, YUV
<1>2. CASE f \in {"RGB", "RGB48"}
  <2> DEFINE rgb == IF f = "RGB" THEN b ELSE High(b)
  <2>1. ThreeOf(rgb, RGB, S)
    BY <1>2, PixelKinds, HighOf
  <2>2. Yuvj(f, b) = [c \in 1 .. 3 |-> Calculated(YUV[c], rgb, RGB)]
    BY <1>2 DEF Yuvj, RGB2YUVJ
  <2>3. \A k : Calculated(k, rgb, RGB) = [is |-> k, of |-> S]
    BY <2>1, Conversion
  <2> HIDE DEF rgb
  <2> QED
    BY <1>0, <2>2, <2>3 DEF ThreeOf, YUV
<1>3. CASE f \in {"YUVJ", "YUVJP"}
  BY <1>3, PixelKinds DEF Yuvj
<1>4. CASE f \in {"YUV", "YUVP"}
  <2>1. ByteOf(b[1], "y", S) /\ ByteOf(b[2], "u", S) /\ ByteOf(b[3], "v", S)
    BY <1>4, PixelKinds DEF ThreeOf, yuv
  <2>2. Yuvj(f, b) = [c \in 1 .. 3 |-> YUV2YUVJ(c, b[c])]
    BY <1>4 DEF Yuvj
  <2>3. /\ YUV2YUVJ(1, b[1]) = [is |-> "Y", of |-> b[1].of]
        /\ YUV2YUVJ(2, b[2]) = [is |-> "U", of |-> b[2].of]
        /\ YUV2YUVJ(3, b[3]) = [is |-> "V", of |-> b[3].of]
    BY <2>1, ConversionOfOne DEF IsLow, YUV2YUVJ, YUV, yuv
  <2>4. /\ ByteOf([is |-> "Y", of |-> b[1].of], "Y", S)
        /\ ByteOf([is |-> "U", of |-> b[2].of], "U", S)
        /\ ByteOf([is |-> "V", of |-> b[3].of], "V", S)
    BY <2>1 DEF ByteOf, IsLow, Fits
  <2> QED
    BY <2>2, <2>3, <2>4 DEF ThreeOf, YUV
<1> QED
  BY <1>1, <1>2, <1>3, <1>4 DEF Format

(* Colours with their low bytes. *)
LEMMA WideOf ==
    ASSUME NEW S, NEW rgb, NEW low, ThreeOf(rgb, RGB, S), ThreeOf(low, RGBLow, S)
    PROVE  PixelOf("RGB48", Wide(rgb, low), S)
<1>1. /\ ByteOf(rgb[1], "R", S) /\ ByteOf(rgb[2], "G", S) /\ ByteOf(rgb[3], "B", S)
      /\ ByteOf(low[1], "RLow", S) /\ ByteOf(low[2], "GLow", S) /\ ByteOf(low[3], "BLow", S)
  BY DEF ThreeOf, RGB, RGBLow
<1> DEFINE b == Wide(rgb, low)
<1>2. DOMAIN b = 1 .. 6 /\ b[1] = rgb[1] /\ b[2] = low[1] /\ b[3] = rgb[2] /\ b[4] = low[2] /\ b[5] = rgb[3] /\ b[6] = low[3]
  BY DEF Wide
<1> HIDE DEF b
<1>3. PixelOf("RGB48", b, S)
  BY <1>1, <1>2, PixelKinds
<1> QED
  BY <1>3 DEF b

LEMMA NoLowFits == \A S : ThreeOf(NoLow, RGBLow, S)
  BY DEF ThreeOf, NoLow, RGBLow, Zero, ByteOf, IsLow

LEMMA FreshOf == ASSUME NEW f, NEW k PROVE PixelOf(f, Fresh(f, k), {k})
  BY DEF PixelOf, Fresh, ByteOf, IsLow, Fits

(* A converted pixel has the channels of its new format. *)
LEMMA ConvertOf ==
    ASSUME NEW to \in Format, NEW f \in Format, NEW b, NEW S, PixelOf(f, b, S)
    PROVE  PixelOf(to, Convert(to, f, b), S)
<1>1. ByteOf(Luminance(f, b), "Y", S)
  BY LuminanceOf DEF ByteOf, IsLow
<1>2. CASE to = "GREY"
  <2>1. Convert(to, f, b) = << Luminance(f, b) >>
    BY <1>2 DEF Convert, ConvertGrey
  <2> QED
    BY <1>1, <1>2, <2>1, PixelKinds
<1>3. CASE to = "GREY16"
  <2>1. Convert(to, f, b) = << Luminance(f, b), Zero >>
    BY <1>3 DEF Convert, ConvertGrey16
  <2>2. ByteOf(Zero, "YLow", S)
    BY DEF Zero, ByteOf, IsLow
  <2> QED
    BY <1>1, <1>3, <2>1, <2>2, PixelKinds
<1>4. CASE to = "RGB"
  BY <1>4, RgbOf, PixelKinds DEF Convert, ConvertRgb
<1>5. CASE to = "RGB48"
  BY <1>5, RgbOf, WideOf, NoLowFits DEF Convert, ConvertRgb48
<1>6. CASE to \in {"YUV", "YUVP"}
  <2>1. Convert(to, f, b) = Yuv(f, b)
    BY <1>6 DEF Convert, ConvertYuv, ConvertYuvp
  <2> QED
    BY <1>6, <2>1, YuvOf, PixelKinds
<1>7. CASE to \in {"YUVJ", "YUVJP"}
  <2>1. Convert(to, f, b) = Yuvj(f, b)
    BY <1>7 DEF Convert, ConvertYuvj, ConvertYuvjp
  <2> QED
    BY <1>7, <2>1, YuvjOf, PixelKinds
<1> QED
  BY <1>2, <1>3, <1>4, <1>5, <1>6, <1>7 DEF Format

(* A pixel of another image shows unless it is black. *)
LEMMA ShowsUnlessBlack ==
    ASSUME NEW f \in Format, NEW b, NEW S, PixelOf(f, b, S), \A c \in DOMAIN Kinds[f] : b[c].is = Kinds[f][c],
           NEW colour \in Colour
    PROVE  /\ Shows(f, b, colour) <=> colour # "black"
           /\ f # "RGB48" => (ShowsInGrey(f, b, colour) <=> colour # "black")
<1>1. CASE f = "RGB"
  <2>1. b[1].is = "R" /\ b[2].is = "G" /\ b[3].is = "B"
    BY <1>1, PixelKinds DEF ThreeOf, RGB, ByteOf, IsLow
  <2> QED
    BY <1>1, <2>1 DEF Shows, ShowsInGrey, Lit, Colour
<1>2. CASE f = "RGB48"
  <2>1. b[1].is = "R" /\ b[3].is = "G" /\ b[5].is = "B"
    BY <1>2, PixelKinds DEF ByteOf, IsLow
  <2> QED
    BY <1>2, <2>1 DEF Shows, Lit, Colour
<1>3. CASE f \in {"GREY", "GREY16", "YUV", "YUVP", "YUVJ", "YUVJP"}
  <2>1. b[1].is \in {"Y", "y"}
    BY <1>3, PixelKinds DEF ThreeOf, yuv, YUV, ByteOf, IsLow
  <2> QED
    BY <1>3, <2>1 DEF Shows, ShowsInGrey, Lit, Colour
<1> QED
  BY <1>1, <1>2, <1>3 DEF Format

(* Laid over, a pixel that is not black takes the place of the one below. *)
LEMMA OverlaidOf ==
    ASSUME NEW f \in Format, mFormat \in Format, << "overlay", mFormat, f >> \notin Oddity,
           PixelOf(mFormat, pixel, made), NEW k, NEW colour \in Colour
    PROVE  PixelOf(mFormat, Overlaid(f, Fresh(f, k), colour), IF colour = "black" THEN made ELSE {k})
<1> DEFINE b == Fresh(f, k)
           S == {k}
           new == Overlaid(f, b, colour)
<1>1. PixelOf(f, b, S) /\ \A c \in DOMAIN Kinds[f] : b[c].is = Kinds[f][c]
  BY FreshOf DEF Fresh
<1>2. Shows(f, b, colour) <=> colour # "black"
  BY <1>1, ShowsUnlessBlack
<1>3. mFormat \in {"GREY", "GREY16"} => (f # "RGB48" /\ (ShowsInGrey(f, b, colour) <=> colour # "black"))
  BY <1>1, ShowsUnlessBlack DEF Oddity
<1> SUFFICES PixelOf(mFormat, new, IF colour = "black" THEN made ELSE S)
  OBVIOUS
<1> HIDE DEF b, S
<1>4. CASE colour = "black"
  <2>1. new = pixel
    BY <1>2, <1>3, <1>4 DEF Overlaid, OverlayGrey, OverlayGrey16, OverlayRgb, OverlayRgb48, OverlayYuv, OverlayYuvj,
       OverlayYuvp, OverlayYuvjp, Format
  <2> QED
    BY <1>4, <2>1
<1>5. CASE colour # "black"
  <2> SUFFICES PixelOf(mFormat, new, S)
    BY <1>5
  <2>1. ByteOf(Luminance(f, b), "Y", S)
    BY <1>1, LuminanceOf DEF ByteOf, IsLow
  <2>2. CASE mFormat = "GREY"
    <3>1. new = << Luminance(f, b) >>
      BY <1>3, <1>5, <2>2 DEF Overlaid, OverlayGrey
    <3> QED
      BY <2>1, <2>2, <3>1, PixelKinds
  <2>3. CASE mFormat = "GREY16"
    <3> DEFINE low == IF f = "GREY16" THEN b[2] ELSE Zero
    <3>1. new = << Luminance(f, b), low >>
      BY <1>3, <1>5, <2>3 DEF Overlaid, OverlayGrey16
    <3>2. ByteOf(low, "YLow", S)
      BY <1>1, PixelKinds DEF Zero, ByteOf, IsLow
    <3> HIDE DEF low
    <3> QED
      BY <2>1, <2>3, <3>1, <3>2, PixelKinds
  <2>4. CASE mFormat = "RGB"
    <3>1. new = Rgb(f, b)
      BY <1>2, <1>5, <2>4 DEF Overlaid, OverlayRgb
    <3> QED
      BY <1>1, <2>4, <3>1, RgbOf, PixelKinds
  <2>5. CASE mFormat = "RGB48"
    <3>1. CASE f = "RGB48"
      <4>1. new = b
        BY <1>2, <1>5, <2>5, <3>1 DEF Overlaid, OverlayRgb48
      <4> QED
        BY <1>1, <2>5, <3>1, <4>1
    <3>2. CASE f = "GREY16"
      <4> DEFINE low == [c \in 1 .. 3 |-> Calculated(RGBLow[c], << b[2] >>, << "YLow" >>)]
      <4>1. new = Wide(Rgb(f, b), low)
        BY <1>2, <1>5, <2>5, <3>2 DEF Overlaid, OverlayRgb48
      <4>2. b[2].is = "YLow" /\ b[2].of \subseteq S
        BY <1>1, <3>2, PixelKinds DEF Kinds, ByteOf, IsLow
      <4>3. \A l : Calculated(l, << b[2] >>, << "YLow" >>) = [is |-> l, of |-> b[2].of]
        BY <4>2, CalculatedOfOne DEF Fits
      <4>4. ThreeOf(low, RGBLow, S)
        <5>1. low = [c \in 1 .. 3 |-> [is |-> RGBLow[c], of |-> b[2].of]]
          BY <4>3
        <5>2. RGBLow[1] = "RLow" /\ RGBLow[2] = "GLow" /\ RGBLow[3] = "BLow"
          BY DEF RGBLow
        <5> HIDE DEF low
        <5>3. DOMAIN low = 1 .. 3 /\ low[1] = [is |-> "RLow", of |-> b[2].of]
              /\ low[2] = [is |-> "GLow", of |-> b[2].of] /\ low[3] = [is |-> "BLow", of |-> b[2].of]
          BY <5>1, <5>2
        <5> QED
          BY <4>2, <5>2, <5>3 DEF ThreeOf, ByteOf, IsLow
      <4> HIDE DEF low
      <4> QED
        BY <1>1, <2>5, <4>1, <4>4, RgbOf, WideOf
    <3>3. CASE f \notin {"RGB", "RGB48", "GREY16"}
      <4>1. new = Wide(Rgb(f, b), NoLow)
        BY <1>2, <1>5, <2>5, <3>3 DEF Overlaid, OverlayRgb48
      <4> QED
        BY <1>1, <2>5, <4>1, RgbOf, WideOf, NoLowFits
    <3> QED
      BY <2>5, <3>1, <3>2, <3>3 DEF Oddity
  <2>6. CASE mFormat \in {"YUV", "YUVP"}
    <3>1. new = Yuv(f, b)
      BY <1>2, <1>5, <2>6 DEF Overlaid, OverlayYuv, OverlayYuvp
    <3> QED
      BY <1>1, <2>6, <3>1, YuvOf, PixelKinds
  <2>7. CASE mFormat \in {"YUVJ", "YUVJP"}
    <3>1. new = Yuvj(f, b)
      BY <1>2, <1>5, <2>7 DEF Overlaid, OverlayYuvj, OverlayYuvjp
    <3> QED
      BY <1>1, <2>7, <3>1, YuvjOf, PixelKinds
  <2> QED
    BY <2>2, <2>3, <2>4, <2>5, <2>6, <2>7 DEF Format
<1> QED
  BY <1>4, <1>5

(* A byte that takes in another of its kind stays of it, and both have their share. *)
LEMMA FadedOf ==
    ASSUME NEW ref, NEW picture, NEW kind, ~IsLow(kind), NEW S, NEW T, ByteOf(ref, kind, S), ByteOf(picture, kind, T),
           kind \notin {"0", "128"}, NEW bits, NEW less, NEW f, mColourDepth[f] - less = bits
    PROVE  ByteOf(Faded(ref, picture, bits, less, f), kind, S \cup T)
  BY DEF Faded, ByteOf, Fits

LEMMA FadedWideOf ==
    ASSUME NEW high, NEW low, NEW picture, NEW kind, NEW lowKind, ~IsLow(kind), IsLow(lowKind), kind \notin {"0", "128", "u", "v", "U", "V"},
           NEW S, NEW T, ByteOf(high, kind, S), ByteOf(low, lowKind, S), ByteOf(picture, kind, T),
           NEW bits, NEW less, NEW f, mColourDepth[f] - less = bits
    PROVE  /\ ByteOf(FadedWide(high, low, picture, bits, less, f)[1], kind, S \cup T)
           /\ ByteOf(FadedWide(high, low, picture, bits, less, f)[2], lowKind, S \cup T)
<1> DEFINE faded == Faded(high, picture, bits, less, f)
           second == [is |-> IF low.is = "0" THEN "low" ELSE low.is, of |-> faded.of]
<1>1. ByteOf(faded, kind, S \cup T)
  BY FadedOf
<1>2. faded.of = S \cup T
  BY <1>1 DEF ByteOf
<1>3. ByteOf(second, lowKind, S \cup T)
  BY <1>2 DEF ByteOf
<1>4. FadedWide(high, low, picture, bits, less, f) = << faded, second >>
  BY DEF FadedWide
<1> HIDE DEF faded, second
<1> QED
  BY <1>1, <1>3, <1>4

LEMMA Faded3Of ==
    ASSUME NEW kinds, kinds \in {RGB, yuv, YUV}, NEW S, NEW T, ThreeOf(pixel, kinds, S),
           NEW b, ThreeOf(b, kinds, T), NEW f, NEW less, mColourDepth[f] - less = 8
    PROVE  ThreeOf(Faded3(b, f, less), kinds, S \cup T)
<1>1. \A c \in 1 .. 3 : ~IsLow(kinds[c]) /\ kinds[c] \notin {"0", "128"}
  BY DEF RGB, yuv, YUV, IsLow
<1>2. \A c \in 1 .. 3 : ByteOf(pixel[c], kinds[c], S) /\ ByteOf(b[c], kinds[c], T)
  <2>1. \A c \in 1 .. 3 : c \in {1, 2, 3}
    OBVIOUS
  <2> QED
    BY <2>1 DEF ThreeOf
<1>3. \A c \in 1 .. 3 : ByteOf(Faded(pixel[c], b[c], 8, less, f), kinds[c], S \cup T)
  BY <1>1, <1>2, FadedOf
<1> QED
  BY <1>3 DEF Faded3, ThreeOf

LEMMA Depths ==
    /\ \A f \in Format : mColourDepth[f] - Less8(f, BothWide) = 8
    /\ \A f \in Format \ {"RGB48"} : mColourDepth[f] - Less8(f, {"GREY16"}) = 8
    /\ \A f \in Format : mColourDepth[f] - 0 = mColourDepth[f]
    /\ \A f \in Format : mColourDepth[f] - Less8(f, {"RGB48"}) = (IF f = "GREY16" THEN 16 ELSE 8)
  BY DEF mColourDepth, Less8, BothWide, Format

(* Blended in, an image leaves its share in every channel. *)
LEMMA BlendedOf ==
    ASSUME NEW f \in Format, mFormat \in Format, << "blend", mFormat, f >> \notin Oddity,
           PixelOf(mFormat, pixel, made), NEW b, NEW T, PixelOf(f, b, T)
    PROVE  PixelOf(mFormat, BlendedWith(f, b), made \cup T)
<1> DEFINE new == BlendedWith(f, b)
<1>1. ByteOf(Luminance(f, b), "Y", T)
  BY LuminanceOf DEF ByteOf, IsLow
<1>2. CASE mFormat = "GREY"
  <2>1. new = << Faded(pixel[1], Luminance(f, b), 8, Less8(f, {"GREY16"}), f) >>
    BY <1>2 DEF BlendedWith, BlendGrey
  <2>2. mColourDepth[f] - Less8(f, {"GREY16"}) = 8
    BY <1>2, Depths DEF Oddity
  <2>3. ByteOf(pixel[1], "Y", made)
    BY <1>2, PixelKinds
  <2>4. ~IsLow("Y") /\ "Y" \notin {"0", "128"}
    BY DEF IsLow
  <2>5. ByteOf(Faded(pixel[1], Luminance(f, b), 8, Less8(f, {"GREY16"}), f), "Y", made \cup T)
    BY <1>1, <2>2, <2>3, <2>4, FadedOf
  <2> QED
    BY <1>2, <2>1, <2>5, PixelKinds
<1>3. CASE mFormat = "GREY16"
  <2> DEFINE bits == IF f = "GREY16" THEN 16 ELSE 8
  <2>1. new = FadedWide(pixel[1], pixel[2], Luminance(f, b), bits, Less8(f, {"RGB48"}), f)
    BY <1>3 DEF BlendedWith, BlendGrey16
  <2>2. ByteOf(pixel[1], "Y", made) /\ ByteOf(pixel[2], "YLow", made)
    BY <1>3, PixelKinds
  <2>3. mColourDepth[f] - Less8(f, {"RGB48"}) = bits
    BY Depths
  <2>4. DOMAIN new = 1 .. 2
    BY <2>1 DEF FadedWide
  <2> HIDE DEF bits
  <2>5. ByteOf(new[1], "Y", made \cup T) /\ ByteOf(new[2], "YLow", made \cup T)
    BY <1>1, <2>1, <2>2, <2>3, FadedWideOf DEF IsLow
  <2> QED
    BY <1>3, <2>4, <2>5, PixelKinds
<1>4. CASE mFormat = "RGB"
  <2>1. new = Faded3(Rgb(f, b), f, Less8(f, BothWide))
    BY <1>4 DEF BlendedWith, BlendRgb
  <2>2. ThreeOf(new, RGB, made \cup T)
    BY <1>4, <2>1, RgbOf, PixelKinds, Depths, Faded3Of
  <2> QED
    BY <1>4, <2>2, PixelKinds
<1>5. CASE mFormat = "RGB48"
  <2> DEFINE Channel(c) == FadedWide(pixel[2 * c - 1], pixel[2 * c], Rgb(f, b)[c], mColourDepth[f], 0, f)
             high == [c \in 1 .. 3 |-> Channel(c)[1]]
             low == [c \in 1 .. 3 |-> Channel(c)[2]]
  <2>1. new = Wide(high, low)
    BY <1>5 DEF BlendedWith, BlendRgb48
  <2>2. /\ ByteOf(pixel[1], "R", made) /\ ByteOf(pixel[3], "G", made) /\ ByteOf(pixel[5], "B", made)
        /\ ByteOf(pixel[2], "RLow", made) /\ ByteOf(pixel[4], "GLow", made) /\ ByteOf(pixel[6], "BLow", made)
    BY <1>5, PixelKinds
  <2>3. ByteOf(Rgb(f, b)[1], "R", T) /\ ByteOf(Rgb(f, b)[2], "G", T) /\ ByteOf(Rgb(f, b)[3], "B", T)
    BY RgbOf DEF ThreeOf, RGB
  <2>4. ByteOf(Channel(1)[1], "R", made \cup T) /\ ByteOf(Channel(1)[2], "RLow", made \cup T)
    <3>1. ~IsLow("R") /\ IsLow("RLow") /\ "R" \notin {"0", "128", "u", "v", "U", "V"} /\ mColourDepth[f] - 0 = mColourDepth[f]
      BY Depths DEF IsLow
    <3>2. Channel(1) = FadedWide(pixel[1], pixel[2], Rgb(f, b)[1], mColourDepth[f], 0, f)
      OBVIOUS
    <3> HIDE DEF Channel
    <3> QED
      BY <2>2, <2>3, <3>1, <3>2, FadedWideOf
  <2>5. ByteOf(Channel(2)[1], "G", made \cup T) /\ ByteOf(Channel(2)[2], "GLow", made \cup T)
    <3>1. ~IsLow("G") /\ IsLow("GLow") /\ "G" \notin {"0", "128", "u", "v", "U", "V"} /\ mColourDepth[f] - 0 = mColourDepth[f]
      BY Depths DEF IsLow
    <3>2. Channel(2) = FadedWide(pixel[3], pixel[4], Rgb(f, b)[2], mColourDepth[f], 0, f)
      OBVIOUS
    <3> HIDE DEF Channel
    <3> QED
      BY <2>2, <2>3, <3>1, <3>2, FadedWideOf
  <2>6. ByteOf(Channel(3)[1], "B", made \cup T) /\ ByteOf(Channel(3)[2], "BLow", made \cup T)
    <3>1. ~IsLow("B") /\ IsLow("BLow") /\ "B" \notin {"0", "128", "u", "v", "U", "V"} /\ mColourDepth[f] - 0 = mColourDepth[f]
      BY Depths DEF IsLow
    <3>2. Channel(3) = FadedWide(pixel[5], pixel[6], Rgb(f, b)[3], mColourDepth[f], 0, f)
      OBVIOUS
    <3> HIDE DEF Channel
    <3> QED
      BY <2>2, <2>3, <3>1, <3>2, FadedWideOf
  <2> HIDE DEF Channel
  <2>7. ThreeOf(high, RGB, made \cup T) /\ ThreeOf(low, RGBLow, made \cup T)
    BY <2>4, <2>5, <2>6 DEF ThreeOf, RGB, RGBLow
  <2> QED
    BY <1>5, <2>1, <2>7, WideOf
<1>6. CASE mFormat \in {"YUV", "YUVP"}
  <2>1. new = Faded3(Yuv(f, b), f, Less8(f, BothWide))
    BY <1>6 DEF BlendedWith, BlendYuv, BlendYuvp
  <2>2. ThreeOf(new, yuv, made \cup T)
    BY <1>6, <2>1, YuvOf, PixelKinds, Depths, Faded3Of
  <2> QED
    BY <1>6, <2>2, PixelKinds
<1>7. CASE mFormat \in {"YUVJ", "YUVJP"}
  <2>1. new = Faded3(Yuvj(f, b), f, Less8(f, BothWide))
    BY <1>7 DEF BlendedWith, BlendYuvj, BlendYuvjp
  <2>2. ThreeOf(new, YUV, made \cup T)
    BY <1>7, <2>1, YuvjOf, PixelKinds, Depths, Faded3Of
  <2> QED
    BY <1>7, <2>2, PixelKinds
<1> QED
  BY <1>2, <1>3, <1>4, <1>5, <1>6, <1>7 DEF Format

(* Luminances are compared with luminances. *)
LEMMA YDeltaOf ==
    ASSUME NEW f \in Format, mFormat \in Format, << "yDelta", mFormat, f >> \notin Oddity,
           NEW S, PixelOf(mFormat, pixel, S), NEW b, NEW T, PixelOf(f, b, T)
    PROVE  DifferenceOf(YDelta(f, b), S, T) /\ YDelta(f, b)[1].is = "Y"
<1> DEFINE mine == YDelta(f, b)[1]
<1>1. YDelta(f, b) = << mine, Luminance(f, b) >> /\ mine = Luminance(mFormat, pixel)
  <2>1. CASE mFormat \in {"GREY", "GREY16", "YUVJ", "YUVJP"}
    BY <2>1 DEF YDelta, YDeltaGrey, YDeltaGrey16, YDeltaYuvj, YDeltaYuvjp, Luminance
  <2>2. CASE mFormat = "RGB"
    BY <2>2 DEF YDelta, YDeltaRgb, Luminance
  <2>3. CASE mFormat = "RGB48"
    BY <2>3 DEF YDelta, YDeltaRgb48, Luminance, Oddity
  <2>4. CASE mFormat \in {"YUV", "YUVP"}
    BY <2>4 DEF YDelta, YDeltaYuv, YDeltaYuvp, Luminance
  <2> QED
    BY <2>1, <2>2, <2>3, <2>4 DEF Format
<1>2. Luminance(mFormat, pixel).is = "Y" /\ Luminance(mFormat, pixel).of = S
  BY LuminanceOf
<1>3. Luminance(f, b).is = "Y" /\ Luminance(f, b).of = T
  BY LuminanceOf
<1> HIDE DEF mine
<1> QED
  BY <1>1, <1>2, <1>3 DEF DifferenceOf

LEMMA OneDifference ==
    ASSUME NEW pair, NEW S, NEW T, DifferenceOf(pair, S, T), pair[1].is = "Y"
    PROVE  DifferencesOf({pair}, S, T)
<1>1. { p[1].is : p \in {pair} } = {"Y"}
  OBVIOUS
<1> QED
  BY <1>1 DEF DifferencesOf

(* Three colours are compared with the same three. *)
LEMMA DeltaOf ==
    ASSUME NEW f \in Format, mFormat \in Format, << ComparedBy(mFormat, f), mFormat, f >> \notin Oddity,
           NEW S, PixelOf(mFormat, pixel, S), NEW b, NEW T, PixelOf(f, b, T)
    PROVE  DifferencesOf(Delta(f, b), S, T)
<1>1. CASE ComparedBy(mFormat, f) = "yDelta"
  <2>1. Delta(f, b) = {YDelta(f, b)}
    BY <1>1 DEF Delta, ComparedBy, Format
  <2> QED
    BY <1>1, <2>1, YDeltaOf, OneDifference
<1>2. CASE ComparedBy(mFormat, f) # "yDelta"
  <2> DEFINE mine == Rgb(mFormat, pixel)
             other == Rgb(f, b)
  <2>1. mFormat \in {"RGB", "RGB48"} /\ f \in {"RGB", "RGB48", "YUV", "YUVJ"} /\ ~(mFormat = "RGB48" /\ f = "RGB48")
    BY <1>2 DEF ComparedBy, Oddity, Format
  <2>2. Delta(f, b) = { << mine[c], other[c] >> : c \in 1 .. 3 }
    <3>1. CASE mFormat = "RGB"
      BY <1>2, <2>1, <3>1 DEF Delta, DeltaRgb, Rgb
    <3>2. CASE mFormat = "RGB48"
      <4>1. Delta(f, b) = { << pixel[2 * c - 1], other[c] >> : c \in 1 .. 3 }
        BY <1>2, <2>1, <3>2 DEF Delta, DeltaRgb48
      <4>2. \A c \in 1 .. 3 : mine[c] = pixel[2 * c - 1]
        <5>1. mine = << pixel[1], pixel[3], pixel[5] >>
          BY <3>2 DEF Rgb, High
        <5> HIDE DEF mine
        <5>2. \A c \in 1 .. 3 : c = 1 \/ c = 2 \/ c = 3
          OBVIOUS
        <5> QED
          BY <5>1, <5>2
      <4> QED
        BY <4>1, <4>2
    <3> QED
      BY <2>1, <3>1, <3>2
  <2>3. ThreeOf(mine, RGB, S) /\ ThreeOf(other, RGB, T)
    BY RgbOf
  <2> HIDE DEF mine, other
  <2>4. \A c \in 1 .. 3 : /\ mine[c].is = RGB[c] /\ mine[c].of = S
                          /\ other[c].is = RGB[c] /\ other[c].of = T
    <3>1. \A c \in 1 .. 3 : c = 1 \/ c = 2 \/ c = 3
      OBVIOUS
    <3> QED
      BY <2>3, <3>1 DEF ThreeOf, RGB, ByteOf, IsLow
  <2>5. \A pair \in Delta(f, b) : DifferenceOf(pair, S, T)
    BY <2>2, <2>4 DEF DifferenceOf
  <2>6. { pair[1].is : pair \in Delta(f, b) } = { RGB[c] : c \in 1 .. 3 }
    <3>1. \A pair \in Delta(f, b) : pair[1].is \in { RGB[c] : c \in 1 .. 3 }
      BY <2>2, <2>4
    <3>2. \A c \in 1 .. 3 : \E pair \in Delta(f, b) : pair[1].is = RGB[c]
      <4> TAKE c \in 1 .. 3
      <4>1. << mine[c], other[c] >> \in Delta(f, b)
        BY <2>2
      <4>2. << mine[c], other[c] >>[1].is = RGB[c]
        BY <2>4
      <4> QED
        BY <4>1, <4>2
    <3> QED
      BY <3>1, <3>2
  <2>7. { RGB[c] : c \in 1 .. 3 } = {"R", "G", "B"}
    <3>1. 1 .. 3 = {1, 2, 3}
      OBVIOUS
    <3> QED
      BY <3>1 DEF RGB
  <2> QED
    BY <2>5, <2>6, <2>7 DEF DifferencesOf
<1> QED
  BY <1>1, <1>2

(***************************************************************************)
(* The inductive invariant: unless something odd happened, the pixel has   *)
(* the channels of its format, made of the images it should be made of.    *)
(***************************************************************************)
LEMMA FormatInvInit == FormatInit => FormatInv
  BY FormatAssumption, FreshOf DEF FormatInit, FormatInv, FormatsAgree, ChannelsAgree, DifferencesAgree

LEMMA FormatInvStep == FormatInv /\ [FormatNext]_formatVars => FormatInv'
<1> SUFFICES ASSUME FormatInv, [FormatNext]_formatVars PROVE FormatInv'
  OBVIOUS
<1>1. ASSUME NEW f \in Format, ConvertTo(f) PROVE FormatInv'
  BY <1>1, ConvertOf DEF FormatInv, FormatsAgree, ChannelsAgree, DifferencesAgree, ConvertTo
<1>2. ASSUME NEW f \in Format, NEW colour \in Colour, Overlay(f, colour) PROVE FormatInv'
  <2>1. ~odd' => ~odd /\ << "overlay", mFormat, f >> \notin Oddity
    BY <1>2 DEF Overlay, TakesPart
  <2>2. made' = (IF colour = "black" THEN made ELSE {images'})
    BY <1>2 DEF Overlay
  <2>3. ~odd' => PixelOf(mFormat, Overlaid(f, Fresh(f, images'), colour), made')
    BY <2>1, <2>2, OverlaidOf DEF FormatInv, FormatsAgree, ChannelsAgree, DifferencesAgree
  <2> QED
    BY <1>2, <2>3 DEF FormatInv, FormatsAgree, ChannelsAgree, DifferencesAgree, Overlay, TakesPart
<1>3. ASSUME NEW f \in Format, Blend(f) PROVE FormatInv'
  <2>1. ~odd' => ~odd /\ << "blend", mFormat, f >> \notin Oddity
    BY <1>3 DEF Blend, TakesPart
  <2>2. PixelOf(f, Fresh(f, images'), {images'})
    BY FreshOf
  <2>3. ~odd' => PixelOf(mFormat, BlendedWith(f, Fresh(f, images')), made \cup {images'})
    BY <2>1, <2>2, BlendedOf DEF FormatInv, FormatsAgree, ChannelsAgree, DifferencesAgree
  <2> QED
    BY <1>3, <2>3 DEF FormatInv, FormatsAgree, ChannelsAgree, DifferencesAgree, Blend, TakesPart
<1>4. ASSUME NEW f \in Format, CompareColours(f) PROVE FormatInv'
  <2>1. ~odd' => ~odd /\ << ComparedBy(mFormat, f), mFormat, f >> \notin Oddity
    BY <1>4 DEF CompareColours, TakesPart, ComparedBy
  <2>2. PixelOf(f, Fresh(f, images'), {images'})
    BY FreshOf
  <2>3. ~odd' => DifferencesOf(Delta(f, Fresh(f, images')), made, {images'})
    BY <2>1, <2>2, DeltaOf DEF FormatInv, FormatsAgree, ChannelsAgree, DifferencesAgree
  <2> QED
    BY <1>4, <2>1, <2>3 DEF FormatInv, FormatsAgree, ChannelsAgree, DifferencesAgree, CompareColours, TakesPart
<1>5. ASSUME NEW f \in Format, CompareLuminance(f) PROVE FormatInv'
  <2>1. ~odd' => ~odd /\ << "yDelta", mFormat, f >> \notin Oddity
    BY <1>5 DEF CompareLuminance, TakesPart
  <2>2. PixelOf(f, Fresh(f, images'), {images'})
    BY FreshOf
  <2>3. ~odd' => DifferencesOf({YDelta(f, Fresh(f, images'))}, made, {images'})
    BY <2>1, <2>2, YDeltaOf, OneDifference DEF FormatInv, FormatsAgree, ChannelsAgree, DifferencesAgree
  <2> QED
    BY <1>5, <2>1, <2>3 DEF FormatInv, FormatsAgree, ChannelsAgree, DifferencesAgree, CompareLuminance, TakesPart
<1>6. CASE UNCHANGED formatVars
  BY <1>6 DEF formatVars, FormatInv, FormatsAgree, ChannelsAgree, DifferencesAgree
<1> QED
  BY <1>1, <1>2, <1>3, <1>4, <1>5, <1>6, FormatAssumption DEF FormatNext

(* The pixel and the differences are of the images that took part, channel by channel. *)
THEOREM FormatInvariant == FormatSpec => []FormatInv
  BY FormatInvInit, FormatInvStep, PTL DEF FormatSpec

(* Whatever is converted, laid over, blended and compared, in whichever formats and however    *)
(* often, channels stay channels and are compared with their own kind, but in the six odd      *)
(* pairs of formats (libimgImage.cpp:1437-9140).                                               *)
THEOREM FormatsAlwaysAgree == FormatSpec => []FormatsAgree
<1>1. FormatInv => FormatsAgree
  BY DEF FormatInv
<1> QED
  BY <1>1, FormatInvariant, PTL

-----------------------------------------------------------------------------
(***************************************************************************)
(* BlobScan.  For a picture of any size under any mask, any number of tags *)
(* and any limits.                                                         *)
(***************************************************************************)

(* A part that takes in every neighbour it has in a set, and a set without such parts but itself. *)
Closed(part, set) == \A p \in part, q \in set : Adjacent(p, q) => q \in part

Joined(set) == \A part \in SUBSET set : part # {} /\ Closed(part, set) => part = set

(* A component of the white pixels, as a set. *)
Whole(set) == set \in SUBSET white /\ Joined(set) /\ Closed(set, white)

Scanned(p) == p[2] < scanY \/ (p[2] = scanY /\ p[1] < scanX)

InBox(p, blob) == p[1] \in blob.loX .. blob.hiX /\ p[2] \in blob.loY .. blob.hiY

BlobData == [pixels : Nat, loX : Int, hiX : Int, loY : Int, hiY : Int]

BlobTypes ==
    /\ mask \in SUBSET Pixel
    /\ white \in SUBSET mask
    /\ img \in [Pixel -> 0 .. NTags + 1]
    /\ blobs \in [Tag -> BlobData]
    /\ pos \in 0 .. Width * Height + 1
    /\ tooMany \in BOOLEAN
    /\ tooMany => ~Scanning

(* The scan has left no white pixel behind it and touched none ahead. *)
ColoursHold ==
    /\ \A p \in Pixel : img[p] # BLACK => p \in white
    /\ ~tooMany => \A p \in Pixel : IF Scanned(p) THEN img[p] # WHITE
                                    ELSE img[p] = IF p \in white THEN WHITE ELSE BLACK

TagsHold ==
    /\ \A t \in Tag : /\ blobs[t].pixels = Cardinality(Tagged(t))
                      /\ Joined(Tagged(t))
                      /\ \A p \in Tagged(t) : InBox(p, blobs[t])
    /\ \A p, q \in Pixel : img[p] \in Tag /\ img[q] \in Tag /\ Adjacent(p, q) => img[p] = img[q]
    /\ blobCount = Cardinality({ t \in Tag : blobs[t].pixels # 0 })

(* A white pixel that is black is one of a whole component that is out of size. *)
GoneIsBad ==
    ~tooMany => \A p \in white : img[p] = BLACK =>
        \E set : /\ p \in set /\ Whole(set) /\ OutOfSize([pixels |-> Cardinality(set)])
                 /\ \A q \in set : img[q] = BLACK

LeftIsGood == pos > Width * Height => \A t \in Tag : blobs[t].pixels # 0 => ~OutOfSize(blobs[t])

BlobInv == BlobTypes /\ ColoursHold /\ TagsHold /\ GoneIsBad /\ LeftIsGood

(***************************************************************************)
(* Induction, for a set of numbers                                         *)
(***************************************************************************)
LEMMA AllNumbers ==
  ASSUME NEW S, 0 \in S, \A n \in Nat : n \in S => n + 1 \in S
  PROVE  \A n \in Nat : n \in S
<1> SUFFICES ASSUME Nat \ S # {} PROVE FALSE
  OBVIOUS
<1> DEFINE R == OpToRel(<, Nat)
<1>1. IsWellFoundedOn(R, Nat)
  BY NatLessThanWellFounded
<1>2. \A x, y \in Nat : x < y => << x, y >> \in R
  BY DEF OpToRel
<1> HIDE DEF R
<1>3. PICK n \in Nat \ S : \A m \in Nat \ S : ~(<< m, n >> \in R)
  BY <1>1, WFMin
<1>4. n \in Nat /\ n # 0
  OBVIOUS
<1>5. n - 1 \in Nat /\ n - 1 < n /\ (n - 1) + 1 = n
  BY <1>4
<1>6. n - 1 \in S
  BY <1>2, <1>3, <1>5
<1> QED
  BY <1>5, <1>6

(***************************************************************************)
(* Sets of pixels that hang together                                       *)
(***************************************************************************)
LEMMA AdjacentBoth ==
  ASSUME NEW p \in Pixel, NEW q \in Pixel
  PROVE  Adjacent(p, q) <=> Adjacent(q, p)
<1>1. p[1] \in Int /\ p[2] \in Int /\ q[1] \in Int /\ q[2] \in Int
  BY BlobAssumption DEF Pixel
<1> QED
  BY <1>1 DEF Adjacent

LEMMA JoinedOne == ASSUME NEW p PROVE Joined({p})
BY DEF Joined

(* Two sets that touch hang together. *)
LEMMA JoinedUnion ==
  ASSUME NEW A \in SUBSET Pixel, NEW B \in SUBSET Pixel, Joined(A), Joined(B),
         NEW p \in A, NEW q \in B, Adjacent(p, q)
  PROVE  Joined(A \cup B)
<1> SUFFICES ASSUME NEW part \in SUBSET (A \cup B), part # {}, Closed(part, A \cup B) PROVE part = A \cup B
  BY DEF Joined
<1>1. Closed(part \cap A, A) /\ Closed(part \cap B, B)
  BY DEF Closed
<1>2. part \cap A # {} => A \subseteq part
  BY <1>1 DEF Joined
<1>3. part \cap B # {} => B \subseteq part
  BY <1>1 DEF Joined
<1>4. Adjacent(q, p)
  BY AdjacentBoth
<1>5. p \in part <=> q \in part
  BY <1>4 DEF Closed
<1> QED
  BY <1>2, <1>3, <1>5

(* A pixel on its own that touches a set. *)
LEMMA JoinedGrows ==
  ASSUME NEW A \in SUBSET Pixel, Joined(A), NEW p \in A, NEW q \in Pixel, Adjacent(p, q)
  PROVE  Joined(A \cup {q})
<1>1. Joined({q}) /\ {q} \in SUBSET Pixel
  BY JoinedOne
<1> QED
  BY <1>1, JoinedUnion

(***************************************************************************)
(* What a path from a pixel reaches                                        *)
(***************************************************************************)
Spread(near, set) == near \cup { q \in set : \E r \in near : Adjacent(q, r) }

(* The pixels within each number of steps up to n. *)
Walks(p, set, n, f) ==
    /\ f = [i \in 0 .. n |-> f[i]]
    /\ f[0] = {p}
    /\ \A i \in 1 .. n : f[i] = Spread(f[i - 1], set)

LEMMA WalksAreOne ==
  ASSUME NEW p, NEW set, NEW m \in Nat, NEW n \in Nat, m <= n,
         NEW f, NEW g, Walks(p, set, m, f), Walks(p, set, n, g), NEW k \in 0 .. m
  PROVE  f[k] = g[k]
<1> DEFINE S == { i \in Nat : i <= m => f[i] = g[i] }
<1>1. 0 \in S
  BY DEF Walks
<1>2. ASSUME NEW i \in Nat, i \in S, i + 1 <= m PROVE f[i + 1] = g[i + 1]
  <2>1. i + 1 \in 1 .. m /\ i + 1 \in 1 .. n /\ (i + 1) - 1 = i /\ i <= m
    BY <1>2
  <2>2. f[i + 1] = Spread(f[(i + 1) - 1], set) /\ g[i + 1] = Spread(g[(i + 1) - 1], set)
    BY <2>1 DEF Walks
  <2>3. f[i] = g[i]
    BY <1>2, <2>1
  <2> QED
    BY <2>1, <2>2, <2>3
<1>3. \A i \in Nat : i \in S => i + 1 \in S
  BY <1>2
<1> HIDE DEF S
<1>4. k \in S
  BY <1>1, <1>3, AllNumbers
<1> QED
  BY <1>4 DEF S

LEMMA WalksFurther ==
  ASSUME NEW p, NEW set, NEW n \in Nat, NEW f, Walks(p, set, n, f)
  PROVE  \E g : Walks(p, set, n + 1, g)
<1> DEFINE g == [i \in 0 .. n + 1 |-> IF i = n + 1 THEN Spread(f[n], set) ELSE f[i]]
<1>1. g = [i \in 0 .. n + 1 |-> g[i]]
  OBVIOUS
<1>2. g[n + 1] = Spread(f[n], set) /\ \A i \in 0 .. n : g[i] = f[i]
  OBVIOUS
<1> HIDE DEF g
<1>3. g[0] = {p}
  BY <1>2 DEF Walks
<1>4. ASSUME NEW i \in 1 .. n + 1 PROVE g[i] = Spread(g[i - 1], set)
  <2>1. CASE i = n + 1
    <3>1. i - 1 = n /\ n \in 0 .. n
      BY <2>1
    <3> QED
      BY <1>2, <2>1, <3>1
  <2>2. CASE i \in 1 .. n
    <3>1. i - 1 \in 0 .. n /\ i \in 0 .. n
      BY <2>2
    <3>2. f[i] = Spread(f[i - 1], set)
      BY <2>2 DEF Walks
    <3> QED
      BY <1>2, <3>1, <3>2
  <2> QED
    BY <2>1, <2>2
<1> QED
  BY <1>1, <1>3, <1>4 DEF Walks

LEMMA WalksAreThere ==
  ASSUME NEW p, NEW set, NEW n \in Nat
  PROVE  \E f : Walks(p, set, n, f)
<1> DEFINE S == { i \in Nat : \E f : Walks(p, set, i, f) }
<1>1. 0 \in S
  <2> DEFINE f == [i \in 0 .. 0 |-> {p}]
  <2>1. f = [i \in 0 .. 0 |-> f[i]] /\ f[0] = {p}
    OBVIOUS
  <2> HIDE DEF f
  <2>2. Walks(p, set, 0, f)
    BY <2>1 DEF Walks
  <2> QED
    BY <2>2
<1>2. \A i \in Nat : i \in S => i + 1 \in S
  BY WalksFurther
<1> HIDE DEF S
<1>3. n \in S
  BY <1>1, <1>2, AllNumbers
<1> QED
  BY <1>3 DEF S

(* Every pixel within any number of steps: the walks of all lengths together. *)
Reaches(p, set, f) ==
    /\ Component(p, set) = f[Cardinality(set)]
    /\ f[0] = {p}
    /\ \A n \in Nat : f[n + 1] = Spread(f[n], set)

LEMMA ReachedIs == ASSUME NEW p, NEW set PROVE \E f : Reaches(p, set, f)
<1> DEFINE Then(f) == [n \in Nat |-> IF n = 0 THEN {p}
                                     ELSE LET near == f[n - 1]
                                          IN  near \cup { q \in set : \E r \in near : Adjacent(q, r) }]
           reached == CHOOSE f : f = Then(f)
           path(n) == CHOOSE f : Walks(p, set, n, f)
           all == [n \in Nat |-> path(n)[n]]
<1>1. Component(p, set) = reached[Cardinality(set)]
  BY DEF Component
<1>2. ASSUME NEW n \in Nat PROVE Walks(p, set, n, path(n))
  BY WalksAreThere
<1> HIDE DEF path
<1>3. ASSUME NEW n \in Nat, n # 0 PROVE all[n] = Spread(all[n - 1], set)
  <2>1. n - 1 \in Nat /\ n - 1 <= n /\ n - 1 \in 0 .. n - 1 /\ n \in 1 .. n
    BY <1>3
  <2>2. path(n - 1)[n - 1] = path(n)[n - 1]
    BY <1>2, <2>1, WalksAreOne
  <2>3. path(n)[n] = Spread(path(n)[n - 1], set)
    BY <1>2, <2>1 DEF Walks
  <2> QED
    BY <2>1, <2>2, <2>3
<1>4. all[0] = {p}
  BY <1>2 DEF Walks
<1>5. all = Then(all)
  <2>1. ASSUME NEW n \in Nat
        PROVE  all[n] = IF n = 0 THEN {p} ELSE all[n - 1] \cup { q \in set : \E r \in all[n - 1] : Adjacent(q, r) }
    BY <1>3, <1>4 DEF Spread
  <2>2. DOMAIN all = Nat /\ all = [n \in Nat |-> all[n]]
    OBVIOUS
  <2> HIDE DEF all
  <2> QED
    BY <2>1, <2>2
<1> HIDE DEF all
<1>6. reached = Then(reached)
  BY <1>5
<1>7. \A n \in Nat : reached[n] = IF n = 0 THEN {p} ELSE reached[n - 1] \cup { q \in set : \E r \in reached[n - 1] : Adjacent(q, r) }
  BY <1>6
<1> HIDE DEF reached, Then
<1>8. reached[0] = {p}
  BY <1>7
<1>9. ASSUME NEW n \in Nat PROVE reached[n + 1] = Spread(reached[n], set)
  <2>1. n + 1 \in Nat /\ n + 1 # 0 /\ (n + 1) - 1 = n
    OBVIOUS
  <2> QED
    BY <1>7, <2>1 DEF Spread
<1> QED
  BY <1>1, <1>8, <1>9 DEF Reaches

LEMMA PixelsAreFinite ==
  ASSUME NEW set \in SUBSET Pixel
  PROVE  IsFiniteSet(set) /\ Cardinality(set) \in Nat
<1>1. IsFiniteSet(0 .. Width - 1) /\ IsFiniteSet(0 .. Height - 1)
  <2>1. 0 \in Int /\ Width - 1 \in Int /\ Height - 1 \in Int
    BY BlobAssumption
  <2> QED
    BY <2>1, FS_Interval
<1>2. IsFiniteSet(Pixel)
  BY <1>1, FS_Product DEF Pixel
<1> QED
  BY <1>2, FS_Subset, FS_CardinalityType

(* Fewer pixels in a part, and one at least more in what holds more. *)
LEMMA PartIsSmaller ==
  ASSUME NEW set \in SUBSET Pixel, NEW part \in SUBSET set
  PROVE  /\ Cardinality(part) \in Nat /\ Cardinality(set) \in Nat
         /\ Cardinality(part) <= Cardinality(set)
         /\ part # set => Cardinality(part) < Cardinality(set)
<1>1. IsFiniteSet(set) /\ Cardinality(set) \in Nat
  BY PixelsAreFinite
<1>2. IsFiniteSet(part) /\ Cardinality(part) \in Nat /\ Cardinality(part) <= Cardinality(set)
  BY <1>1, FS_Subset, FS_CardinalityType
<1>3. part # set => Cardinality(part) # Cardinality(set)
  BY <1>1, FS_Subset
<1> QED
  BY <1>1, <1>2, <1>3

(* The part that hangs together and has no further neighbour is what its pixels reach: *)
(* while a step reaches something new there are more pixels, and there are only so many. *)
LEMMA ComponentIs ==
  ASSUME NEW set \in SUBSET Pixel, NEW part \in SUBSET set, Joined(part), Closed(part, set), NEW p \in part
  PROVE  Component(p, set) = part
<1>0. PICK f : Reaches(p, set, f)
  BY ReachedIs
<1>1. /\ Component(p, set) = f[Cardinality(set)]
      /\ f[0] = {p}
      /\ \A n \in Nat : f[n + 1] = Spread(f[n], set)
  BY <1>0 DEF Reaches
<1> DEFINE size(s) == Cardinality(s)
<1>2. size(part) \in Nat /\ size(set) \in Nat /\ size(part) <= size(set)
  BY PartIsSmaller
<1>3. ASSUME NEW n \in Nat PROVE p \in f[n] /\ f[n] \subseteq part
  <2> DEFINE S == { i \in Nat : p \in f[i] /\ f[i] \subseteq part }
  <2>1. 0 \in S
    BY <1>1
  <2>2. ASSUME NEW i \in Nat, i \in S PROVE i + 1 \in S
    <3>1. p \in f[i] /\ f[i] \subseteq part /\ i + 1 \in Nat /\ f[i + 1] = Spread(f[i], set)
      BY <1>1, <2>2
    <3>2. ASSUME NEW q \in set, NEW r \in f[i], Adjacent(q, r) PROVE q \in part
      <4>1. r \in part /\ Adjacent(r, q)
        BY <3>1, <3>2, AdjacentBoth
      <4> QED
        BY <4>1 DEF Closed
    <3> QED
      BY <3>1, <3>2 DEF Spread
  <2> HIDE DEF S
  <2>3. n \in S
    BY <2>1, <2>2, AllNumbers
  <2> QED
    BY <2>3 DEF S
<1>4. PICK n \in Nat : n < size(part) /\ f[n + 1] = f[n]
  <2> SUFFICES ASSUME \A n \in Nat : n < size(part) => f[n + 1] # f[n] PROVE FALSE
    OBVIOUS
  <2> DEFINE S == { i \in Nat : i <= size(part) => i < size(f[i]) }
  <2>1. 0 \in S
    <3>1. f[0] = {p} /\ size({p}) = 1
      BY <1>1, FS_Singleton
    <3> QED
      BY <3>1
  <2>2. ASSUME NEW i \in Nat, i \in S, i + 1 <= size(part) PROVE i + 1 < size(f[i + 1])
    <3>1. i < size(part) /\ i <= size(part) /\ i + 1 \in Nat
      BY <1>2, <2>2
    <3>2. f[i] \subseteq f[i + 1] /\ f[i] # f[i + 1] /\ f[i + 1] \in SUBSET Pixel
      BY <1>1, <1>3, <3>1 DEF Spread
    <3>3. size(f[i]) \in Nat /\ size(f[i + 1]) \in Nat /\ size(f[i]) < size(f[i + 1])
      BY <3>2, PartIsSmaller
    <3>4. i < size(f[i])
      BY <2>2, <3>1
    <3> QED
      BY <3>3, <3>4
  <2>3. \A i \in Nat : i \in S => i + 1 \in S
    BY <2>2
  <2> HIDE DEF S
  <2>4. size(part) \in S
    BY <1>2, <2>1, <2>3, AllNumbers
  <2>5. size(part) < size(f[size(part)])
    BY <1>2, <2>4 DEF S
  <2>6. size(f[size(part)]) \in Nat /\ size(f[size(part)]) <= size(part)
    <3>1. f[size(part)] \in SUBSET part /\ part \in SUBSET Pixel
      BY <1>2, <1>3
    <3> QED
      BY <3>1, PartIsSmaller
  <2> QED
    BY <1>2, <2>5, <2>6
<1>5. f[n] = part
  <2>1. ASSUME NEW r \in f[n], NEW q \in part, Adjacent(r, q) PROVE q \in f[n]
    <3>1. Adjacent(q, r) /\ q \in set
      BY <1>3, <2>1, AdjacentBoth
    <3>2. q \in f[n + 1]
      BY <1>1, <3>1 DEF Spread
    <3> QED
      BY <1>4, <3>2
  <2>2. f[n] # {} /\ f[n] \in SUBSET part /\ Closed(f[n], part)
    BY <1>3, <2>1 DEF Closed
  <2> QED
    BY <2>2 DEF Joined
<1>6. \A m \in Nat : n <= m => f[m] = part
  <2> DEFINE S == { i \in Nat : n <= i => f[i] = part }
  <2>1. 0 \in S
    BY <1>5
  <2>2. ASSUME NEW i \in Nat, i \in S, n <= i + 1 PROVE f[i + 1] = part
    <3>1. CASE n = i + 1
      BY <1>5, <3>1
    <3>2. CASE n <= i
      <4>1. f[i] = f[n] /\ f[i + 1] = Spread(f[i], set) /\ f[n + 1] = Spread(f[n], set)
        BY <1>1, <1>5, <2>2, <3>2
      <4> QED
        BY <1>4, <1>5, <4>1
    <3> QED
      BY <2>2, <3>1, <3>2
  <2>3. \A i \in Nat : i \in S => i + 1 \in S
    BY <2>2
  <2> HIDE DEF S
  <2>4. \A m \in Nat : m \in S
    BY <2>1, <2>3, AllNumbers
  <2> QED
    BY <2>4 DEF S
<1>7. n <= size(set)
  BY <1>2, <1>4
<1> QED
  BY <1>1, <1>2, <1>6, <1>7

(***************************************************************************)
(* The order of the scan                                                   *)
(***************************************************************************)
LEMMA SidesAre == Width \in Nat /\ Height \in Nat /\ NTags \in Nat /\ Width > 0 /\ Height > 0 /\ NTags > 0
BY BlobAssumption

LEMMA PixelIs ==
  ASSUME NEW p \in Pixel
  PROVE  p = << p[1], p[2] >> /\ p[1] \in 0 .. Width - 1 /\ p[2] \in 0 .. Height - 1
BY DEF Pixel

LEMMA RowsAre ==
  ASSUME NEW W \in Nat \ {0}, NEW n \in Nat
  PROVE  /\ n % W \in 0 .. W - 1 /\ n \div W \in Nat
         /\ n = (n \div W) * W + (n % W)
         /\ IF (n % W) + 1 < W THEN (n + 1) % W = (n % W) + 1 /\ (n + 1) \div W = n \div W
                             ELSE (n + 1) % W = 0 /\ (n + 1) \div W = n \div W + 1
<1>1. PICK y \in Int, x \in Int : y = n \div W /\ x = n % W /\ n = y * W + x
  BY Z3
<1>2. x \in 0 .. W - 1
  BY <1>1
<1>3. y \in Nat
  <2>1. CASE y < 0
    <3>1. (-1 - y) * W >= 0
      BY <2>1
    <3>2. (-1 - y) * W = -W - y * W
      OBVIOUS
    <3> QED
      BY <1>1, <1>2, <3>1, <3>2
  <2> QED
    BY <2>1
<1>4. ASSUME NEW k \in Int, NEW i \in 0 .. W - 1 PROVE (k * W + i) % W = i /\ (k * W + i) \div W = k
  OBVIOUS
<1>5. CASE x + 1 < W
  <2> DEFINE i == x + 1
  <2>1. i \in 0 .. W - 1
    BY <1>2, <1>5
  <2> HIDE DEF i
  <2>2. (y * W + i) % W = i /\ (y * W + i) \div W = y
    BY <1>4, <2>1
  <2>3. y * W + i = n + 1
    BY <1>1 DEF i
  <2> QED
    BY <1>1, <1>2, <1>3, <1>5, <2>2, <2>3 DEF i
<1>6. CASE ~(x + 1 < W)
  <2>1. ((y + 1) * W + 0) % W = 0 /\ ((y + 1) * W + 0) \div W = y + 1
    BY <1>4
  <2>2. (y + 1) * W = y * W + W
    OBVIOUS
  <2>3. (y + 1) * W + 0 = n + 1
    BY <1>1, <1>2, <1>6, <2>2
  <2> QED
    BY <1>1, <1>2, <1>3, <1>6, <2>1, <2>3
<1> QED
  BY <1>5, <1>6

LEMMA RowsBelow ==
  ASSUME NEW n \in Nat
  PROVE  n < Width * Height <=> n \div Width < Height
<1>1. PICK x, y : x = n % Width /\ y = n \div Width
  OBVIOUS
<1>2. x \in 0 .. Width - 1 /\ y \in Nat /\ n = y * Width + x
  BY <1>1, SidesAre, RowsAre
<1>3. y * Width \in Int /\ Width * Height \in Int
  BY <1>2, SidesAre
<1>4. CASE y < Height
  <2>1. (Height - (y + 1)) * Width >= 0
    BY <1>2, <1>4, SidesAre
  <2>2. (Height - (y + 1)) * Width = Width * Height - y * Width - Width
    BY <1>2, SidesAre
  <2>3. n < Width * Height
    BY <1>2, <1>3, <2>1, <2>2, SidesAre
  <2> QED
    BY <1>1, <1>4, <2>3
<1>5. CASE ~(y < Height)
  <2>1. (y - Height) * Width >= 0
    BY <1>2, <1>5, SidesAre
  <2>2. (y - Height) * Width = y * Width - Width * Height
    BY <1>2, SidesAre
  <2>3. ~(n < Width * Height)
    BY <1>2, <1>3, <2>1, <2>2, SidesAre
  <2> QED
    BY <1>1, <1>5, <2>3
<1> QED
  BY <1>4, <1>5

LEMMA WhereItIs ==
  ASSUME pos \in Nat
  PROVE  /\ scanX \in 0 .. Width - 1 /\ scanY \in Nat
         /\ Scanning <=> scanY < Height
BY SidesAre, RowsAre, RowsBelow DEF scanX, scanY, Scanning

(* The pixel the scan is at is the next to be behind it. *)
LEMMA ScanMoves ==
  ASSUME pos \in Nat, Scanning, pos' = pos + 1
  PROVE  \A p \in Pixel : Scanned(p)' <=> Scanned(p) \/ p = here
<1>1. scanX \in 0 .. Width - 1 /\ scanY \in Nat
  BY WhereItIs
<1>2. IF scanX + 1 < Width THEN scanX' = scanX + 1 /\ scanY' = scanY
                           ELSE scanX' = 0 /\ scanY' = scanY + 1
  BY SidesAre, RowsAre DEF scanX, scanY
<1> SUFFICES ASSUME NEW p \in Pixel PROVE Scanned(p)' <=> Scanned(p) \/ p = here
  OBVIOUS
<1>3. p = << p[1], p[2] >> /\ p[1] \in 0 .. Width - 1 /\ p[2] \in 0 .. Height - 1
  BY PixelIs
<1>4. p = here <=> p[1] = scanX /\ p[2] = scanY
  BY <1>3 DEF here
<1>5. Scanned(p)' <=> p[2] < scanY' \/ (p[2] = scanY' /\ p[1] < scanX')
  BY DEF Scanned
<1> QED
  BY <1>1, <1>2, <1>3, <1>4, <1>5, SidesAre DEF Scanned

LEMMA AllScanned ==
  ASSUME pos \in Nat, ~Scanning
  PROVE  \A p \in Pixel : Scanned(p)
BY WhereItIs, PixelIs, SidesAre DEF Scanned

left == << scanX - 1, scanY >>
above == << scanX, scanY - 1 >>

(* What is next to it and behind it is to its left or above it. *)
LEMMA BehindIs ==
  ASSUME pos \in Nat, Scanning
  PROVE  /\ here \in Pixel /\ ~Scanned(here)
         /\ left \in Pixel => Scanned(left) /\ Adjacent(left, here)
         /\ above \in Pixel => Scanned(above) /\ Adjacent(above, here)
         /\ \A p \in Pixel : Scanned(p) /\ Adjacent(p, here) => p \in {left, above}
<1>1. scanX \in 0 .. Width - 1 /\ scanY \in 0 .. Height - 1
  BY WhereItIs, SidesAre
<1>2. here \in Pixel /\ ~Scanned(here)
  BY <1>1 DEF here, Pixel, Scanned
<1>3. Scanned(left) /\ Adjacent(left, here) /\ Scanned(above) /\ Adjacent(above, here)
  BY <1>1, SidesAre DEF left, above, here, Scanned, Adjacent
<1>4. ASSUME NEW p \in Pixel, Scanned(p), Adjacent(p, here) PROVE p \in {left, above}
  <2>1. p = << p[1], p[2] >> /\ p[1] \in Int /\ p[2] \in Int
    BY PixelIs, SidesAre
  <2>2. \/ p[1] = scanX /\ p[2] - scanY \in {-1, 1}
        \/ p[2] = scanY /\ p[1] - scanX \in {-1, 1}
    BY <1>4 DEF Adjacent, here
  <2>3. (p[1] = scanX /\ p[2] = scanY - 1) \/ (p[2] = scanY /\ p[1] = scanX - 1)
    BY <1>1, <1>4, <2>1, <2>2, SidesAre DEF Scanned
  <2> QED
    BY <2>1, <2>3 DEF left, above
<1> QED
  BY <1>2, <1>3, <1>4

(***************************************************************************)
(* What the invariant says of the pixel the scan is at                     *)
(***************************************************************************)
LEMMA TaggedIs ==
  ASSUME BlobInv, NEW t \in Tag
  PROVE  /\ Tagged(t) \in SUBSET white /\ Tagged(t) \in SUBSET mask /\ Tagged(t) \in SUBSET Pixel
         /\ IsFiniteSet(Tagged(t)) /\ Cardinality(Tagged(t)) \in Nat
         /\ blobs[t] \in BlobData /\ blobs[t].pixels = Cardinality(Tagged(t))
         /\ blobs[t].pixels = 0 <=> Tagged(t) = {}
<1>1. t # BLACK /\ t \in Nat
  BY SidesAre DEF Tag, BLACK
<1>2. Tagged(t) \in SUBSET white /\ Tagged(t) \in SUBSET Pixel
  BY <1>1 DEF BlobInv, ColoursHold, Tagged
<1>3. Tagged(t) \in SUBSET mask
  BY <1>2 DEF BlobInv, BlobTypes
<1>4. IsFiniteSet(Tagged(t)) /\ Cardinality(Tagged(t)) \in Nat
  BY <1>2, PixelsAreFinite
<1>5. Cardinality(Tagged(t)) = 0 <=> Tagged(t) = {}
  BY <1>4, FS_EmptySet
<1>6. blobs[t] \in BlobData /\ blobs[t].pixels = Cardinality(Tagged(t))
  BY DEF BlobInv, BlobTypes, TagsHold
<1> QED
  BY <1>2, <1>3, <1>4, <1>5, <1>6

(* A blob's box holds all of it. *)
LEMMA PaintedIs ==
  ASSUME BlobInv, NEW t \in Tag
  PROVE  Painted(img, t) = Tagged(t)
<1>1. Tagged(t) \in SUBSET mask
  BY TaggedIs
<1>2. Painted(img, t) \subseteq Tagged(t)
  BY DEF Painted, Tagged, BlobInv, BlobTypes
<1>3. ASSUME NEW p \in Tagged(t) PROVE p \in Painted(img, t)
  <2>1. InBox(p, blobs[t]) /\ img[p] = t /\ p \in mask /\ p \in Pixel
    BY <1>1 DEF BlobInv, TagsHold, Tagged
  <2>2. /\ p[1] \in Int /\ p[2] \in Int
        /\ blobs[t].loX \in Int /\ blobs[t].hiX \in Int /\ blobs[t].loY \in Int /\ blobs[t].hiY \in Int
    BY <2>1, PixelIs, SidesAre, TaggedIs DEF BlobData
  <2> QED
    BY <2>1, <2>2 DEF Painted, InBox
<1> QED
  BY <1>2, <1>3

Behind(p, tag) == p \in Pixel /\ img[p] = tag /\ Adjacent(p, here) /\ tag \in Tag

LEMMA AtWhiteIs ==
  ASSUME BlobInv, AtWhite
  PROVE  /\ pos \in Nat /\ ~tooMany
         /\ here \in Pixel /\ here \in white /\ here \in mask /\ img[here] = WHITE
         /\ WHITE \notin Tag /\ BLACK \notin Tag /\ WHITE # BLACK
         /\ lastX # BLACK => Behind(left, lastX)
         /\ lastY # BLACK => Behind(above, lastY)
         /\ \A p \in Pixel : img[p] \in Tag /\ Adjacent(p, here) =>
                (p = left /\ img[p] = lastX) \/ (p = above /\ img[p] = lastY)
<1>1. pos \in Nat /\ Scanning /\ ~tooMany
  BY SidesAre DEF BlobInv, BlobTypes, AtWhite
<1>2. WHITE \notin Tag /\ BLACK \notin Tag /\ WHITE # BLACK
  BY SidesAre DEF WHITE, BLACK, Tag
<1>3. here \in Pixel /\ here \in white /\ here \in mask /\ img[here] = WHITE
  BY <1>1, <1>2, BehindIs DEF BlobInv, BlobTypes, ColoursHold, AtWhite
<1>4. \A p \in Pixel : Scanned(p) /\ img[p] # BLACK => img[p] \in Tag
  BY <1>1, SidesAre DEF BlobInv, BlobTypes, ColoursHold, Tag, WHITE, BLACK
<1>5. ASSUME NEW p, tagAt(p) # BLACK, p \in Pixel => Scanned(p) /\ Adjacent(p, here)
      PROVE  Behind(p, tagAt(p))
  <2>1. p \in mask /\ p \in Pixel /\ tagAt(p) = img[p]
    BY <1>5 DEF tagAt, BlobInv, BlobTypes
  <2> QED
    BY <1>4, <1>5, <2>1 DEF Behind
<1>6. lastX # BLACK => Behind(left, lastX)
  BY <1>1, <1>5, BehindIs DEF lastX, left
<1>7. lastY # BLACK => Behind(above, lastY)
  BY <1>1, <1>5, BehindIs DEF lastY, above
<1>8. ASSUME NEW p \in Pixel, img[p] \in Tag, Adjacent(p, here)
      PROVE  (p = left /\ img[p] = lastX) \/ (p = above /\ img[p] = lastY)
  <2>1. p \in white /\ p \in mask
    BY <1>2, <1>8 DEF BlobInv, BlobTypes, ColoursHold
  <2>2. img[p] # WHITE /\ img[p] # BLACK
    BY <1>2, <1>8
  <2>3. Scanned(p)
    BY <1>1, <2>1, <2>2 DEF BlobInv, ColoursHold
  <2>4. p \in {left, above}
    BY <1>1, <1>8, <2>3, BehindIs
  <2> QED
    BY <2>1, <2>4 DEF lastX, lastY, left, above, tagAt
<1> QED
  BY <1>1, <1>2, <1>3, <1>6, <1>7, <1>8

LEMMA ColoursMove ==
  ASSUME BlobInv, Scanning, pos' = pos + 1, white' = white, tooMany' = tooMany,
         img' \in [Pixel -> 0 .. NTags + 1], img'[here] # WHITE, img'[here] # BLACK => here \in white,
         \A p \in Pixel : p # here => img'[p] = img[p] \/ (img[p] \in Tag /\ img'[p] # WHITE)
  PROVE  ColoursHold'
<1>1. pos \in Nat /\ ~tooMany
  BY SidesAre DEF BlobInv, BlobTypes
<1>2. WHITE \notin Tag /\ BLACK \notin Tag
  BY SidesAre DEF WHITE, BLACK, Tag
<1>3. \A p \in Pixel : Scanned(p)' <=> Scanned(p) \/ p = here
  BY <1>1, ScanMoves
<1>4. /\ \A p \in Pixel : img[p] # BLACK => p \in white
      /\ \A p \in Pixel : IF Scanned(p) THEN img[p] # WHITE
                          ELSE img[p] = IF p \in white THEN WHITE ELSE BLACK
  BY <1>1 DEF BlobInv, ColoursHold
<1>5. ASSUME NEW p \in Pixel PROVE img'[p] # BLACK => p \in white
  BY <1>2, <1>4
<1>6. ASSUME NEW p \in Pixel
      PROVE  IF Scanned(p)' THEN img'[p] # WHITE ELSE img'[p] = IF p \in white THEN WHITE ELSE BLACK
  BY <1>2, <1>3, <1>4
<1>7. WHITE' = WHITE /\ BLACK' = BLACK /\ Pixel' = Pixel
  BY DEF WHITE, BLACK, Pixel
<1> QED
  BY <1>5, <1>6, <1>7 DEF ColoursHold

(* The blacks stay as they are, and so do the components they are of. *)
LEMMA BlacksMove ==
  ASSUME BlobInv, white' = white, tooMany' = tooMany,
         \A p \in Pixel : img'[p] = BLACK <=> img[p] = BLACK
  PROVE  GoneIsBad'
<1>1. white \in SUBSET Pixel
  BY DEF BlobInv, BlobTypes
<1>2. \A set : Whole(set)' <=> Whole(set)
  BY DEF Whole
<1>3. \A set : Whole(set) => set \in SUBSET Pixel
  BY <1>1 DEF Whole
<1> SUFFICES ASSUME ~tooMany, NEW p \in white, img'[p] = BLACK
             PROVE  \E set : /\ p \in set /\ Whole(set) /\ OutOfSize([pixels |-> Cardinality(set)])
                             /\ \A q \in set : img'[q] = BLACK
  BY <1>2 DEF GoneIsBad, BLACK, OutOfSize
<1>4. img[p] = BLACK
  BY <1>1
<1>5. PICK set : /\ p \in set /\ Whole(set) /\ OutOfSize([pixels |-> Cardinality(set)])
                 /\ \A q \in set : img[q] = BLACK
  BY <1>4 DEF BlobInv, GoneIsBad
<1> QED
  BY <1>3, <1>5

(***************************************************************************)
(* The steps                                                               *)
(***************************************************************************)
LEMMA BlobStart == BlobInit => BlobInv
<1> SUFFICES ASSUME BlobInit PROVE BlobInv
  OBVIOUS
<1>1. mask \in SUBSET Pixel /\ white \in SUBSET mask
  BY BlobAssumption DEF BlobInit, Pixel
<1>2. WHITE \in 0 .. NTags + 1 /\ BLACK \in 0 .. NTags + 1 /\ WHITE \notin Tag /\ BLACK \notin Tag /\ WHITE # BLACK
  BY SidesAre DEF WHITE, BLACK, Tag
<1>3. img \in [Pixel -> 0 .. NTags + 1] /\ \A p \in Pixel : img[p] = IF p \in white THEN WHITE ELSE BLACK
  BY <1>2 DEF BlobInit
<1>4. pos = 0 /\ pos \in 0 .. Width * Height + 1 /\ ~tooMany /\ ~(pos > Width * Height)
  <2>1. Width * Height \in Nat
    BY SidesAre
  <2> QED
    BY <2>1 DEF BlobInit
<1>5. \A t \in Tag : blobs[t] = NoBlob /\ Tagged(t) = {}
  BY <1>2, <1>3 DEF BlobInit, Tagged
<1>6. BlobTypes
  <2>1. blobs \in [Tag -> BlobData]
    BY DEF BlobInit, NoBlob, BlobData
  <2> QED
    BY <1>1, <1>3, <1>4, <2>1 DEF BlobTypes, BlobInit
<1>7. ColoursHold
  <2>1. \A p \in Pixel : ~Scanned(p)
    <3>1. scanX = 0 /\ scanY = 0
      <4>1. scanX \in 0 .. Width - 1 /\ scanY \in Nat /\ 0 = scanY * Width + scanX
        BY <1>4, SidesAre, RowsAre DEF scanX, scanY
      <4>2. scanY * Width >= scanY
        <5>1. scanY * (Width - 1) >= 0
          BY <4>1, SidesAre
        <5>2. scanY * (Width - 1) = scanY * Width - scanY
          BY <4>1, SidesAre
        <5> QED
          BY <4>1, <5>1, <5>2, SidesAre
      <4>3. scanY * Width \in Int
        BY <4>1, SidesAre
      <4> QED
        BY <4>1, <4>2, <4>3, SidesAre
    <3> QED
      BY <3>1, PixelIs, SidesAre DEF Scanned
  <2> QED
    BY <1>3, <2>1 DEF ColoursHold
<1>8. TagsHold
  <2>1. \A t \in Tag : blobs[t].pixels = 0 /\ Cardinality(Tagged(t)) = 0 /\ Joined(Tagged(t))
    BY <1>5, FS_EmptySet DEF NoBlob, Joined
  <2>2. \A p \in Pixel : img[p] \notin Tag
    BY <1>2, <1>3
  <2>3. blobCount = Cardinality({ t \in Tag : blobs[t].pixels # 0 })
    <3>1. { t \in Tag : blobs[t].pixels # 0 } = {}
      BY <2>1
    <3> QED
      BY <3>1, FS_EmptySet DEF BlobInit
  <2> QED
    BY <1>5, <2>1, <2>2, <2>3 DEF TagsHold
<1>9. GoneIsBad
  BY <1>1, <1>2, <1>3 DEF GoneIsBad
<1>10. LeftIsGood
  BY <1>4 DEF LeftIsGood
<1> QED
  BY <1>6, <1>7, <1>8, <1>9, <1>10 DEF BlobInv

LEMMA NextPos ==
  ASSUME pos \in Nat, Scanning, pos' = pos + 1
  PROVE  pos' \in 0 .. Width * Height + 1 /\ ~(pos' > Width * Height)
<1>1. Width * Height \in Nat
  BY SidesAre
<1> QED
  BY <1>1 DEF Scanning

LEMMA StillTyped ==
  ASSUME BlobInv, Scanning, pos' = pos + 1, UNCHANGED << mask, white, tooMany >>,
         img' \in [Pixel -> 0 .. NTags + 1], blobs' \in [Tag -> BlobData]
  PROVE  BlobTypes' /\ LeftIsGood'
<1>1. pos \in Nat /\ ~tooMany
  BY SidesAre DEF BlobInv, BlobTypes
<1>2. Pixel' = Pixel /\ Tag' = Tag /\ BlobData' = BlobData
  BY DEF Pixel, Tag, BlobData
<1> QED
  BY <1>1, <1>2, NextPos DEF BlobInv, BlobTypes, LeftIsGood

(* The numbers and boxes of blobs, and that each is in one piece, are kept tag by tag. *)
TagHolds(t) ==
    /\ blobs[t].pixels = Cardinality(Tagged(t))
    /\ Joined(Tagged(t))
    /\ \A p \in Tagged(t) : InBox(p, blobs[t])

LEMMA TagStays ==
  ASSUME BlobInv, NEW t \in Tag, blobs'[t] = blobs[t], Tagged(t)' = Tagged(t)
  PROVE  TagHolds(t)'
<1>1. TagHolds(t)
  BY DEF BlobInv, TagsHold, TagHolds
<1>2. Joined(Tagged(t))' <=> Joined(Tagged(t)')
  BY DEF Joined, Closed, Adjacent
<1>3. \A p : InBox(p, blobs[t])' <=> InBox(p, blobs'[t])
  BY DEF InBox
<1> QED
  BY <1>1, <1>2, <1>3 DEF TagHolds

LEMMA TagsAgain ==
  ASSUME \A t \in Tag : TagHolds(t)',
         \A p, q \in Pixel : img'[p] \in Tag /\ img'[q] \in Tag /\ Adjacent(p, q) => img'[p] = img'[q],
         blobCount' = Cardinality({ t \in Tag : blobs'[t].pixels # 0 })
  PROVE  TagsHold'
<1>1. Pixel' = Pixel /\ Tag' = Tag /\ \A p, q : Adjacent(p, q)' <=> Adjacent(p, q)
  BY DEF Pixel, Tag, Adjacent
<1>2. { t \in Tag' : blobs'[t].pixels # 0 } = { t \in Tag : blobs'[t].pixels # 0 }
  BY <1>1
<1> QED
  BY <1>1, <1>2 DEF TagsHold, TagHolds

LEMMA TagsUnchanged ==
  ASSUME BlobInv, UNCHANGED << img, blobs, blobCount >>
  PROVE  TagsHold'
<1>1. \A t \in Tag : Tagged(t)' = Tagged(t)
  BY DEF Tagged, Pixel
<1>2. \A t \in Tag : TagHolds(t)'
  BY <1>1, TagStays
<1>3. /\ \A p, q \in Pixel : img'[p] \in Tag /\ img'[q] \in Tag /\ Adjacent(p, q) => img'[p] = img'[q]
      /\ blobCount' = Cardinality({ t \in Tag : blobs'[t].pixels # 0 })
  BY DEF BlobInv, TagsHold
<1> QED
  BY <1>2, <1>3, TagsAgain

LEMMA PassKeeps == ASSUME BlobInv, Pass PROVE BlobInv'
<1>1. pos \in Nat /\ Scanning /\ here \in Pixel /\ ~tooMany
  BY BehindIs, SidesAre DEF BlobInv, BlobTypes, Pass
<1>2. BlobTypes' /\ LeftIsGood'
  BY StillTyped DEF Pass, BlobInv, BlobTypes
<1>3. img[here] # WHITE /\ (img[here] # BLACK => here \in white)
  <2>1. WHITE # BLACK /\ ~Scanned(here)
    BY <1>1, BehindIs, SidesAre DEF WHITE, BLACK
  <2>2. img[here] = IF here \in white THEN WHITE ELSE BLACK
    BY <1>1, <2>1 DEF BlobInv, ColoursHold
  <2> QED
    BY <2>1, <2>2 DEF Pass, BlobInv, BlobTypes
<1>4. ColoursHold'
  BY <1>1, <1>3, ColoursMove DEF Pass, BlobInv, BlobTypes
<1>5. GoneIsBad'
  BY BlacksMove DEF Pass
<1>6. TagsHold'
  BY TagsUnchanged DEF Pass
<1> QED
  BY <1>2, <1>4, <1>5, <1>6 DEF BlobInv

LEMMA GrownIs ==
  ASSUME NEW blob \in BlobData, pos \in Nat
  PROVE  /\ Grown(blob) \in BlobData /\ Grown(blob).pixels = blob.pixels + 1
         /\ \A p \in Pixel : InBox(p, blob) => InBox(p, Grown(blob))
         /\ \A p \in Pixel : InBox(p, blob) /\ p \in {left, above} => InBox(here, Grown(blob))
<1>1. scanX \in Int /\ scanY \in Int
  BY WhereItIs, SidesAre
<1>2. /\ blob.pixels \in Nat /\ blob.loX \in Int /\ blob.hiX \in Int /\ blob.loY \in Int /\ blob.hiY \in Int
      /\ Grown(blob).pixels = blob.pixels + 1 /\ Grown(blob).loX = blob.loX /\ Grown(blob).loY = blob.loY
      /\ Grown(blob).hiX = Max2(blob.hiX, scanX) /\ Grown(blob).hiY = Max2(blob.hiY, scanY)
  BY DEF BlobData, Grown
<1>3. Max2(blob.hiX, scanX) \in Int /\ Max2(blob.hiY, scanY) \in Int
  BY <1>1, <1>2 DEF Max2
<1>4. Grown(blob) \in BlobData
  <2>1. PICK a, b, c : a = blob.pixels + 1 /\ b = Max2(blob.hiX, scanX) /\ c = Max2(blob.hiY, scanY)
    OBVIOUS
  <2>2. a \in Nat /\ b \in Int /\ c \in Int
    BY <1>2, <1>3, <2>1
  <2>3. Grown(blob) = [blob EXCEPT !.pixels = a, !.hiX = b, !.hiY = c]
    BY <2>1 DEF Grown
  <2> QED
    BY <2>2, <2>3 DEF BlobData
<1>5. ASSUME NEW p \in Pixel, InBox(p, blob) PROVE InBox(p, Grown(blob))
  <2>1. p[1] \in Int /\ p[2] \in Int
    BY PixelIs, SidesAre
  <2> QED
    BY <1>1, <1>2, <1>5, <2>1 DEF InBox, Max2
<1>6. ASSUME NEW p \in Pixel, InBox(p, blob), p \in {left, above} PROVE InBox(here, Grown(blob))
  <2>1. p[1] \in {scanX - 1, scanX} /\ p[2] \in {scanY - 1, scanY}
    BY <1>1, <1>6 DEF left, above
  <2>2. here[1] = scanX /\ here[2] = scanY
    BY DEF here
  <2> HIDE DEF here
  <2> QED
    BY <1>1, <1>2, <1>6, <2>1, <2>2 DEF InBox, Max2
<1> QED
  BY <1>2, <1>4, <1>5, <1>6

LEMMA AddPixelKeeps == ASSUME BlobInv, AddPixel PROVE BlobInv'
<1>1. /\ pos \in Nat /\ ~tooMany
      /\ here \in Pixel /\ here \in white /\ here \in mask /\ img[here] = WHITE
      /\ WHITE \notin Tag /\ BLACK \notin Tag /\ WHITE # BLACK
      /\ lastX # BLACK => Behind(left, lastX)
      /\ lastY # BLACK => Behind(above, lastY)
      /\ \A p \in Pixel : img[p] \in Tag /\ Adjacent(p, here) =>
             (p = left /\ img[p] = lastX) \/ (p = above /\ img[p] = lastY)
  BY AtWhiteIs DEF AddPixel
<1>2. PICK t \in {lastX, lastY} \ {BLACK} :
          /\ {lastX, lastY} \subseteq {t, BLACK}
          /\ img' = [img EXCEPT ![here] = t]
          /\ blobs' = [blobs EXCEPT ![t] = Grown(@)]
  BY DEF AddPixel
<1>3. PICK p0 \in {left, above} : Behind(p0, t)
  BY <1>1, <1>2
<1>4. p0 \in Pixel /\ img[p0] = t /\ Adjacent(p0, here) /\ t \in Tag /\ p0 \in Tagged(t)
  BY <1>3 DEF Behind, Tagged
<1>5. Scanning /\ pos' = pos + 1 /\ UNCHANGED << mask, white, blobCount, tooMany >>
  BY DEF AddPixel, AtWhite
<1>6. Tag \subseteq 0 .. NTags + 1 /\ img \in [Pixel -> 0 .. NTags + 1] /\ blobs \in [Tag -> BlobData]
  BY SidesAre DEF Tag, BlobInv, BlobTypes
<1>7. /\ img' \in [Pixel -> 0 .. NTags + 1] /\ img'[here] = t
      /\ \A p \in Pixel : p # here => img'[p] = img[p]
  BY <1>1, <1>2, <1>4, <1>6
<1>8. /\ blobs'[t] = Grown(blobs[t]) /\ \A s \in Tag : s # t => blobs'[s] = blobs[s]
      /\ blobs' \in [Tag -> BlobData]
  BY <1>1, <1>2, <1>4, <1>6, GrownIs
<1>9. BlobTypes' /\ LeftIsGood'
  BY <1>5, <1>7, <1>8, StillTyped
<1>10. ColoursHold'
  BY <1>1, <1>4, <1>5, <1>7, ColoursMove
<1>11. GoneIsBad'
  BY <1>1, <1>4, <1>5, <1>7, BlacksMove
<1>12. Pixel' = Pixel /\ Tag' = Tag
  BY DEF Pixel, Tag
<1>13. Tagged(t)' = Tagged(t) \cup {here} /\ \A s \in Tag : s # t => Tagged(s)' = Tagged(s)
  BY <1>1, <1>4, <1>7, <1>12 DEF Tagged
<1>14. TagHolds(t)'
  <2>1. /\ Tagged(t) \in SUBSET Pixel /\ IsFiniteSet(Tagged(t)) /\ here \notin Tagged(t)
        /\ blobs[t].pixels = Cardinality(Tagged(t)) /\ blobs[t] \in BlobData
    BY <1>1, <1>4, TaggedIs DEF Tagged
  <2>2. Cardinality(Tagged(t) \cup {here}) = blobs'[t].pixels
    <3>1. Cardinality(Tagged(t) \cup {here}) = Cardinality(Tagged(t)) + 1
      BY <2>1, FS_AddElement
    <3>2. blobs'[t].pixels = blobs[t].pixels + 1
      BY <1>1, <1>8, <2>1, GrownIs
    <3> QED
      BY <2>1, <3>1, <3>2
  <2>3. Joined(Tagged(t)) /\ \A p \in Tagged(t) : InBox(p, blobs[t])
    BY <1>4 DEF BlobInv, TagsHold
  <2>4. Joined(Tagged(t) \cup {here})
    BY <1>1, <1>4, <2>1, <2>3, JoinedGrows
  <2>5. \A p \in Tagged(t) \cup {here} : InBox(p, blobs'[t])
    BY <1>1, <1>4, <1>8, <2>1, <2>3, GrownIs
  <2>6. Joined(Tagged(t))' <=> Joined(Tagged(t)')
    BY DEF Joined, Closed, Adjacent
  <2>7. \A p : InBox(p, blobs[t])' <=> InBox(p, blobs'[t])
    BY DEF InBox
  <2> QED
    BY <1>13, <2>2, <2>4, <2>5, <2>6, <2>7 DEF TagHolds
<1>15. \A s \in Tag : TagHolds(s)'
  BY <1>8, <1>13, <1>14, TagStays
<1>16. ASSUME NEW p \in Pixel, NEW q \in Pixel, img'[p] \in Tag, img'[q] \in Tag, Adjacent(p, q)
       PROVE  img'[p] = img'[q]
  <2>1. Adjacent(q, p)
    BY <1>16, AdjacentBoth
  <2>2. ASSUME NEW r \in Pixel, r # here, img'[r] \in Tag, Adjacent(r, here) PROVE img'[r] = t
    <3>1. img[r] \in {lastX, lastY} /\ img[r] \in Tag
      BY <1>1, <1>7, <2>2
    <3> QED
      BY <1>1, <1>2, <1>7, <2>2, <3>1
  <2>3. CASE p # here /\ q # here
    BY <1>7, <1>16, <2>3 DEF BlobInv, TagsHold
  <2> QED
    BY <1>7, <1>16, <2>1, <2>2, <2>3
<1>17. blobCount' = Cardinality({ s \in Tag : blobs'[s].pixels # 0 })
  <2>1. blobs[t].pixels # 0 /\ blobs'[t].pixels # 0
    <3>1. blobs[t].pixels # 0 /\ blobs[t].pixels \in Nat /\ blobs[t] \in BlobData
      BY <1>4, TaggedIs
    <3>2. blobs'[t].pixels = blobs[t].pixels + 1
      BY <1>1, <1>8, <3>1, GrownIs
    <3> QED
      BY <3>1, <3>2
  <2>2. { s \in Tag : blobs'[s].pixels # 0 } = { s \in Tag : blobs[s].pixels # 0 }
    BY <1>8, <2>1
  <2> QED
    BY <1>5, <2>2 DEF BlobInv, TagsHold
<1>18. TagsHold'
  BY <1>12, <1>15, <1>16, <1>17, TagsAgain
<1> QED
  BY <1>9, <1>10, <1>11, <1>18 DEF BlobInv

LEMMA MergedIs ==
  ASSUME NEW a \in BlobData, NEW b \in BlobData, pos \in Nat
  PROVE  /\ Merged(a, b) \in BlobData /\ Merged(a, b).pixels = a.pixels + b.pixels + 1
         /\ \A p \in Pixel : InBox(p, a) \/ InBox(p, b) => InBox(p, Merged(a, b))
         /\ \A p \in Pixel : InBox(p, a) /\ p \in {left, above} => InBox(here, Merged(a, b))
<1>1. scanX \in Int /\ scanY \in Int
  BY WhereItIs, SidesAre
<1>2. /\ a.pixels \in Nat /\ a.loX \in Int /\ a.hiX \in Int /\ a.loY \in Int /\ a.hiY \in Int
      /\ b.pixels \in Nat /\ b.loX \in Int /\ b.hiX \in Int /\ b.loY \in Int /\ b.hiY \in Int
  BY DEF BlobData
<1>3. /\ Merged(a, b).pixels = a.pixels + b.pixels + 1
      /\ Merged(a, b).loX = Min2(a.loX, b.loX) /\ Merged(a, b).loY = Min2(a.loY, b.loY)
      /\ Merged(a, b).hiX = Max2(Max2(a.hiX, scanX), b.hiX)
      /\ Merged(a, b).hiY = Max2(Max2(a.hiY, scanY), b.hiY)
  BY DEF Merged
<1>4. Merged(a, b) \in BlobData
  <2>1. /\ Min2(a.loX, b.loX) \in Int /\ Min2(a.loY, b.loY) \in Int
        /\ Max2(Max2(a.hiX, scanX), b.hiX) \in Int /\ Max2(Max2(a.hiY, scanY), b.hiY) \in Int
    BY <1>1, <1>2 DEF Min2, Max2
  <2>2. a.pixels + b.pixels + 1 \in Nat
    BY <1>2
  <2> QED
    BY <2>1, <2>2 DEF Merged, BlobData
<1>5. ASSUME NEW p \in Pixel, InBox(p, a) \/ InBox(p, b) PROVE InBox(p, Merged(a, b))
  <2>1. p[1] \in Int /\ p[2] \in Int
    BY PixelIs, SidesAre
  <2> QED
    BY <1>1, <1>2, <1>3, <1>5, <2>1 DEF InBox, Max2, Min2
<1>6. ASSUME NEW p \in Pixel, InBox(p, a), p \in {left, above} PROVE InBox(here, Merged(a, b))
  <2>1. p[1] \in {scanX - 1, scanX} /\ p[2] \in {scanY - 1, scanY}
    BY <1>1, <1>6 DEF left, above
  <2>2. here[1] = scanX /\ here[2] = scanY
    BY DEF here
  <2> HIDE DEF here
  <2> QED
    BY <1>1, <1>2, <1>3, <1>6, <2>1, <2>2 DEF InBox, Max2, Min2
<1> QED
  BY <1>3, <1>4, <1>5, <1>6

LEMMA DisjointSizes ==
  ASSUME NEW A \in SUBSET Pixel, NEW B \in SUBSET Pixel, A \cap B = {}
  PROVE  Cardinality(A \cup B) = Cardinality(A) + Cardinality(B)
<1>1. IsFiniteSet(A) /\ IsFiniteSet(B) /\ Cardinality(A) \in Nat /\ Cardinality(B) \in Nat
  BY PixelsAreFinite
<1>2. Cardinality(A \cup B) = Cardinality(A) + Cardinality(B) - Cardinality(A \cap B)
  BY <1>1, FS_Union
<1>3. Cardinality(A \cap B) = 0
  BY FS_EmptySet
<1> QED
  BY <1>1, <1>2, <1>3

LEMMA TagsAreFinite == ASSUME NEW S \in SUBSET Tag PROVE IsFiniteSet(S) /\ Cardinality(S) \in Nat
<1>1. IsFiniteSet(Tag)
  BY SidesAre, FS_Interval DEF Tag
<1> QED
  BY <1>1, FS_Subset, FS_CardinalityType

(* Two blobs become one, with the pixel that touches both. *)
LEMMA MergeKeeps == ASSUME BlobInv, Merge PROVE BlobInv'
<1>1. /\ pos \in Nat /\ ~tooMany
      /\ here \in Pixel /\ here \in white /\ here \in mask /\ img[here] = WHITE
      /\ WHITE \notin Tag /\ BLACK \notin Tag /\ WHITE # BLACK
      /\ lastX # BLACK => Behind(left, lastX)
      /\ lastY # BLACK => Behind(above, lastY)
      /\ \A p \in Pixel : img[p] \in Tag /\ Adjacent(p, here) =>
             (p = left /\ img[p] = lastX) \/ (p = above /\ img[p] = lastY)
  BY AtWhiteIs DEF Merge
<1>2. PICK pri, sec : /\ img' = Repaint(img, Painted(img, sec) \cup {here}, pri)
                      /\ blobs' = [blobs EXCEPT ![pri] = Merged(blobs[pri], blobs[sec]), ![sec] = NoBlob]
                      /\ << pri, sec >> \in {<< lastX, lastY >>, << lastY, lastX >>}
  BY DEF Merge
<1>3. lastX # BLACK /\ lastY # BLACK /\ pri # sec /\ {lastX, lastY} = {pri, sec}
  BY <1>2 DEF Merge
<1>4. PICK p0 \in {left, above}, q0 \in {left, above} : Behind(p0, pri) /\ Behind(q0, sec)
  BY <1>1, <1>3
<1>5. /\ p0 \in Pixel /\ Adjacent(p0, here) /\ pri \in Tag /\ p0 \in Tagged(pri)
      /\ q0 \in Pixel /\ Adjacent(q0, here) /\ sec \in Tag /\ q0 \in Tagged(sec)
  BY <1>4 DEF Behind, Tagged
<1>6. Scanning /\ pos' = pos + 1 /\ UNCHANGED << mask, white, tooMany >> /\ blobCount' = blobCount - 1
  BY DEF Merge, AtWhite
<1>7. Tag \subseteq 0 .. NTags + 1 /\ img \in [Pixel -> 0 .. NTags + 1] /\ blobs \in [Tag -> BlobData]
  BY SidesAre DEF Tag, BlobInv, BlobTypes
<1>8. Painted(img, sec) = Tagged(sec)
  BY <1>5, PaintedIs
<1>9. /\ img' \in [Pixel -> 0 .. NTags + 1]
      /\ \A p \in Pixel : img'[p] = IF p = here \/ img[p] = sec THEN pri ELSE img[p]
  BY <1>2, <1>5, <1>7, <1>8 DEF Repaint, Tagged
<1>10. /\ blobs'[pri] = Merged(blobs[pri], blobs[sec]) /\ blobs'[sec] = NoBlob
       /\ \A s \in Tag : s # pri /\ s # sec => blobs'[s] = blobs[s]
       /\ blobs' \in [Tag -> BlobData]
  <2>1. NoBlob \in BlobData
    BY DEF NoBlob, BlobData
  <2>2. Merged(blobs[pri], blobs[sec]) \in BlobData
    BY <1>1, <1>5, <1>7, MergedIs
  <2> QED
    BY <1>2, <1>3, <1>5, <1>7, <2>1, <2>2
<1>11. BlobTypes' /\ LeftIsGood'
  BY <1>6, <1>9, <1>10, StillTyped
<1>12. ColoursHold'
  BY <1>1, <1>5, <1>6, <1>9, ColoursMove
<1>13. GoneIsBad'
  BY <1>1, <1>5, <1>6, <1>9, BlacksMove
<1>14. Pixel' = Pixel /\ Tag' = Tag
  BY DEF Pixel, Tag
<1>15. /\ Tagged(pri)' = (Tagged(pri) \cup {here}) \cup Tagged(sec)
       /\ Tagged(sec)' = {}
       /\ \A s \in Tag : s # pri /\ s # sec => Tagged(s)' = Tagged(s)
  BY <1>1, <1>3, <1>5, <1>9, <1>14 DEF Tagged
<1>16. /\ Tagged(pri) \in SUBSET Pixel /\ Tagged(sec) \in SUBSET Pixel
       /\ here \notin Tagged(pri) /\ here \notin Tagged(sec) /\ Tagged(pri) \cap Tagged(sec) = {}
       /\ blobs[pri].pixels = Cardinality(Tagged(pri)) /\ blobs[sec].pixels = Cardinality(Tagged(sec))
       /\ Cardinality(Tagged(pri)) \in Nat /\ Cardinality(Tagged(sec)) \in Nat
       /\ blobs[pri].pixels # 0 /\ blobs[sec].pixels # 0
       /\ blobs[pri] \in BlobData /\ blobs[sec] \in BlobData
       /\ IsFiniteSet(Tagged(pri))
  <2>1. Tagged(pri) \cap Tagged(sec) = {} /\ here \notin Tagged(pri) /\ here \notin Tagged(sec)
    BY <1>1, <1>3, <1>5 DEF Tagged
  <2> QED
    BY <1>5, <2>1, TaggedIs
<1>17. TagHolds(pri)'
  <2>1. blobs'[pri].pixels = Cardinality((Tagged(pri) \cup {here}) \cup Tagged(sec))
    <3>1. blobs'[pri].pixels = blobs[pri].pixels + blobs[sec].pixels + 1
      BY <1>1, <1>10, <1>16, MergedIs
    <3>2. Cardinality(Tagged(pri) \cup {here}) = Cardinality(Tagged(pri)) + 1
      BY <1>16, FS_AddElement
    <3>3. Cardinality((Tagged(pri) \cup {here}) \cup Tagged(sec)) = Cardinality(Tagged(pri) \cup {here}) + Cardinality(Tagged(sec))
      <4>1. (Tagged(pri) \cup {here}) \in SUBSET Pixel /\ (Tagged(pri) \cup {here}) \cap Tagged(sec) = {}
        BY <1>1, <1>16
      <4> QED
        BY <1>16, <4>1, DisjointSizes
    <3> QED
      BY <1>16, <3>1, <3>2, <3>3
  <2>2. /\ Joined(Tagged(pri)) /\ \A p \in Tagged(pri) : InBox(p, blobs[pri])
        /\ Joined(Tagged(sec)) /\ \A p \in Tagged(sec) : InBox(p, blobs[sec])
    BY <1>5 DEF BlobInv, TagsHold
  <2>3. Joined(Tagged(pri) \cup {here}) /\ (Tagged(pri) \cup {here}) \in SUBSET Pixel
    BY <1>1, <1>5, <1>16, <2>2, JoinedGrows
  <2>4. Joined((Tagged(pri) \cup {here}) \cup Tagged(sec))
    <3>1. Adjacent(here, q0) /\ here \in Tagged(pri) \cup {here}
      BY <1>1, <1>5, AdjacentBoth
    <3> QED
      BY <1>5, <1>16, <2>2, <2>3, <3>1, JoinedUnion
  <2>5. \A p \in (Tagged(pri) \cup {here}) \cup Tagged(sec) : InBox(p, blobs'[pri])
    <3>1. InBox(here, blobs'[pri])
      BY <1>1, <1>4, <1>5, <1>10, <1>16, <2>2, MergedIs
    <3>2. \A p \in Tagged(pri) \cup Tagged(sec) : InBox(p, blobs'[pri])
      BY <1>1, <1>10, <1>16, <2>2, MergedIs
    <3> QED
      BY <3>1, <3>2
  <2>6. Joined(Tagged(pri))' <=> Joined(Tagged(pri)')
    BY DEF Joined, Closed, Adjacent
  <2>7. \A p : InBox(p, blobs[pri])' <=> InBox(p, blobs'[pri])
    BY DEF InBox
  <2> QED
    BY <1>15, <2>1, <2>4, <2>5, <2>6, <2>7 DEF TagHolds
<1>18. TagHolds(sec)'
  <2>1. Joined(Tagged(sec))' <=> Joined(Tagged(sec)')
    BY DEF Joined, Closed, Adjacent
  <2>2. Joined({}) /\ Cardinality({}) = 0 /\ NoBlob.pixels = 0
    BY FS_EmptySet DEF Joined, NoBlob
  <2> QED
    BY <1>10, <1>15, <2>1, <2>2 DEF TagHolds
<1>19. \A s \in Tag : TagHolds(s)'
  BY <1>10, <1>15, <1>17, <1>18, TagStays
<1>20. ASSUME NEW p \in Pixel, NEW q \in Pixel, img'[p] \in Tag, img'[q] \in Tag, Adjacent(p, q)
       PROVE  img'[p] = img'[q]
  <2>1. Adjacent(q, p)
    BY <1>20, AdjacentBoth
  <2>2. ASSUME NEW r \in Pixel, r # here, img'[r] \in Tag, Adjacent(r, here) PROVE img'[r] = pri
    <3>1. img[r] \in Tag
      BY <1>5, <1>9, <2>2
    <3>2. img[r] \in {pri, sec}
      BY <1>1, <1>3, <2>2, <3>1
    <3> QED
      BY <1>9, <3>2
  <2>3. CASE p # here /\ q # here
    <3>1. img[p] \in Tag /\ img[q] \in Tag
      BY <1>5, <1>9, <1>20, <2>3
    <3>2. img[p] = img[q]
      BY <1>20, <3>1 DEF BlobInv, TagsHold
    <3> QED
      BY <1>9, <2>3, <3>2
  <2>4. img'[here] = pri
    BY <1>1, <1>9
  <2> QED
    BY <1>20, <2>1, <2>2, <2>3, <2>4
<1>21. blobCount' = Cardinality({ s \in Tag : blobs'[s].pixels # 0 })
  <2> DEFINE used == { s \in Tag : blobs[s].pixels # 0 }
  <2>1. blobs'[pri].pixels # 0 /\ blobs'[sec].pixels = 0
    <3>1. blobs'[pri].pixels = blobs[pri].pixels + blobs[sec].pixels + 1
      BY <1>1, <1>10, <1>16, MergedIs
    <3> QED
      BY <1>10, <1>16, <3>1 DEF NoBlob
  <2>2. { s \in Tag : blobs'[s].pixels # 0 } = used \ {sec}
    BY <1>10, <1>16, <2>1
  <2>3. sec \in used /\ IsFiniteSet(used)
    BY <1>5, <1>16, TagsAreFinite
  <2>4. Cardinality(used \ {sec}) = Cardinality(used) - 1
    BY <2>3, FS_RemoveElement
  <2> QED
    BY <1>6, <2>2, <2>4 DEF BlobInv, TagsHold
<1>22. TagsHold'
  BY <1>19, <1>20, <1>21, TagsAgain
<1> QED
  BY <1>11, <1>12, <1>13, <1>22 DEF BlobInv

(* A blob all of whose white neighbours are behind the scan is a whole component. *)
LEMMA WholeBlob ==
  ASSUME BlobInv, ~tooMany, NEW t \in Tag,
         \A p \in Tagged(t), q \in white : Adjacent(p, q) => Scanned(q)
  PROVE  Whole(Tagged(t))
<1>1. Tagged(t) \in SUBSET white /\ white \in SUBSET Pixel /\ Joined(Tagged(t))
  BY TaggedIs DEF BlobInv, BlobTypes, TagsHold
<1>2. ASSUME NEW p \in Tagged(t), NEW q \in white, Adjacent(p, q) PROVE q \in Tagged(t)
  <2>1. p \in Pixel /\ q \in Pixel /\ p \in white /\ img[p] = t /\ Adjacent(q, p)
    BY <1>1, <1>2, AdjacentBoth DEF Tagged
  <2>2. img[q] # WHITE
    BY <1>2, <2>1 DEF BlobInv, ColoursHold
  <2>3. CASE img[q] = BLACK
    <3>1. PICK set : q \in set /\ Whole(set) /\ \A r \in set : img[r] = BLACK
      BY <2>3 DEF BlobInv, GoneIsBad
    <3>2. p \in set
      BY <2>1, <3>1 DEF Whole, Closed
    <3> QED
      BY <2>1, <3>1, <3>2, SidesAre DEF Tag, BLACK
  <2>4. CASE img[q] # BLACK
    <3>1. img[q] \in Tag
      BY <2>1, <2>2, <2>4, SidesAre DEF BlobInv, BlobTypes, Tag, BLACK, WHITE
    <3> QED
      BY <1>2, <2>1, <3>1 DEF BlobInv, TagsHold, Tagged
  <2> QED
    BY <2>3, <2>4
<1> QED
  BY <1>1, <1>2 DEF Whole, Closed

(* That the last row of a blob is above the row above makes it one (libimgImage.cpp:6787). *)
LEMMA RecyclableIsWhole ==
  ASSUME BlobInv, AtWhite, NEW t \in Tag, Recyclable(t)
  PROVE  Whole(Tagged(t)) /\ OutOfSize([pixels |-> Cardinality(Tagged(t))])
<1>1. pos \in Nat /\ ~tooMany
  BY AtWhiteIs
<1>2. scanY \in Int
  BY <1>1, WhereItIs
<1>3. ASSUME NEW p \in Tagged(t), NEW q \in white, Adjacent(p, q) PROVE Scanned(q)
  <2>1. p \in Pixel /\ q \in Pixel
    BY <1>3, TaggedIs DEF BlobInv, BlobTypes
  <2>2. p[1] \in Int /\ p[2] \in Int /\ q[1] \in Int /\ q[2] \in Int
    BY <2>1, PixelIs, SidesAre
  <2>3. InBox(p, blobs[t]) /\ blobs[t].loY \in Int /\ blobs[t].hiY \in Int
    BY TaggedIs DEF BlobInv, TagsHold, BlobData
  <2>4. p[2] <= blobs[t].hiY /\ blobs[t].hiY < scanY - 1
    BY <2>2, <2>3 DEF InBox, Recyclable
  <2>5. q[2] <= p[2] + 1
    BY <1>3, <2>2 DEF Adjacent
  <2> QED
    BY <1>2, <2>2, <2>3, <2>4, <2>5 DEF Scanned
<1>4. Whole(Tagged(t))
  BY <1>1, <1>3, WholeBlob
<1>5. blobs[t].pixels = Cardinality(Tagged(t)) /\ OutOfSize(blobs[t])
  BY TaggedIs DEF Recyclable
<1> QED
  BY <1>4, <1>5 DEF OutOfSize

LEMMA NewBlobKeeps == ASSUME BlobInv, NewBlob PROVE BlobInv'
<1>0. AtWhite
  BY DEF NewBlob
<1>1. /\ pos \in Nat /\ ~tooMany
      /\ here \in Pixel /\ here \in white /\ here \in mask /\ img[here] = WHITE
      /\ WHITE \notin Tag /\ BLACK \notin Tag /\ WHITE # BLACK
      /\ \A p \in Pixel : img[p] \in Tag /\ Adjacent(p, here) =>
             (p = left /\ img[p] = lastX) \/ (p = above /\ img[p] = lastY)
  BY <1>0, AtWhiteIs
<1> DEFINE first == [pixels |-> 1, loX |-> scanX, hiX |-> scanX, loY |-> scanY, hiY |-> scanY]
<1>2. PICK t \in Tag :
          /\ Usable(t)
          /\ img' = [Repaint(img, IF Recyclable(t) THEN Painted(img, t) ELSE {}, BLACK) EXCEPT ![here] = t]
          /\ blobs' = [blobs EXCEPT ![t] = first]
          /\ blobCount' = IF Recyclable(t) THEN blobCount ELSE blobCount + 1
  BY DEF NewBlob
<1>3. Scanning /\ pos' = pos + 1 /\ UNCHANGED << mask, white, tooMany >> /\ lastX = BLACK /\ lastY = BLACK
  BY <1>0 DEF NewBlob, AtWhite
<1>4. Tag \subseteq 0 .. NTags + 1 /\ BLACK \in 0 .. NTags + 1 /\ img \in [Pixel -> 0 .. NTags + 1] /\ blobs \in [Tag -> BlobData]
  BY SidesAre DEF Tag, BLACK, BlobInv, BlobTypes
<1>5. /\ IF Recyclable(t) THEN blobs[t].pixels # 0 ELSE blobs[t].pixels = 0
      /\ (IF Recyclable(t) THEN Painted(img, t) ELSE {}) = Tagged(t)
  BY <1>2, PaintedIs, TaggedIs DEF Usable, Recyclable
<1>6. /\ img' \in [Pixel -> 0 .. NTags + 1] /\ img'[here] = t
      /\ \A p \in Pixel : p # here => img'[p] = IF img[p] = t THEN BLACK ELSE img[p]
  BY <1>1, <1>2, <1>4, <1>5 DEF Repaint, Tagged
<1>7. scanX \in Int /\ scanY \in Int
  BY <1>1, WhereItIs, SidesAre
<1>8. first \in BlobData /\ first.pixels = 1 /\ InBox(here, first)
  BY <1>7 DEF BlobData, InBox, here
<1> HIDE DEF first
<1>9. /\ blobs'[t] = first /\ \A s \in Tag : s # t => blobs'[s] = blobs[s]
      /\ blobs' \in [Tag -> BlobData]
  BY <1>2, <1>4, <1>8
<1>10. BlobTypes' /\ LeftIsGood'
  BY <1>3, <1>6, <1>9, StillTyped
<1>11. ColoursHold'
  BY <1>1, <1>2, <1>3, <1>6, ColoursMove
<1>12. Pixel' = Pixel /\ Tag' = Tag
  BY DEF Pixel, Tag
<1>13. Tagged(t)' = {here} /\ \A s \in Tag : s # t => Tagged(s)' = Tagged(s)
  BY <1>1, <1>2, <1>6, <1>12 DEF Tagged
<1>14. TagHolds(t)'
  <2>1. Joined({here}) /\ Cardinality({here}) = 1
    BY JoinedOne, FS_Singleton
  <2>2. Joined(Tagged(t))' <=> Joined(Tagged(t)')
    BY DEF Joined, Closed, Adjacent
  <2>3. \A p : InBox(p, blobs[t])' <=> InBox(p, blobs'[t])
    BY DEF InBox
  <2> QED
    BY <1>8, <1>9, <1>13, <2>1, <2>2, <2>3 DEF TagHolds
<1>15. \A s \in Tag : TagHolds(s)'
  BY <1>9, <1>13, <1>14, TagStays
<1>16. ASSUME NEW p \in Pixel, NEW q \in Pixel, img'[p] \in Tag, img'[q] \in Tag, Adjacent(p, q)
       PROVE  img'[p] = img'[q]
  <2>1. Adjacent(q, p)
    BY <1>16, AdjacentBoth
  <2>2. ASSUME NEW r \in Pixel, r # here, img'[r] \in Tag PROVE img[r] = img'[r] /\ ~Adjacent(r, here)
    <3>1. img[r] = img'[r]
      BY <1>1, <1>6, <2>2
    <3>2. lastX \notin Tag /\ lastY \notin Tag
      BY <1>1, <1>3
    <3> QED
      BY <1>1, <2>2, <3>1, <3>2
  <2>3. CASE p # here /\ q # here
    <3>1. img[p] = img'[p] /\ img[q] = img'[q]
      BY <1>16, <2>2, <2>3
    <3> QED
      BY <1>16, <3>1 DEF BlobInv, TagsHold
  <2> QED
    BY <1>16, <2>1, <2>2, <2>3
<1>17. blobCount' = Cardinality({ s \in Tag : blobs'[s].pixels # 0 })
  <2> DEFINE used == { s \in Tag : blobs[s].pixels # 0 }
  <2>1. { s \in Tag : blobs'[s].pixels # 0 } = used \cup {t}
    BY <1>2, <1>8, <1>9
  <2>2. IsFiniteSet(used) /\ (t \in used <=> Recyclable(t))
    BY <1>2, <1>5, TagsAreFinite
  <2>3. blobCount = Cardinality(used)
    BY DEF BlobInv, TagsHold
  <2> HIDE DEF used
  <2>4. Cardinality(used \cup {t}) = IF t \in used THEN Cardinality(used) ELSE Cardinality(used) + 1
    BY <2>2, FS_AddElement
  <2> QED
    BY <1>2, <2>1, <2>2, <2>3, <2>4
<1>18. TagsHold'
  BY <1>12, <1>15, <1>16, <1>17, TagsAgain
<1>19. GoneIsBad'
  <2>1. white \in SUBSET Pixel /\ \A set : Whole(set) => set \in SUBSET Pixel
    BY DEF BlobInv, BlobTypes, Whole
  <2>2. \A set : Whole(set)' <=> Whole(set)
    BY <1>3 DEF Whole, Joined, Closed, Adjacent
  <2>3. ASSUME NEW p \in white, img'[p] = BLACK
        PROVE  \E set : /\ p \in set /\ Whole(set) /\ OutOfSize([pixels |-> Cardinality(set)])
                        /\ \A q \in set : img'[q] = BLACK
    <3>1. p # here /\ p \in Pixel
      BY <1>1, <1>2, <1>6, <2>1, <2>3
    <3>2. CASE img[p] = t
      <4>1. p \in Tagged(t)
        BY <3>1, <3>2 DEF Tagged
      <4>2. Recyclable(t)
        BY <1>2, <1>5, <4>1, TaggedIs
      <4>3. Whole(Tagged(t)) /\ OutOfSize([pixels |-> Cardinality(Tagged(t))])
        BY <1>0, <1>2, <4>2, RecyclableIsWhole
      <4>4. \A q \in Tagged(t) : img'[q] = BLACK
        BY <1>1, <1>2, <1>6 DEF Tagged
      <4> QED
        BY <4>1, <4>3, <4>4
    <3>3. CASE img[p] # t
      <4>1. img[p] = BLACK
        BY <1>6, <2>3, <3>1, <3>3
      <4>2. PICK set : /\ p \in set /\ Whole(set) /\ OutOfSize([pixels |-> Cardinality(set)])
                       /\ \A q \in set : img[q] = BLACK
        BY <1>1, <4>1 DEF BlobInv, GoneIsBad
      <4>3. \A q \in set : img'[q] = BLACK
        BY <1>1, <1>6, <2>1, <4>2
      <4> QED
        BY <4>2, <4>3
    <3> QED
      BY <3>2, <3>3
  <2> QED
    BY <1>3, <2>2, <2>3 DEF GoneIsBad, OutOfSize, BLACK
<1> QED
  BY <1>10, <1>11, <1>18, <1>19 DEF BlobInv

LEMMA NoFreeTagKeeps == ASSUME BlobInv, NoFreeTag PROVE BlobInv'
<1>1. Width * Height \in Nat
  BY SidesAre
<1>2. BlobTypes' /\ LeftIsGood'
  BY <1>1 DEF NoFreeTag, BlobInv, BlobTypes, LeftIsGood, Pixel, Tag, BlobData, Scanning
<1>3. ColoursHold'
  BY DEF NoFreeTag, BlobInv, ColoursHold, Pixel, BLACK
<1>4. TagsHold'
  BY TagsUnchanged DEF NoFreeTag
<1>5. GoneIsBad'
  BY DEF NoFreeTag, GoneIsBad
<1> QED
  BY <1>2, <1>3, <1>4, <1>5 DEF BlobInv

LEMMA EliminateKeeps == ASSUME BlobInv, Eliminate PROVE BlobInv'
<1>1. pos = Width * Height /\ pos \in Nat /\ pos' = pos + 1 /\ UNCHANGED << mask, white, tooMany >>
  BY SidesAre DEF Eliminate
<1> DEFINE badNow == { t \in Tag : blobs[t].pixels # 0 /\ OutOfSize(blobs[t]) }
<1>2. PICK bad :
          /\ bad = badNow
          /\ img' = Repaint(img, UNION { Painted(img, t) : t \in bad }, BLACK)
          /\ blobs' = [t \in Tag |-> IF t \in bad THEN NoBlob ELSE blobs[t]]
          /\ blobCount' = blobCount - Cardinality(bad)
  BY DEF Eliminate
<1>3. ~Scanning /\ ~(pos' < Width * Height) /\ pos' \in Nat
  BY <1>1, SidesAre DEF Scanning
<1>4. bad \in SUBSET Tag /\ BLACK \notin Tag /\ WHITE \notin Tag
  BY <1>2, SidesAre DEF Tag, BLACK, WHITE
<1>5. img \in [Pixel -> 0 .. NTags + 1] /\ BLACK \in 0 .. NTags + 1 /\ blobs \in [Tag -> BlobData]
  BY SidesAre DEF BLACK, BlobInv, BlobTypes
<1>6. \A p \in Pixel : p \in UNION { Painted(img, t) : t \in bad } <=> img[p] \in bad
  <2>1. \A t \in bad : Painted(img, t) = Tagged(t)
    BY <1>4, PaintedIs
  <2> QED
    BY <2>1 DEF Tagged
<1>7. /\ img' \in [Pixel -> 0 .. NTags + 1]
      /\ \A p \in Pixel : img'[p] = IF img[p] \in bad THEN BLACK ELSE img[p]
  BY <1>2, <1>5, <1>6 DEF Repaint
<1>8. NoBlob \in BlobData /\ NoBlob.pixels = 0
  BY DEF NoBlob, BlobData
<1>9. /\ \A t \in Tag : blobs'[t] = IF t \in bad THEN NoBlob ELSE blobs[t]
      /\ blobs' \in [Tag -> BlobData]
  BY <1>2, <1>5, <1>8
<1>10. Pixel' = Pixel /\ Tag' = Tag /\ BlobData' = BlobData
  BY DEF Pixel, Tag, BlobData
<1>11. BlobTypes'
  <2>1. Scanning' <=> pos' < Width * Height
    BY DEF Scanning
  <2>2. pos' \in 0 .. Width * Height + 1
    BY <1>1, SidesAre
  <2> QED
    BY <1>1, <1>3, <1>7, <1>9, <1>10, <2>1, <2>2 DEF BlobInv, BlobTypes
<1>12. LeftIsGood'
  <2>1. \A t \in Tag : blobs'[t].pixels # 0 => ~OutOfSize(blobs'[t])
    BY <1>2, <1>8, <1>9
  <2> QED
    BY <1>10, <2>1 DEF LeftIsGood, OutOfSize
<1>13. ASSUME NEW p \in Pixel PROVE Scanned(p) /\ Scanned(p)'
  <2>1. Scanned(p)
    BY <1>1, <1>3, AllScanned
  <2>2. scanY' = pos' \div Width /\ ~(pos' \div Width < Height) /\ pos' \div Width \in Nat
    <3>1. ASSUME NEW n \in Nat, ~(n < Width * Height) PROVE ~(n \div Width < Height) /\ n \div Width \in Nat
      BY <3>1, RowsBelow, RowsAre, SidesAre
    <3> QED
      BY <1>3, <3>1 DEF scanY
  <2>3. p[2] < scanY'
    BY <2>2, PixelIs, SidesAre
  <2> QED
    BY <2>1, <2>3 DEF Scanned
<1>14. ColoursHold'
  <2>1. WHITE # BLACK /\ WHITE' = WHITE /\ BLACK' = BLACK
    BY SidesAre DEF WHITE, BLACK
  <2>2. \A p \in Pixel : img'[p] # BLACK => p \in white
    BY <1>7 DEF BlobInv, ColoursHold
  <2>3. ~tooMany => \A p \in Pixel : img'[p] # WHITE
    BY <1>7, <1>13, <2>1 DEF BlobInv, ColoursHold
  <2> QED
    BY <1>1, <1>10, <1>13, <2>1, <2>2, <2>3 DEF ColoursHold
<1>15. \A t \in Tag : Tagged(t)' = IF t \in bad THEN {} ELSE Tagged(t)
  BY <1>4, <1>7, <1>10 DEF Tagged
<1>16. ASSUME NEW t \in Tag PROVE TagHolds(t)'
  <2>1. CASE t \in bad
    <3>1. Joined(Tagged(t))' <=> Joined(Tagged(t)')
      BY DEF Joined, Closed, Adjacent
    <3>2. Joined({}) /\ Cardinality({}) = 0
      BY FS_EmptySet DEF Joined
    <3> QED
      BY <1>8, <1>9, <1>15, <2>1, <3>1, <3>2 DEF TagHolds
  <2>2. CASE t \notin bad
    BY <1>9, <1>15, <2>2, TagStays
  <2> QED
    BY <2>1, <2>2
<1>17. ASSUME NEW p \in Pixel, NEW q \in Pixel, img'[p] \in Tag, img'[q] \in Tag, Adjacent(p, q)
       PROVE  img'[p] = img'[q]
  <2>1. img'[p] = img[p] /\ img'[q] = img[q]
    BY <1>4, <1>7, <1>17
  <2> QED
    BY <1>17, <2>1 DEF BlobInv, TagsHold
<1>18. blobCount' = Cardinality({ t \in Tag : blobs'[t].pixels # 0 })
  <2> DEFINE used == { t \in Tag : blobs[t].pixels # 0 }
  <2>1. { t \in Tag : blobs'[t].pixels # 0 } = used \ bad
    BY <1>8, <1>9
  <2>2. used \cap bad = bad /\ used \in SUBSET Tag
    BY <1>2
  <2>3. blobCount = Cardinality(used)
    BY DEF BlobInv, TagsHold
  <2> HIDE DEF used
  <2>4. IsFiniteSet(used) /\ Cardinality(used) \in Nat
    BY <2>2, TagsAreFinite
  <2>5. Cardinality(used \ bad) = Cardinality(used) - Cardinality(used \cap bad)
    BY <2>4, FS_Difference
  <2> QED
    BY <1>2, <2>1, <2>2, <2>3, <2>5
<1>19. TagsHold'
  BY <1>16, <1>17, <1>18, TagsAgain
<1>20. GoneIsBad'
  <2>1. white \in SUBSET Pixel /\ \A set : Whole(set) => set \in SUBSET Pixel
    BY DEF BlobInv, BlobTypes, Whole
  <2>2. \A set : Whole(set)' <=> Whole(set)
    BY <1>1 DEF Whole, Joined, Closed, Adjacent
  <2>3. ASSUME ~tooMany, NEW p \in white, img'[p] = BLACK
        PROVE  \E set : /\ p \in set /\ Whole(set) /\ OutOfSize([pixels |-> Cardinality(set)])
                        /\ \A q \in set : img'[q] = BLACK
    <3>1. CASE img[p] \in bad
      <4>1. PICK t \in bad : img[p] = t
        BY <3>1
      <4>2. p \in Tagged(t) /\ t \in Tag
        BY <1>4, <2>1, <4>1 DEF Tagged
      <4>3. Whole(Tagged(t))
        BY <1>13, <2>1, <2>3, <4>2, WholeBlob
      <4>4. OutOfSize([pixels |-> Cardinality(Tagged(t))])
        BY <1>2, <4>2, TaggedIs DEF OutOfSize
      <4>5. \A q \in Tagged(t) : img'[q] = BLACK
        BY <1>7 DEF Tagged
      <4> QED
        BY <4>2, <4>3, <4>4, <4>5
    <3>2. CASE img[p] \notin bad
      <4>1. img[p] = BLACK
        BY <1>7, <2>1, <2>3, <3>2
      <4>2. PICK set : /\ p \in set /\ Whole(set) /\ OutOfSize([pixels |-> Cardinality(set)])
                       /\ \A q \in set : img[q] = BLACK
        BY <2>3, <4>1 DEF BlobInv, GoneIsBad
      <4>3. \A q \in set : img'[q] = BLACK
        BY <1>7, <2>1, <4>2
      <4> QED
        BY <4>2, <4>3
    <3> QED
      BY <3>1, <3>2
  <2> QED
    BY <1>1, <2>2, <2>3 DEF GoneIsBad, OutOfSize, BLACK
<1> QED
  BY <1>11, <1>12, <1>14, <1>19, <1>20 DEF BlobInv

LEMMA BlobStutters == ASSUME BlobInv, UNCHANGED blobVars PROVE BlobInv'
<1>1. BlobTypes'
  BY DEF BlobInv, blobVars, BlobTypes, Pixel, Tag, BlobData, Scanning
<1>2. ColoursHold'
  BY DEF BlobInv, blobVars, ColoursHold, Scanned, scanX, scanY, Pixel, WHITE, BLACK
<1>3. TagsHold'
  BY TagsUnchanged DEF blobVars
<1>4. GoneIsBad'
  BY BlacksMove DEF blobVars
<1>5. LeftIsGood'
  BY DEF BlobInv, blobVars, LeftIsGood, OutOfSize, Tag
<1> QED
  BY <1>1, <1>2, <1>3, <1>4, <1>5 DEF BlobInv

LEMMA BlobStep == BlobInv /\ [BlobNext]_blobVars => BlobInv'
BY PassKeeps, AddPixelKeeps, MergeKeeps, NewBlobKeeps, NoFreeTagKeeps, EliminateKeeps, BlobStutters DEF BlobNext

(* At every pixel of the scan a blob is in one piece with its own number and box, the
   pixels given up so far are whole components out of size, and no white pixel is
   left behind (libimgImage.cpp:6548-6838). *)
THEOREM BlobInvariant == BlobSpec => []BlobInv
<1>1. BlobInit => BlobInv
  BY BlobStart
<1> QED
  BY <1>1, BlobStep, PTL DEF BlobSpec

LEMMA ScanInvHolds == BlobInv => ScanInv
<1> SUFFICES ASSUME BlobInv PROVE ScanInv
  OBVIOUS
<1>1. ASSUME NEW t \in Tag, Tagged(t) # {}
      PROVE  /\ LET p == CHOOSE q \in Tagged(t) : TRUE IN Component(p, Tagged(t)) = Tagged(t)
             /\ \A p \in Tagged(t) : /\ p[1] \in blobs[t].loX .. blobs[t].hiX
                                     /\ p[2] \in blobs[t].loY .. blobs[t].hiY
  <2> DEFINE p == CHOOSE q \in Tagged(t) : TRUE
  <2>1. p \in Tagged(t)
    BY <1>1
  <2> HIDE DEF p
  <2>2. Tagged(t) \in SUBSET Pixel /\ Joined(Tagged(t)) /\ Closed(Tagged(t), Tagged(t))
    BY TaggedIs DEF BlobInv, TagsHold, Closed
  <2>3. Component(p, Tagged(t)) = Tagged(t)
    BY <2>1, <2>2, ComponentIs
  <2>4. \A q \in Tagged(t) : InBox(q, blobs[t])
    BY DEF BlobInv, TagsHold
  <2> QED
    BY <2>3, <2>4 DEF p, InBox
<1>2. \A t \in Tag : blobs[t].pixels = Cardinality(Tagged(t))
  BY DEF BlobInv, TagsHold
<1>3. \A p, q \in Pixel : img[p] \in Tag /\ img[q] \in Tag /\ Adjacent(p, q) => img[p] = img[q]
  BY DEF BlobInv, TagsHold
<1>4. blobCount = Cardinality({ t \in Tag : blobs[t].pixels # 0 })
  BY DEF BlobInv, TagsHold
<1> QED
  BY <1>1, <1>2, <1>3, <1>4 DEF ScanInv

LEMMA ComponentsFollow == BlobInv => BlobsAreComponents
<1> SUFFICES ASSUME BlobInv, pos > Width * Height, ~tooMany
             PROVE  { Tagged(t) : t \in Tag } \ {{}} =
                        { set \in { Component(p, white) : p \in white } : ~OutOfSize([pixels |-> Cardinality(set)]) }
  BY ScanInvHolds DEF BlobsAreComponents
<1>1. pos \in Nat /\ ~Scanning
  BY SidesAre DEF BlobInv, BlobTypes, Scanning
<1>2. \A p \in Pixel : Scanned(p) /\ img[p] # WHITE
  BY <1>1, AllScanned DEF BlobInv, ColoursHold
<1>3. white \in SUBSET Pixel
  BY DEF BlobInv, BlobTypes
<1>4. ASSUME NEW t \in Tag, NEW p \in Tagged(t)
      PROVE  /\ p \in white /\ Component(p, white) = Tagged(t)
             /\ ~OutOfSize([pixels |-> Cardinality(Tagged(t))])
  <2>1. Whole(Tagged(t)) /\ p \in white
    BY <1>2, <1>3, <1>4, WholeBlob, TaggedIs
  <2>2. Component(p, white) = Tagged(t)
    BY <1>3, <1>4, <2>1, ComponentIs DEF Whole
  <2>3. blobs[t].pixels # 0 /\ blobs[t].pixels = Cardinality(Tagged(t))
    BY <1>4, TaggedIs
  <2>4. ~OutOfSize(blobs[t])
    BY <2>3 DEF BlobInv, LeftIsGood
  <2> QED
    BY <2>1, <2>2, <2>3, <2>4 DEF OutOfSize
<1>5. ASSUME NEW p \in white, ~OutOfSize([pixels |-> Cardinality(Component(p, white))])
      PROVE  \E t \in Tag : p \in Tagged(t)
  <2>1. p \in Pixel /\ img[p] # WHITE
    BY <1>2, <1>3
  <2>2. img[p] # BLACK
    <3> SUFFICES ASSUME img[p] = BLACK PROVE FALSE
      OBVIOUS
    <3>1. PICK set : p \in set /\ Whole(set) /\ OutOfSize([pixels |-> Cardinality(set)])
      BY DEF BlobInv, GoneIsBad
    <3>2. Component(p, white) = set
      BY <1>3, <3>1, ComponentIs DEF Whole
    <3> QED
      BY <1>5, <3>1, <3>2
  <2>3. img[p] \in Tag
    BY <2>1, <2>2, SidesAre DEF BlobInv, BlobTypes, Tag, BLACK, WHITE
  <2> QED
    BY <2>1, <2>3 DEF Tagged
<1>6. ASSUME NEW set \in { Tagged(t) : t \in Tag } \ {{}}
      PROVE  set \in { s \in { Component(p, white) : p \in white } : ~OutOfSize([pixels |-> Cardinality(s)]) }
  <2>1. PICK t \in Tag : set = Tagged(t) /\ \E p : p \in Tagged(t)
    BY <1>6
  <2> QED
    BY <1>4, <2>1
<1>7. ASSUME NEW p \in white, ~OutOfSize([pixels |-> Cardinality(Component(p, white))])
      PROVE  Component(p, white) \in { Tagged(t) : t \in Tag } \ {{}}
  <2>1. PICK t \in Tag : p \in Tagged(t)
    BY <1>5, <1>7
  <2>2. Component(p, white) = Tagged(t) /\ Tagged(t) # {}
    BY <1>4, <2>1
  <2> QED
    BY <2>2
<1> QED
  BY <1>6, <1>7

(* For every mask and picture, whichever blobs were merged, whichever tags were given back and used again:
   a scan that did not run out of tags ends with the connected components of the white
   pixels that are within the limits, no more and no fewer (libimgImage.cpp:6518-6889). *)
THEOREM BlobsAlwaysComponents == BlobSpec => []BlobsAreComponents
BY BlobInvariant, ComponentsFollow, PTL
=============================================================================
