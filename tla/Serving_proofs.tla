--------------------------- MODULE Serving_proofs ---------------------------
(***************************************************************************)
(* Proofs about the machines between a client and an encoder: EncoderPool, *)
(* ClientServing, ByteBuffer and RtmpDelivery, for any sets of streams,    *)
(* clients, ports and strings, and any sizes of messages and chunks.       *)
(***************************************************************************)
EXTENDS EncoderPool, ClientServing, ByteBuffer, RtmpDelivery, FiniteSetTheorems, SequenceTheorems, WellFoundedInduction, TLAPS

-----------------------------------------------------------------------------
(***************************************************************************)
(* EncoderPool.  For any number of streams and encoders.                   *)
(***************************************************************************)

USE PoolAssumption

LEMMA PoolInit == Init => PoolInv
<1> SUFFICES ASSUME Init PROVE PoolInv
  OBVIOUS
<1>1. TypeOK
  BY DEF Init, TypeOK, Run, Label
<1>2. CreatorsApart
  BY DEF Init, CreatorsApart
<1>3. PoolHoldsRunning
  BY DEF Init, PoolHoldsRunning
<1> QED
  BY <1>1, <1>2, <1>3 DEF PoolInv

LEMMA TypeStep ==
  ASSUME TypeOK, CreatorsApart, [Next]_vars
  PROVE  TypeOK'
<1> USE DEF TypeOK, CreatorsApart, Run, Label, Goto, Step, encoder
<1>1. ASSUME NEW s \in Stream, Lookup(s) PROVE TypeOK'
  BY <1>1 DEF Lookup
<1>2. ASSUME NEW s \in Stream, PoolEncoder(s) PROVE TypeOK'
  BY <1>2 DEF PoolEncoder
<1>3. ASSUME NEW s \in Stream, Start(s) PROVE TypeOK'
  BY <1>3 DEF Start
<1>4. ASSUME NEW s \in Stream, Register(s) PROVE TypeOK'
  BY <1>4 DEF Register
<1>5. ASSUME NEW s \in Stream, Disconnect(s) PROVE TypeOK'
  BY <1>5 DEF Disconnect
<1>6. ASSUME NEW s \in Stream, NEW e \in Encoder, Create(s, e) PROVE TypeOK'
  BY <1>6 DEF Create
<1>7. ASSUME NEW e \in Encoder, QueueFrame(e) PROVE TypeOK'
  BY <1>7, ZenonT(60) DEF QueueFrame
<1>8. ASSUME NEW e \in Encoder, RefuseFrame(e) PROVE TypeOK'
  BY <1>8 DEF RefuseFrame
<1>9. ASSUME NEW e \in Encoder, TimePasses(e) PROVE TypeOK'
  BY <1>9 DEF TimePasses
<1>10. ASSUME NEW e \in Encoder, Encode(e) PROVE TypeOK'
  BY <1>10 DEF Encode
<1>11. ASSUME NEW e \in Encoder, LeaveLoop(e) PROVE TypeOK'
  BY <1>11 DEF LeaveLoop
<1>12. ASSUME NEW e \in Encoder, Unpool(e) PROVE TypeOK'
  BY <1>12 DEF Unpool
<1>13. ASSUME NEW e \in Encoder, EndProvider(e) PROVE TypeOK'
  BY <1>13 DEF EndProvider
<1>14. ASSUME NEW e \in Encoder, EndConsumer(e) PROVE TypeOK'
  BY <1>14 DEF EndConsumer
<1>15. CASE UNCHANGED vars
  BY <1>15 DEF vars
<1> QED
  BY <1>1, <1>2, <1>3, <1>4, <1>5, <1>6, <1>7, <1>8, <1>9, <1>10, <1>11, <1>12, <1>13, <1>14, <1>15 DEF Next, Connect, EncoderStep

(* An encoder's run only goes forward, and only its creator starts it. *)
LEMMA CreatorsStep ==
  ASSUME TypeOK, CreatorsApart, [Next]_vars
  PROVE  CreatorsApart'
<1> USE DEF TypeOK, CreatorsApart, Goto, Step, encoder
<1>1. ASSUME NEW s \in Stream, Lookup(s) PROVE CreatorsApart'
  BY <1>1 DEF Lookup
<1>2. ASSUME NEW s \in Stream, PoolEncoder(s) PROVE CreatorsApart'
  BY <1>2 DEF PoolEncoder
<1>3. ASSUME NEW s \in Stream, Start(s) PROVE CreatorsApart'
  BY <1>3 DEF Start
<1>4. ASSUME NEW s \in Stream, Register(s) PROVE CreatorsApart'
  BY <1>4 DEF Register
<1>5. ASSUME NEW s \in Stream, Disconnect(s) PROVE CreatorsApart'
  BY <1>5 DEF Disconnect
<1>6. ASSUME NEW s \in Stream, NEW e \in Encoder, Create(s, e) PROVE CreatorsApart'
  BY <1>6 DEF Create
<1>7. ASSUME NEW e \in Encoder, QueueFrame(e) PROVE CreatorsApart'
  BY <1>7 DEF QueueFrame
<1>8. ASSUME NEW e \in Encoder, RefuseFrame(e) PROVE CreatorsApart'
  BY <1>8 DEF RefuseFrame
<1>9. ASSUME NEW e \in Encoder, TimePasses(e) PROVE CreatorsApart'
  BY <1>9 DEF TimePasses
<1>10. ASSUME NEW e \in Encoder, Encode(e) PROVE CreatorsApart'
  BY <1>10 DEF Encode
<1>11. ASSUME NEW e \in Encoder, LeaveLoop(e) PROVE CreatorsApart'
  BY <1>11 DEF LeaveLoop
<1>12. ASSUME NEW e \in Encoder, Unpool(e) PROVE CreatorsApart'
  BY <1>12 DEF Unpool
<1>13. ASSUME NEW e \in Encoder, EndProvider(e) PROVE CreatorsApart'
  BY <1>13 DEF EndProvider
<1>14. ASSUME NEW e \in Encoder, EndConsumer(e) PROVE CreatorsApart'
  BY <1>14 DEF EndConsumer
<1>15. CASE UNCHANGED vars
  BY <1>15 DEF vars
<1> QED
  BY <1>1, <1>2, <1>3, <1>4, <1>5, <1>6, <1>7, <1>8, <1>9, <1>10, <1>11, <1>12, <1>13, <1>14, <1>15 DEF Next, Connect, EncoderStep

LEMMA HoldsStep ==
  ASSUME TypeOK, CreatorsApart, PoolHoldsRunning, [Next]_vars
  PROVE  PoolHoldsRunning'
<1> USE DEF TypeOK, CreatorsApart, PoolHoldsRunning, Goto, Step, encoder
<1>1. ASSUME NEW s \in Stream, Lookup(s) PROVE PoolHoldsRunning'
  BY <1>1 DEF Lookup
<1>2. ASSUME NEW s \in Stream, PoolEncoder(s) PROVE PoolHoldsRunning'
  BY <1>2 DEF PoolEncoder
<1>3. ASSUME NEW s \in Stream, Start(s) PROVE PoolHoldsRunning'
  BY <1>3 DEF Start
<1>4. ASSUME NEW s \in Stream, Register(s) PROVE PoolHoldsRunning'
  BY <1>4 DEF Register
<1>5. ASSUME NEW s \in Stream, Disconnect(s) PROVE PoolHoldsRunning'
  BY <1>5 DEF Disconnect
<1>6. ASSUME NEW s \in Stream, NEW e \in Encoder, Create(s, e) PROVE PoolHoldsRunning'
  BY <1>6 DEF Create
<1>7. ASSUME NEW e \in Encoder, QueueFrame(e) PROVE PoolHoldsRunning'
  BY <1>7 DEF QueueFrame
<1>8. ASSUME NEW e \in Encoder, RefuseFrame(e) PROVE PoolHoldsRunning'
  BY <1>8 DEF RefuseFrame
<1>9. ASSUME NEW e \in Encoder, TimePasses(e) PROVE PoolHoldsRunning'
  BY <1>9 DEF TimePasses
<1>10. ASSUME NEW e \in Encoder, Encode(e) PROVE PoolHoldsRunning'
  BY <1>10 DEF Encode
<1>11. ASSUME NEW e \in Encoder, LeaveLoop(e) PROVE PoolHoldsRunning'
  BY <1>11 DEF LeaveLoop
<1>12. ASSUME NEW e \in Encoder, Unpool(e) PROVE PoolHoldsRunning'
  BY <1>12 DEF Unpool
<1>13. ASSUME NEW e \in Encoder, EndProvider(e) PROVE PoolHoldsRunning'
  BY <1>13 DEF EndProvider
<1>14. ASSUME NEW e \in Encoder, EndConsumer(e) PROVE PoolHoldsRunning'
  BY <1>14 DEF EndConsumer
<1>15. CASE UNCHANGED vars
  BY <1>15 DEF vars
<1> QED
  BY <1>1, <1>2, <1>3, <1>4, <1>5, <1>6, <1>7, <1>8, <1>9, <1>10, <1>11, <1>12, <1>13, <1>14, <1>15 DEF Next, Connect, EncoderStep

LEMMA PoolStep == PoolInv /\ [Next]_vars => PoolInv'
BY TypeStep, CreatorsStep, HoldsStep DEF PoolInv

(* The inductive invariant: an encoder that is being made belongs to one stream. *)
THEOREM PoolInvariant == Spec => []PoolInv
BY PoolInit, PoolStep, PTL DEF Spec

(* Whatever the streams and encoders do, the pool never holds an encoder that
   has unpooled itself. *)
THEOREM PoolAlwaysHoldsRunning == Spec => []PoolHoldsRunning
BY PoolInvariant, PTL DEF PoolInv

HIDE PoolAssumption


-----------------------------------------------------------------------------
(***************************************************************************)
(* ClientServing.  What is taken for a client is given back with it.       *)
(***************************************************************************)

(***************************************************************************)
(* The elements of a finite set in a sequence                              *)
(***************************************************************************)
LEMMA SequenceOfSet ==
  ASSUME NEW S, IsFiniteSet(S)
  PROVE  /\ SetToSeq(S) \in Seq(S)
         /\ \A i, j \in DOMAIN SetToSeq(S) : SetToSeq(S)[i] = SetToSeq(S)[j] => i = j
         /\ \A x \in S : \E i \in DOMAIN SetToSeq(S) : SetToSeq(S)[i] = x
<1> DEFINE n == Cardinality(S)
           f == SetToSeq(S)
<1>1. n \in Nat /\ \E g : g \in Bijection(1 .. n, S)
  BY FS_CardinalityType DEF ExistsBijection
<1>2. PICK g : g \in Bijection(1 .. n, S)
  BY <1>1
<1>3. g \in [1 .. n -> S] /\ \A a, b \in 1 .. n : g[a] = g[b] => a = b
  BY <1>2 DEF Bijection, Injection, IsInjective
<1>4. \E h \in [1 .. n -> S] : IsInjective(h)
  BY <1>3 DEF IsInjective
<1>5. f \in [1 .. n -> S] /\ IsInjective(f)
  BY <1>4 DEF SetToSeq
<1>6. IsFiniteSet(1 .. n) /\ Cardinality(1 .. n) = n
  BY <1>1, FS_Interval
<1>7. f \in Injection(1 .. n, S)
  BY <1>5 DEF Injection, IsInjective
<1>8. f \in Surjection(1 .. n, S)
  BY <1>6, <1>7, FS_Injection
<1>9. DOMAIN f = 1 .. n /\ f \in Seq(S)
  BY <1>1, <1>5
<1>10. \A i, j \in 1 .. n : f[i] = f[j] => i = j
  BY <1>5 DEF IsInjective
<1>11. \A x \in S : \E i \in 1 .. n : f[i] = x
  BY <1>8 DEF Surjection
<1> HIDE DEF f
<1> QED
  BY <1>9, <1>10, <1>11 DEF f

LEMMA StreamsFinite == IsFiniteSet(Threads) /\ \A S : S \subseteq Threads => IsFiniteSet(S)
<1>1. IsFiniteSet(1 .. MaxStreams)
  BY ServingAssumption, FS_Interval
<1> QED
  BY <1>1, FS_Subset DEF Threads

(* As many ports as streams that have one. *)
LEMMA PortsCounted ==
  ASSUME NEW L \in SUBSET Threads, NEW at, \A t, u \in L : at[t] = at[u] => t = u
  PROVE  Cardinality({ at[t] : t \in L }) = Cardinality(L)
<1> DEFINE f == [t \in L |-> at[t]]
           P == { at[t] : t \in L }
<1>1. f \in [L -> P]
  OBVIOUS
<1>2. \A t, u \in L : f[t] = f[u] => t = u
  OBVIOUS
<1>3. \A p \in P : \E t \in L : f[t] = p
  OBVIOUS
<1>4. f \in Bijection(L, P)
  BY <1>1, <1>2, <1>3 DEF Bijection, Injection, Surjection, IsInjective
<1>5. IsFiniteSet(L)
  BY StreamsFinite
<1> QED
  BY <1>4, <1>5, FS_Bijection DEF ExistsBijection

(* A stream that has not been made. *)
LEMMA NewOneIsNew == Unmade # {} => NewOne \in Threads /\ life[NewOne] = "none"
BY DEF Unmade, NewOne

(***************************************************************************)
(* Steps of one kind                                                       *)
(***************************************************************************)
(* No connection goes unless the listener is at it. *)
LEMMA NothingCloses ==
  ASSUME ServingTyped, OneCloses, listener \notin {"closing", "crashed"}
  PROVE  /\ \A d \in Client : conn[d] # "closing"
         /\ \A t \in Threads : Owner(t) \in Client /\ conn[Owner(t)] # "closing"
BY DEF ServingTyped, OneCloses, Owner, Session

(* Threads go on, but none comes alive or to its end, and the listener is not at a deletion. *)
LEMMA ThreadsGoOn ==
  ASSUME OwnersInv, UNCHANGED << kind, conn, session, port, lost, mAssignedPorts, toJoin >>,
         listener' = listener \/ (listener = "select" /\ listener' \in {"hung", "stopped"}),
         UNCHANGED << abandoned, cause >>, life' \in [Threads -> Life],
         \A t \in Threads : life'[t] \in {"none", "deleted"} <=> life[t] \in {"none", "deleted"}
  PROVE  OwnersInv'
<1> USE DEF OwnersInv
<1>1. \A t \in Threads : Owner(t)' = Owner(t)
  BY DEF Owner
<1>2. ServingTyped'
  BY DEF ServingTyped
<1>3. OneSession'
  BY <1>1 DEF OneSession, Owner, Alive
<1>4. \A i \in DOMAIN toJoin : toJoin[i] \in Threads
  BY DEF ServingTyped
<1>5. ToJoinIsAlive' /\ OneCloses'
  <2>1. OneCloses'
    BY DEF OneCloses
  <2>2. ToJoinIsAlive'
    BY <1>1, <1>4, NothingCloses DEF ToJoinIsAlive, Owner, Alive
  <2> QED
    BY <2>1, <2>2
<1>6. LivePorts' = LivePorts
  BY DEF LivePorts, Alive
<1>7. OnePortEach'
  BY <1>6 DEF OnePortEach
<1>8. StreamsHaveConnections'
  BY <1>1 DEF StreamsHaveConnections, Orphan, Alive, Owner
<1>9. PortsAreOfStreams'
  BY <1>6 DEF PortsAreOfStreams
<1> QED
  BY <1>2, <1>3, <1>5, <1>7, <1>8, <1>9

LEMMA NothingMoves ==
  ASSUME OwnersInv, UNCHANGED << kind, conn, life, session, port, lost, mAssignedPorts, toJoin, abandoned, cause >>,
         listener' = listener \/ (listener = "select" /\ listener' \in {"hung", "stopped"})
  PROVE  OwnersInv'
<1>1. life' \in [Threads -> Life]
  BY DEF OwnersInv, ServingTyped
<1> QED
  BY <1>1, ThreadsGoOn

(* The process ends, in whichever thread. *)
LEMMA CrashStep ==
  ASSUME OwnersInv, UNCHANGED << kind, conn, life, session, port, lost, mAssignedPorts, toJoin >>,
         listener' = "crashed",
         abandoned' = abandoned, cause' = "ports" => mAssignedPorts = DataPort
  PROVE  OwnersInv'
<1> USE DEF OwnersInv
<1>1. ServingTyped' /\ OneSession'
  BY DEF ServingTyped, OneSession, Alive, Owner
<1>2. ToJoinIsAlive' /\ OneCloses'
  BY DEF ToJoinIsAlive, OneCloses, Owner, Alive
<1>3. LivePorts' = LivePorts
  BY DEF LivePorts, Alive
<1>4. OnePortEach' /\ StreamsHaveConnections' /\ PortsAreOfStreams'
  BY <1>3 DEF OnePortEach, StreamsHaveConnections, Orphan, Alive, Owner, PortsAreOfStreams
<1> QED
  BY <1>1, <1>2, <1>4

LEMMA AcceptStep ==
  ASSUME OwnersInv, NEW c \in Client, Accept(c)
  PROVE  OwnersInv'
<1> USE DEF OwnersInv
<1>1. /\ UNCHANGED << kind, life, session, port, lost, mAssignedPorts, listener, toJoin, abandoned, cause >>
      /\ listener = "select" /\ conn[c] = "none" /\ conn' = [conn EXCEPT ![c] = "open"]
  BY DEF Accept, threads, history
<1>2. ServingTyped' /\ OneSession'
  BY <1>1 DEF ServingTyped, OneSession, Alive, Owner
<1>3. ToJoinIsAlive' /\ OneCloses'
  <2>1. \A d \in Client : conn'[d] # "closing"
    BY <1>1, NothingCloses DEF ServingTyped
  <2> QED
    BY <2>1, <1>1, NothingCloses DEF ToJoinIsAlive, OneCloses, Owner
<1>4. LivePorts' = LivePorts
  BY <1>1 DEF LivePorts, Alive
<1>5. OnePortEach' /\ StreamsHaveConnections' /\ PortsAreOfStreams'
  BY <1>1, <1>4 DEF OnePortEach, StreamsHaveConnections, Orphan, Alive, Owner, PortsAreOfStreams, ServingTyped
<1> QED
  BY <1>2, <1>3, <1>5

(* A connection goes: the listener will delete all the streams of its session. *)
LEMMA CloseStep ==
  ASSUME OwnersInv, NEW c \in Client, listener = "select", Close(c),
         UNCHANGED << kind, life, session, port, lost, mAssignedPorts, abandoned, cause >>
  PROVE  OwnersInv'
<1> USE DEF OwnersInv
<1>1. /\ listener' = "closing" /\ conn' = [conn EXCEPT ![c] = "closing"]
      /\ toJoin' = IF kind[c] = "RTSP" THEN << >> ELSE SetToSeq(Made(<< c, 1 >>))
  BY DEF Close
<1>2. /\ Made(<< c, 1 >>) \subseteq Threads /\ IsFiniteSet(Made(<< c, 1 >>))
      /\ \A t \in Made(<< c, 1 >>) : Alive(t) /\ Owner(t) = c
  BY StreamsFinite DEF Made, Alive, Owner
<1>3. /\ toJoin' \in Seq(Threads)
      /\ \A i \in DOMAIN toJoin' : kind[c] # "RTSP" /\ toJoin'[i] \in Made(<< c, 1 >>)
      /\ \A i, j \in DOMAIN toJoin' : toJoin'[i] = toJoin'[j] => i = j
      /\ kind[c] # "RTSP" => \A t \in Made(<< c, 1 >>) : \E i \in DOMAIN toJoin' : toJoin'[i] = t
  <2>1. CASE kind[c] = "RTSP"
    <3>1. toJoin' = << >> /\ DOMAIN toJoin' = {}
      BY <2>1, <1>1
    <3> QED
      BY <3>1, <2>1
  <2>2. CASE kind[c] # "RTSP"
    <3> DEFINE q == SetToSeq(Made(<< c, 1 >>))
    <3>1. toJoin' = q
      BY <2>2, <1>1
    <3>2. /\ q \in Seq(Made(<< c, 1 >>))
          /\ \A i, j \in DOMAIN q : q[i] = q[j] => i = j
          /\ \A t \in Made(<< c, 1 >>) : \E i \in DOMAIN q : q[i] = t
      BY <1>2, SequenceOfSet
    <3> HIDE DEF q
    <3>3. q \in Seq(Threads) /\ \A i \in DOMAIN q : q[i] \in Made(<< c, 1 >>)
      BY <3>2, <1>2
    <3> QED
      BY <3>1, <3>2, <3>3, <2>2
  <2> QED
    BY <2>1, <2>2
<1>4. ServingTyped' /\ OneSession'
  BY <1>1, <1>3 DEF ServingTyped, OneSession, Alive, Owner
<1>5. ToJoinIsAlive' /\ OneCloses'
  <2>1. /\ \A e \in Client : conn'[e] = "closing" => e = c
        /\ \A t \in Threads : Owner(t) \in Client
    BY <1>1 DEF ServingTyped, OneCloses, Owner, Session
  <2>2. \A t \in Threads :
            (Alive(t) /\ t \notin lost /\ kind[c] # "RTSP" /\ Owner(t) = c) => t \in Made(<< c, 1 >>)
    BY DEF OneSession, Made, Alive
  <2>3. \A t \in Threads : conn'[Owner(t)] = "closing" =>
            (Alive(t) /\ t \notin lost /\ kind[Owner(t)] # "RTSP" => \E i \in DOMAIN toJoin' : toJoin'[i] = t)
    BY <2>1, <2>2, <1>3
  <2>4. \A i \in DOMAIN toJoin' : life[toJoin'[i]] \notin {"none", "deleted"} /\ kind[session[toJoin'[i]][1]] # "RTSP"
    BY <1>2, <1>3 DEF Alive, Owner
  <2>5. OneCloses'
    BY <2>1, <1>1 DEF OneCloses
  <2>6. ToJoinIsAlive'
    BY <2>3, <2>4, <1>1, <1>3, ZenonT(60) DEF ToJoinIsAlive, Owner, Alive
  <2> QED
    BY <2>5, <2>6
<1>6. LivePorts' = LivePorts
  BY DEF LivePorts, Alive
<1>7. OnePortEach' /\ StreamsHaveConnections' /\ PortsAreOfStreams'
  <2>1. \A d \in Client : conn'[d] = "deleted" => conn[d] = "deleted"
    BY <1>1 DEF ServingTyped
  <2>2. \A t \in Threads : Owner(t) \in Client /\ Owner(t)' = Owner(t)
    BY DEF ServingTyped, Owner, Session
  <2> QED
    BY <2>1, <2>2, <1>1, <1>6 DEF OnePortEach, StreamsHaveConnections, Orphan, Alive, Owner, PortsAreOfStreams
<1> QED
  BY <1>4, <1>5, <1>7

LEMMA DeleteNextStep ==
  ASSUME OwnersInv, DeleteNext
  PROVE  OwnersInv'
<1> DEFINE d == Head(toJoin)
<1> USE DEF OwnersInv
<1>1. /\ UNCHANGED << kind, conn, session, port, lost, mAssignedPorts, listener, abandoned, cause >>
      /\ listener = "closing" /\ toJoin # << >> /\ toJoin' = Tail(toJoin)
      /\ life' = [life EXCEPT ![d] = "deleted"]
  BY DEF DeleteNext, clientVars, history
<1>2. /\ toJoin \in Seq(Threads) /\ 1 \in DOMAIN toJoin /\ d = toJoin[1] /\ d \in Threads
      /\ toJoin' \in Seq(Threads)
      /\ \A i \in DOMAIN toJoin' : i + 1 \in DOMAIN toJoin /\ toJoin'[i] = toJoin[i + 1] /\ i + 1 # 1
      /\ \A i \in DOMAIN toJoin : i # 1 => i - 1 \in DOMAIN toJoin' /\ toJoin'[i - 1] = toJoin[i]
  BY <1>1 DEF ServingTyped
<1>3. \A i \in DOMAIN toJoin' : toJoin'[i] # d /\ toJoin'[i] \in Threads
  BY <1>1, <1>2 DEF ToJoinIsAlive
<1>4. port[d] = 0 /\ kind[Owner(d)] # "RTSP"
  BY <1>1, <1>2 DEF ToJoinIsAlive, OneSession
<1> HIDE DEF d
<1>5. ServingTyped'
  BY <1>1, <1>2 DEF ServingTyped, Life
<1>6. \A t \in Threads : Owner(t)' = Owner(t) /\ (Alive(t)' <=> (Alive(t) /\ t # d))
  BY <1>1, <1>2 DEF Owner, Alive, ServingTyped
<1>7. OneSession'
  BY <1>1, <1>6 DEF OneSession
<1>8. ToJoinIsAlive'
  <2>1. \A i \in DOMAIN toJoin' : life'[toJoin'[i]] \notin {"none", "deleted"} /\ kind[session[toJoin'[i]][1]] # "RTSP"
    BY <1>1, <1>2, <1>3, <1>6 DEF ToJoinIsAlive, Owner, Alive
  <2>2. \A i, j \in DOMAIN toJoin' : toJoin'[i] = toJoin'[j] => i = j
    <3>1. DOMAIN toJoin' \subseteq Nat
      BY <1>2
    <3> QED
      BY <1>1, <1>2, <3>1 DEF ToJoinIsAlive
  <2>3. ASSUME NEW t \in Threads, conn[Owner(t)] = "closing", Alive(t)', t \notin lost, kind[Owner(t)] # "RTSP"
        PROVE  \E i \in DOMAIN toJoin' : toJoin'[i] = t
    <3>1. PICK i \in DOMAIN toJoin : toJoin[i] = t
      BY <2>3, <1>1, <1>6 DEF ToJoinIsAlive
    <3>2. i # 1
      BY <3>1, <2>3, <1>2, <1>6
    <3> QED
      BY <3>1, <3>2, <1>2
  <2> QED
    BY <2>1, <2>2, <2>3, <1>1 DEF ToJoinIsAlive, Owner, Alive
<1>9. LivePorts' = LivePorts
  BY <1>1, <1>4, <1>6 DEF LivePorts, Alive
<1>10. OneCloses' /\ OnePortEach' /\ PortsAreOfStreams'
  BY <1>1, <1>9 DEF OneCloses, OnePortEach, PortsAreOfStreams
<1>11. StreamsHaveConnections'
  BY <1>1, <1>2, <1>6 DEF StreamsHaveConnections, Orphan, Alive, Owner, ServingTyped
<1> QED
  BY <1>5, <1>7, <1>8, <1>10, <1>11

(* All that the connection owned has been deleted. *)
LEMMA ClosedStep ==
  ASSUME OwnersInv, NEW c \in Client, Closed(c)
  PROVE  OwnersInv'
<1> USE DEF OwnersInv
<1>1. /\ UNCHANGED << kind, life, session, port, lost, mAssignedPorts, toJoin, cause >>
      /\ abandoned' = abandoned \cup { t \in Threads : Alive(t) /\ Owner(t) = c /\ kind[c] = "RTSP" }
      /\ listener = "closing" /\ toJoin = << >> /\ conn[c] = "closing"
      /\ conn' = [conn EXCEPT ![c] = "deleted"] /\ listener' = "select"
  BY DEF Closed, threads, history
<1>2. DOMAIN toJoin = {}
  BY <1>1
<1>3. \A t \in Threads : Owner(t)' = Owner(t) /\ (Alive(t)' <=> Alive(t)) /\ Owner(t) \in Client
  BY <1>1 DEF Owner, Alive, ServingTyped, Session
<1>4. ServingTyped' /\ OneSession'
  BY <1>1, <1>3 DEF ServingTyped, OneSession
<1>5. ASSUME NEW t \in Threads, conn[Owner(t)] = "closing" PROVE Alive(t) /\ kind[Owner(t)] # "RTSP" => t \in lost
  BY <1>5, <1>1, <1>2 DEF ToJoinIsAlive
<1>6. ToJoinIsAlive' /\ OneCloses'
  <2>1. \A e \in Client : conn'[e] # "closing"
    BY <1>1 DEF OneCloses, ServingTyped
  <2> QED
    BY <2>1, <1>1, <1>3 DEF ToJoinIsAlive, OneCloses, Owner
<1>7. StreamsHaveConnections'
  <2>1. \A e \in Client : conn'[e] = "deleted" => conn[e] = "deleted" \/ (e = c /\ conn[e] = "closing")
    BY <1>1 DEF ServingTyped
  <2> QED
    BY <2>1, <1>1, <1>3, <1>5 DEF StreamsHaveConnections, Orphan, Alive, Owner
<1>8. LivePorts' = LivePorts
  BY <1>1 DEF LivePorts, Alive
<1>9. OnePortEach' /\ PortsAreOfStreams'
  BY <1>1, <1>8 DEF OnePortEach, PortsAreOfStreams
<1> QED
  BY <1>4, <1>6, <1>7, <1>9

(* A stream is made, with a port of its own or none. *)
LEMMA NewStreamStep ==
  ASSUME OwnersInv, NEW s \in Session, NEW n, NEW p \in DataPort \cup {0}, NEW there \in {"made", "waiting"},
         listener = "select", Unmade # {}, NewStream(NewOne, s, n, p, there),
         UNCHANGED << kind, conn, listener, toJoin >>, UNCHANGED << abandoned, cause >>,
         lost \subseteq lost', lost' \subseteq lost \cup {NewOne}, conn[s[1]] # "deleted",
         kind[s[1]] # "RTSP" => s[2] = 1 /\ p = 0,
         p # 0 => p \notin mAssignedPorts,
         mAssignedPorts' = IF p = 0 THEN mAssignedPorts ELSE mAssignedPorts \cup {p}
  PROVE  OwnersInv'
<1> USE DEF OwnersInv
<1>1. PICK new \in Threads : new = NewOne /\ life[new] = "none"
  BY NewOneIsNew
<1>2. /\ life' = [life EXCEPT ![new] = there] /\ session' = [session EXCEPT ![new] = s]
      /\ port' = [port EXCEPT ![new] = p]
  BY <1>1 DEF NewStream
<1>3. ServingTyped'
  BY <1>2 DEF ServingTyped, Life
<1>4. \A t \in Threads : /\ t # new => Owner(t)' = Owner(t) /\ life'[t] = life[t] /\ port'[t] = port[t]
                         /\ Owner(new)' = s[1] /\ life'[new] = there /\ port'[new] = p
  BY <1>1, <1>2 DEF Owner, ServingTyped
<1>5. s \in Client \X (1 .. MaxSessions) /\ s[1] \in Client /\ conn[s[1]] # "closing"
  BY DEF Session, OneCloses
<1>6. OneSession'
  <2>1. session'[new] = s /\ \A t \in Threads : t # new => session'[t] = session[t]
    BY <1>2 DEF ServingTyped
  <2>2. s = << s[1], s[2] >>
    BY <1>5
  <2> QED
    BY <2>1, <2>2, <1>4 DEF OneSession, Alive
<1>7. ToJoinIsAlive' /\ OneCloses'
  <2>1. \A t \in Threads : conn[Owner(t)'] # "closing"
    BY <1>4, <1>5, NothingCloses
  <2> QED
    BY <2>1, NothingCloses DEF ToJoinIsAlive, OneCloses
<1>8. StreamsHaveConnections'
  BY <1>4, <1>5 DEF StreamsHaveConnections, Orphan, Alive
<1>9. LivePorts' = IF p = 0 THEN LivePorts ELSE LivePorts \cup {new}
  BY <1>1, <1>4 DEF LivePorts, Alive
<1>10. new \notin LivePorts /\ \A t \in LivePorts : t \in Threads /\ port[t] \in mAssignedPorts
  BY <1>1 DEF LivePorts, PortsAreOfStreams, Alive
<1>11. OnePortEach'
  BY <1>4, <1>9, <1>10 DEF OnePortEach
<1>12. mAssignedPorts' = { port'[t] : t \in LivePorts' }
  <2>1. CASE p = 0
    BY <2>1, <1>4, <1>9, <1>10 DEF PortsAreOfStreams
  <2>2. CASE p # 0
    BY <2>2, <1>4, <1>9, <1>10 DEF PortsAreOfStreams
  <2> QED
    BY <2>1, <2>2
<1>13. Cardinality(mAssignedPorts)' = Cardinality(LivePorts)'
  <2>1. /\ \A t, u \in LivePorts' : port'[t] = port'[u] => t = u
        /\ LivePorts' \subseteq Threads
    BY <1>11 DEF OnePortEach, LivePorts, Alive
  <2> QED
    BY <2>1, <1>12, PortsCounted
<1>14. PortsAreOfStreams'
  BY <1>12, <1>13 DEF PortsAreOfStreams
<1> QED
  BY <1>3, <1>6, <1>7, <1>8, <1>11, <1>14

(* A TEARDOWN: the session's streams are stopped and will be deleted. *)
LEMMA TeardownStep ==
  ASSUME OwnersInv, NEW c \in Client, NEW s \in Session, Teardown(c, s)
  PROVE  OwnersInv'
<1> USE DEF OwnersInv
<1>1. /\ UNCHANGED << kind, conn, life, session, port, lost, mAssignedPorts >>
      /\ listener = "select" /\ conn[c] = "open"
      /\ toJoin' = SetToSeq(Made(s)) /\ listener' = "teardown"
      /\ UNCHANGED << abandoned, cause >> /\ kind[s[1]] = "RTSP"
  BY DEF Teardown, Serves, Known, clientVars, history
<1>2. /\ Made(s) \subseteq Threads /\ IsFiniteSet(Made(s))
      /\ \A t \in Made(s) : Alive(t) /\ Owner(t) = s[1]
  BY StreamsFinite DEF Made, Alive, Owner
<1>3. /\ toJoin' \in Seq(Made(s))
      /\ \A i, j \in DOMAIN toJoin' : toJoin'[i] = toJoin'[j] => i = j
  BY <1>1, <1>2, SequenceOfSet
<1>4. \A i \in DOMAIN toJoin' : toJoin'[i] \in Made(s)
  BY <1>3
<1>5. ServingTyped' /\ OneSession'
  BY <1>1, <1>2, <1>3 DEF ServingTyped, OneSession, Alive, Owner
<1>6. ToJoinIsAlive' /\ OneCloses'
  <2>1. \A t \in Threads : conn[Owner(t)] # "closing"
    BY <1>1 DEF OneCloses, ServingTyped, Owner, Session
  <2>2. \A i \in DOMAIN toJoin' : life[toJoin'[i]] \notin {"none", "deleted"}
    BY <1>2, <1>4 DEF Alive
  <2>3. \A i \in DOMAIN toJoin' : kind[session[toJoin'[i]][1]] = "RTSP"
    BY <1>1, <1>2, <1>4 DEF Owner
  <2> QED
    BY <2>1, <2>2, <2>3, <1>1, <1>3, NothingCloses DEF ToJoinIsAlive, OneCloses, Owner, Alive
<1>7. LivePorts' = LivePorts
  BY <1>1 DEF LivePorts, Alive
<1>8. OnePortEach' /\ StreamsHaveConnections' /\ PortsAreOfStreams'
  BY <1>1, <1>7 DEF OnePortEach, StreamsHaveConnections, Orphan, Alive, Owner, PortsAreOfStreams
<1> QED
  BY <1>5, <1>6, <1>8

(* The streams of a session are deleted and their ports given back. *)
LEMMA TornDownStep ==
  ASSUME OwnersInv, CrashesAreKnown, TornDown
  PROVE  OwnersInv'
<1> USE DEF OwnersInv
<1> DEFINE Gone == ToSet(toJoin)
<1>1. /\ UNCHANGED << kind, conn, session, port, lost, abandoned, cause >>
      /\ listener = "teardown" /\ listener' = "select" /\ toJoin' = << >>
      /\ life' = [t \in Threads |-> IF t \in Gone THEN "deleted" ELSE life[t]]
      /\ mAssignedPorts' = mAssignedPorts \ { port[toJoin[i]] : i \in DOMAIN toJoin }
  BY DEF TornDown, clientVars, history
<1>2. /\ Gone \subseteq Threads /\ \A t \in Gone : Alive(t)
      /\ { port[toJoin[i]] : i \in DOMAIN toJoin } = { port[t] : t \in Gone }
  BY <1>1 DEF ServingTyped, ToJoinIsAlive, ToSet
<1> HIDE DEF Gone
<1>3. \A t \in Threads : /\ Owner(t)' = Owner(t) /\ life'[t] = IF t \in Gone THEN "deleted" ELSE life[t]
                         /\ Alive(t)' <=> (Alive(t) /\ t \notin Gone)
  BY <1>1 DEF Owner, Alive
<1>4. ServingTyped'
  <2>1. toJoin' \in Seq(Threads)
    BY <1>1
  <2>2. life' \in [Threads -> Life]
    BY <1>1 DEF ServingTyped, Life
  <2> QED
    BY <2>1, <2>2, <1>1 DEF ServingTyped
<1>5. OneSession'
  BY <1>1, <1>3 DEF OneSession
<1>6. ToJoinIsAlive' /\ OneCloses'
  <2>1. \A d \in Client : conn[d] # "closing"
    BY <1>1 DEF OneCloses
  <2>2. \A t \in Threads : Owner(t) \in Client
    BY DEF ServingTyped, Owner, Session
  <2> QED
    BY <2>1, <2>2, <1>1, <1>3 DEF ToJoinIsAlive, OneCloses
<1>7. StreamsHaveConnections'
  BY <1>1, <1>3 DEF StreamsHaveConnections, Orphan, Alive
<1>8. LivePorts' = LivePorts \ Gone
  BY <1>1, <1>3 DEF LivePorts, Alive
<1>9. OnePortEach'
  BY <1>1, <1>8 DEF OnePortEach
<1>10. mAssignedPorts' = { port'[t] : t \in LivePorts' }
  <2>1. \A t \in LivePorts : t \in Threads /\ port[t] # 0
    BY DEF LivePorts, Alive
  <2>2. \A t \in Gone : port[t] # 0 => t \in LivePorts
    BY <1>2 DEF LivePorts, Alive
  <2>3. \A t \in LivePorts, u \in Gone : port[t] = port[u] => t = u
    BY <2>1, <2>2 DEF OnePortEach
  <2>4. mAssignedPorts' = { port[t] : t \in LivePorts } \ { port[t] : t \in Gone }
    BY <1>1, <1>2 DEF PortsAreOfStreams
  <2>5. { port[t] : t \in LivePorts } \ { port[t] : t \in Gone } = { port[t] : t \in LivePorts \ Gone }
    BY <2>3
  <2> QED
    BY <2>4, <2>5, <1>1, <1>8
<1>11. PortsAreOfStreams'
  <2>1. /\ \A t, u \in LivePorts' : port'[t] = port'[u] => t = u
        /\ LivePorts' \subseteq Threads
    BY <1>9 DEF OnePortEach, LivePorts, Alive
  <2>2. Cardinality(mAssignedPorts)' = Cardinality(LivePorts)'
    BY <2>1, <1>10, PortsCounted
  <2> QED
    BY <2>2, <1>1, <1>10 DEF PortsAreOfStreams, CrashesAreKnown
<1> QED
  BY <1>4, <1>5, <1>6, <1>7, <1>9, <1>11

(***************************************************************************)
(* Requests                                                                *)
(***************************************************************************)
LEMMA HttpStep ==
  ASSUME OwnersInv, NEW c \in Client, GetUnknown(c) \/ GetRefused(c) \/ Get(c)
  PROVE  OwnersInv'
<1>1. CASE GetUnknown(c)
  <2>1. UNCHANGED << kind, conn, life, session, port, lost, mAssignedPorts, listener, toJoin, abandoned, cause >>
    BY <1>1 DEF GetUnknown, servingVars, clientVars, threads, history
  <2> QED
    BY <2>1, NothingMoves
<1>2. CASE GetRefused(c)
  BY <1>2, CloseStep DEF GetRefused, Serves, threads, history
<1>3. CASE Get(c)
  <2>1. /\ listener = "select" /\ conn[c] = "open" /\ Unmade # {} /\ NewStream(NewOne, << c, 1 >>, 0, 0, "waiting")
        /\ UNCHANGED << kind, conn, listener, toJoin, abandoned, cause, mAssignedPorts >>
        /\ lost' = lost \/ lost' = lost \cup {NewOne}
    BY <1>3 DEF Get, Serves, history
  <2>2. << c, 1 >> \in Session
    BY ServingAssumption DEF Session
  <2> QED
    BY <2>1, <2>2, NewStreamStep
<1> QED
  BY <1>1, <1>2, <1>3

LEMMA RtmpStep ==
  ASSUME OwnersInv, NEW c \in Client,
         connect(c) \/ createStream(c) \/ (\E n \in {1, 2} : play(c, n)) \/ playStuck(c) \/ closeStream(c)
  PROVE  OwnersInv'
<1>1. CASE \E n \in {1, 2} : play(c, n)
  <2>1. PICK n \in {1, 2} : play(c, n)
    BY <1>1
  <2>2. /\ listener = "select" /\ conn[c] = "open" /\ Unmade # {} /\ NewStream(NewOne, << c, 1 >>, n, 0, "waiting")
        /\ UNCHANGED << kind, conn, listener, toJoin, abandoned, cause, mAssignedPorts >>
        /\ lost' = lost \/ lost' = lost \cup {NewOne}
    BY <2>1 DEF play, Command, Serves, history
  <2>3. << c, 1 >> \in Session
    BY ServingAssumption DEF Session
  <2> QED
    BY <2>2, <2>3, NewStreamStep
<1>2. CASE connect(c) \/ createStream(c) \/ playStuck(c) \/ closeStream(c)
  <2>1. /\ UNCHANGED << kind, conn, life, session, port, lost, mAssignedPorts, toJoin, abandoned, cause >>
        /\ listener' = listener \/ (listener = "select" /\ listener' = "hung")
    BY <1>2 DEF connect, createStream, playStuck, closeStream, Command, Serves, threads, clientVars, history
  <2> QED
    BY <2>1, NothingMoves
<1> QED
  BY <1>1, <1>2

LEMMA SetupStep ==
  ASSUME OwnersInv, NEW c \in Client, NEW s \in Session, NEW n \in Nat,
         \/ SetupMisused(c, s) \/ SetupUnparsed(c, s, n) \/ SetupThrows(c, s, n) \/ SetupNoPort(c, s, n)
         \/ \E i \in BOOLEAN : Setup(c, s, n, i)
  PROVE  OwnersInv'
<1>1. CASE SetupMisused(c, s) \/ SetupUnparsed(c, s, n) \/ SetupThrows(c, s, n)
  <2>1. /\ UNCHANGED << kind, conn, life, session, port, lost, mAssignedPorts, toJoin, abandoned >>
        /\ listener = "select" /\ listener' = "crashed" /\ cause' # "ports"
    BY <1>1 DEF SetupMisused, SetupUnparsed, SetupThrows, TakesSetup, Crash, Serves, threads
  <2> QED
    BY <2>1, CrashStep
<1>2. CASE SetupNoPort(c, s, n)
  <2>1. /\ UNCHANGED << kind, conn, life, session, port, lost, mAssignedPorts, toJoin >>
        /\ abandoned' = abandoned
        /\ listener = "select" /\ listener' = "crashed" /\ DataPort \subseteq mAssignedPorts
    BY <1>2 DEF SetupNoPort, Crash, TakesSetup, Serves, threads, FreePorts
  <2>2. mAssignedPorts \subseteq DataPort
    BY DEF OwnersInv, PortsAreOfStreams, LivePorts, ServingTyped, Alive
  <2> QED
    BY <2>1, <2>2, CrashStep
<1>3. CASE \E i \in BOOLEAN : Setup(c, s, n, i)
  <2>1. PICK i \in BOOLEAN : Setup(c, s, n, i)
    BY <1>3
  <2>2. /\ listener = "select" /\ Unmade # {} /\ conn[s[1]] # "deleted" /\ kind[s[1]] = "RTSP"
        /\ UNCHANGED << kind, conn, listener, toJoin, lost >> /\ UNCHANGED << abandoned, cause >>
    BY <2>1 DEF Setup, TakesSetup, Serves, SetupSession, Known, history
  <2>3. PICK p \in IF i THEN {0} ELSE FirstFree :
            /\ NewStream(NewOne, s, n, p, "made")
            /\ mAssignedPorts' = IF i THEN mAssignedPorts ELSE mAssignedPorts \cup {p}
    BY <2>1 DEF Setup, history
  <2>4. /\ p \in DataPort \cup {0}
        /\ p # 0 => p \notin mAssignedPorts
        /\ mAssignedPorts' = IF p = 0 THEN mAssignedPorts ELSE mAssignedPorts \cup {p}
    BY <2>3, ServingAssumption DEF FirstFree, FreePorts
  <2> QED
    BY <2>2, <2>3, <2>4, NewStreamStep
<1> QED
  BY <1>1, <1>2, <1>3

LEMMA PlayStep ==
  ASSUME OwnersInv, NEW c \in Client, NEW s \in Session, Play(c, s) \/ GetParameter(c, s)
  PROVE  OwnersInv'
<1>1. CASE Play(c, s)
  <2>1. /\ UNCHANGED << kind, conn, session, port, lost, mAssignedPorts, toJoin, listener >>
        /\ life' = [t \in Threads |-> IF t \in Made(s) /\ life[t] = "made" THEN "waiting" ELSE life[t]]
        /\ kind[s[1]] = "RTSP"
        /\ UNCHANGED << abandoned, cause >>
    BY <1>1 DEF Play, Known, clientVars, history
  <2>2. \A t \in Made(s) : Owner(t) = s[1]
    BY DEF Made, Owner, Alive
  <2>3. life' \in [Threads -> Life]
    BY <2>1 DEF OwnersInv, ServingTyped, Life
  <2>4. \A t \in Threads : life'[t] = life[t] \/ (life[t] = "made" /\ life'[t] = "waiting" /\ kind[Owner(t)] = "RTSP")
    BY <2>1, <2>2
  <2> QED
    BY <2>1, <2>3, <2>4, ThreadsGoOn
<1>2. CASE GetParameter(c, s)
  <2>1. /\ UNCHANGED << kind, conn, life, session, port, lost, mAssignedPorts, toJoin, abandoned >>
        /\ listener = "select" /\ listener' = "crashed" /\ cause' = "connection"
    BY <1>2 DEF GetParameter, Crash, Serves, threads, history
  <2> QED
    BY <2>1, CrashStep
<1> QED
  BY <1>1, <1>2

LEMMA RequestStep ==
  ASSUME OwnersInv, NEW c \in Client, Request(c)
  PROVE  OwnersInv'
<1>1. CASE HangUp(c)
  BY <1>1, CloseStep DEF HangUp, threads, history
<1>2. CASE Refused(c)
  BY <1>2, CloseStep DEF Refused, Serves, threads, history
<1>3. CASE Describe(c)
  <2>1. UNCHANGED << kind, conn, life, session, port, lost, mAssignedPorts, listener, toJoin, abandoned, cause >>
    BY <1>3 DEF Describe, threads, history
  <2> QED
    BY <2>1, NothingMoves
<1>4. \A s : NextTrack(s) \in Nat
  BY DEF NextTrack
<1> QED
  BY <1>1, <1>2, <1>3, <1>4, HttpStep, RtmpStep, SetupStep, PlayStep, TeardownStep DEF Request

(***************************************************************************)
(* The threads                                                             *)
(***************************************************************************)
LEMMA AdvanceStep ==
  ASSUME OwnersInv, NEW t \in Threads, ThreadStep(t) \/ TimeoutOrError(t)
  PROVE  OwnersInv'
<1>1. PICK to \in {"sending", "ended"}, from \in {"waiting", "sending"} : Advance(t, from, to)
  BY DEF ThreadStep, TimeoutOrError, Ready, NotReady, SeeStop
<1>2. /\ UNCHANGED << kind, conn, session, port, lost, mAssignedPorts, toJoin, listener, abandoned, cause >>
      /\ life[t] = from /\ life' = [life EXCEPT ![t] = to]
  BY <1>1 DEF Advance, clientVars, history
<1>3. life' \in [Threads -> Life]
  BY <1>2 DEF OwnersInv, ServingTyped, Life
<1>4. \A u \in Threads : life'[u] = life[u] \/ (life[u] = from /\ life'[u] = to)
  BY <1>2 DEF OwnersInv, ServingTyped
<1> QED
  BY <1>2, <1>3, <1>4, ThreadsGoOn

LEMMA OtherStep ==
  ASSUME OwnersInv, StopNext \/ StopListener \/ EncoderBlocks \/ SourceChanges \/ UNCHANGED servingVars
  PROVE  OwnersInv'
<1>1. /\ UNCHANGED << kind, conn, life, session, port, lost, mAssignedPorts, toJoin, abandoned, cause >>
      /\ listener' = listener \/ (listener = "select" /\ listener' = "stopped")
  BY DEF StopNext, StopListener, EncoderBlocks, SourceChanges, servingVars, threads, clientVars, history
<1> QED
  BY <1>1, NothingMoves

LEMMA WriteLateStep ==
  ASSUME OwnersInv, NEW t \in Threads, WriteLate(t)
  PROVE  OwnersInv'
<1>1. /\ UNCHANGED << kind, conn, life, session, port, lost, mAssignedPorts, toJoin, abandoned >>
      /\ listener' = "crashed" /\ cause' = "connection"
  BY DEF WriteLate, Crash, threads
<1> QED
  BY <1>1, CrashStep

LEMMA TornDownLateStep ==
  ASSUME OwnersInv, TornDownLate
  PROVE  OwnersInv'
<1>1. /\ UNCHANGED << kind, conn, life, session, port, lost, mAssignedPorts, toJoin, abandoned >>
      /\ listener = "teardown" /\ listener' = "crashed" /\ cause' = "connection"
  BY DEF TornDownLate, Crash, threads, history
<1> QED
  BY <1>1, CrashStep

(***************************************************************************)
(* The listener and its clients                                            *)
(***************************************************************************)
LEMMA OwnersStart == ServingInit => OwnersInv
<1> SUFFICES ASSUME ServingInit PROVE OwnersInv
  OBVIOUS
<1> USE ServingAssumption
<1>1. Session # {}
  <2>1. PICK c : c \in Client
    OBVIOUS
  <2>2. << c, 1 >> \in Session
    BY <2>1 DEF Session
  <2> QED
    BY <2>2
<1>2. ServingTyped
  BY <1>1 DEF ServingInit, ServingTyped, Life
<1>3. OneSession /\ OneCloses /\ ToJoinIsAlive /\ StreamsHaveConnections
  BY DEF ServingInit, OneSession, OneCloses, ToJoinIsAlive, StreamsHaveConnections, Orphan, Alive
<1>4. LivePorts = {}
  BY DEF ServingInit, LivePorts, Alive
<1>5. OnePortEach /\ PortsAreOfStreams
  BY <1>4 DEF ServingInit, OnePortEach, PortsAreOfStreams
<1> QED
  BY <1>2, <1>3, <1>5 DEF OwnersInv

LEMMA OwnersStep == OwnersInv /\ CrashesAreKnown /\ [ServingNext]_servingVars => OwnersInv'
BY AcceptStep, RequestStep, DeleteNextStep, ClosedStep, TornDownStep, TornDownLateStep, AdvanceStep, WriteLateStep, OtherStep
   DEF ServingNext, ListenerStep

(***************************************************************************)
(* Sessions                                                                *)
(***************************************************************************)
(* No stream is made, and the sessions of RTSP stay. *)
LEMMA SessionsStay ==
  ASSUME SessionsTyped, SessionsAreOfClients, UNCHANGED << kind, session, track, lost >>,
         \A t \in Threads : /\ life'[t] = "none" => life[t] = "none"
                            /\ life'[t] \notin {"none", "deleted"} => life[t] \notin {"none", "deleted"},
         sessions' \in SUBSET Session,
         \A s \in sessions' : kind[s[1]] # "RTSP" => conn'[s[1]] \in {"open", "closing"} /\ s[2] = 1,
         \A s \in sessions : kind[s[1]] = "RTSP" => s \in sessions'
  PROVE  SessionsTyped' /\ SessionsAreOfClients'
<1>1. SessionsTyped'
  BY DEF SessionsTyped, Unmade
<1>2. \A t \in Threads : Owner(t)' = Owner(t) /\ (Alive(t)' => Alive(t)) /\ Owner(t) = session[t][1]
  BY DEF Owner, Alive
<1>3. \A t \in Threads : Alive(t)' /\ kind[Owner(t)] = "RTSP" => t \notin lost /\ session[t] \in sessions'
  BY <1>2 DEF SessionsAreOfClients
<1>4. \A t, u \in Threads :
          Alive(t)' /\ Alive(u)' /\ kind[Owner(t)] = "RTSP" /\ session[t] = session[u] /\ track[t] = track[u] => t = u
  BY <1>2 DEF SessionsAreOfClients
<1> QED
  BY <1>1, <1>2, <1>3, <1>4 DEF SessionsAreOfClients

(* A stream is made in its session, an RTSP one of a track that is not there. *)
LEMMA SessionOfNewStream ==
  ASSUME OwnersInv, SessionsTyped, SessionsAreOfClients, UNCHANGED << kind, conn >>,
         NEW s \in Session, NEW n \in Nat, NEW p, NEW there \in {"made", "waiting"},
         Unmade # {}, NewStream(NewOne, s, n, p, there),
         sessions' = sessions \cup {s}, conn[s[1]] = "open" \/ kind[s[1]] = "RTSP",
         lost' = lost \/ (lost' = lost \cup {NewOne} /\ kind[s[1]] # "RTSP"),
         kind[s[1]] = "RTSP" => \A t \in Made(s) : track[t] # n,
         kind[s[1]] # "RTSP" => s[2] = 1
  PROVE  SessionsTyped' /\ SessionsAreOfClients'
<1>1. PICK new \in Threads : new = NewOne /\ life[new] = "none"
  BY NewOneIsNew
<1>2. /\ life' = [life EXCEPT ![new] = there] /\ session' = [session EXCEPT ![new] = s]
      /\ track' = [track EXCEPT ![new] = n]
      /\ life \in [Threads -> Life] /\ session \in [Threads -> Session] /\ track \in [Threads -> Nat]
  BY <1>1 DEF NewStream, OwnersInv, ServingTyped, SessionsTyped
<1>3. /\ life'[new] = there /\ session'[new] = s /\ track'[new] = n /\ Owner(new)' = s[1]
      /\ \A t \in Threads : t # new => /\ life'[t] = life[t] /\ session'[t] = session[t] /\ track'[t] = track[t]
                                       /\ Owner(t)' = Owner(t) /\ (Alive(t)' <=> Alive(t)) /\ Owner(t) = session[t][1]
  BY <1>1, <1>2 DEF Owner, Alive
<1>4. new \notin lost
  BY <1>1 DEF SessionsTyped, Unmade
<1>5. SessionsTyped'
  BY <1>1, <1>2, <1>3, <1>4 DEF SessionsTyped, Unmade
<1>6. \A r \in sessions' : kind'[r[1]] # "RTSP" => conn'[r[1]] \in {"open", "closing"} /\ r[2] = 1
  BY DEF SessionsAreOfClients
<1>7. \A t \in Threads : Alive(t)' /\ kind'[Owner(t)'] = "RTSP" => t \notin lost' /\ session'[t] \in sessions'
  BY <1>1, <1>3, <1>4 DEF SessionsAreOfClients
<1>8. \A t \in Threads : t # new /\ Alive(t)' /\ session'[t] = s /\ kind[s[1]] = "RTSP" => track'[t] # n
  BY <1>3 DEF SessionsAreOfClients, Made
<1>9. ASSUME NEW t \in Threads, NEW u \in Threads, Alive(t)', Alive(u)', kind'[Owner(t)'] = "RTSP",
             session'[t] = session'[u], track'[t] = track'[u]
      PROVE  t = u
  <2>1. CASE t = new
    BY <2>1, <1>3, <1>8, <1>9
  <2>2. CASE u = new
    BY <2>2, <1>3, <1>8, <1>9
  <2>3. CASE t # new /\ u # new
    BY <2>3, <1>3, <1>9 DEF SessionsAreOfClients
  <2> QED
    BY <2>1, <2>2, <2>3
<1> QED
  BY <1>5, <1>6, <1>7, <1>9 DEF SessionsAreOfClients

LEMMA SessionsStep ==
  ASSUME OwnersInv, SessionsTyped, SessionsAreOfClients, [ServingNext]_servingVars
  PROVE  SessionsTyped' /\ SessionsAreOfClients'
<1>1. ASSUME NEW c \in Client, Accept(c) PROVE SessionsTyped' /\ SessionsAreOfClients'
  <2>1. UNCHANGED << kind, session, track, lost, life, sessions >> /\ conn' = [conn EXCEPT ![c] = "open"]
    BY <1>1 DEF Accept, threads
  <2>2. \A s \in sessions : s[1] \in Client /\ (kind[s[1]] # "RTSP" => conn'[s[1]] \in {"open", "closing"} /\ s[2] = 1)
    BY <2>1 DEF SessionsTyped, SessionsAreOfClients, Session, OwnersInv, ServingTyped
  <2> QED
    BY <2>1, <2>2, SessionsStay DEF SessionsTyped
<1>2. ASSUME NEW c \in Client, HangUp(c) \/ GetRefused(c) \/ Refused(c) PROVE SessionsTyped' /\ SessionsAreOfClients'
  <2>1. UNCHANGED << kind, session, track, lost, life >> /\ conn' = [conn EXCEPT ![c] = "closing"]
    BY <1>2 DEF HangUp, GetRefused, Refused, Close, threads
  <2>2. PICK new \in SUBSET Session :
            /\ sessions' = sessions \cup new
            /\ \A s \in new : s[1] = c /\ (kind[c] # "RTSP" => s[2] = 1)
    <3>1. CASE HangUp(c)
      <4>1. {} \in SUBSET Session /\ sessions' = sessions \cup {}
        BY <3>1 DEF HangUp
      <4> QED
        BY <4>1
    <3>2. CASE GetRefused(c)
      <4>1. << c, 1 >> \in Session
        BY ServingAssumption DEF Session
      <4>2. {<< c, 1 >>} \in SUBSET Session /\ \A s \in {<< c, 1 >>} : s[1] = c /\ s[2] = 1
        BY <4>1
      <4>3. sessions' = sessions \cup {<< c, 1 >>}
        BY <3>2 DEF GetRefused
      <4> QED
        BY <4>2, <4>3
    <3>3. CASE Refused(c)
      <4>1. \A n \in 1 .. MaxSessions : << c, n >> \in Session
        BY DEF Session
      <4>2. PICK new \in SUBSET { << c, n >> : n \in 1 .. MaxSessions } : sessions' = sessions \cup new
        BY <3>3 DEF Refused
      <4>3. kind[c] = "RTSP"
        BY <3>3 DEF Refused, Serves
      <4>4. new \in SUBSET Session /\ \A s \in new : s[1] = c
        BY <4>1, <4>2
      <4> QED
        BY <4>2, <4>3, <4>4
    <3> QED
      BY <1>2, <3>1, <3>2, <3>3
  <2>3. \A s \in sessions' : s \in Session /\ (kind[s[1]] # "RTSP" => conn'[s[1]] \in {"open", "closing"} /\ s[2] = 1)
    BY <2>1, <2>2 DEF SessionsTyped, SessionsAreOfClients, Session, OwnersInv, ServingTyped
  <2> QED
    BY <2>1, <2>2, <2>3, SessionsStay
<1>3. ASSUME NEW c \in Client, Get(c) PROVE SessionsTyped' /\ SessionsAreOfClients'
  <2>1. << c, 1 >> \in Session
    BY ServingAssumption DEF Session
  <2> QED
    BY <1>3, <2>1, SessionOfNewStream DEF Get, Serves
<1>4. ASSUME NEW c \in Client, NEW n \in {1, 2}, play(c, n) PROVE SessionsTyped' /\ SessionsAreOfClients'
  <2>1. << c, 1 >> \in Session
    BY ServingAssumption DEF Session
  <2> QED
    BY <1>4, <2>1, SessionOfNewStream DEF play, Command, Serves
<1>5. ASSUME NEW c \in Client, NEW s \in Session, NEW i \in BOOLEAN, Setup(c, s, NextTrack(s), i)
      PROVE  SessionsTyped' /\ SessionsAreOfClients'
  <2>1. /\ NextTrack(s) \in Nat /\ kind[s[1]] = "RTSP" /\ sessions' = sessions \cup {s} /\ lost' = lost
        /\ UNCHANGED << kind, conn >> /\ Unmade # {} /\ \A t \in Made(s) : track[t] # NextTrack(s)
    BY <1>5 DEF Setup, TakesSetup, SetupSession, Serves, Known, NextTrack
  <2>2. \E p : NewStream(NewOne, s, NextTrack(s), p, "made")
    BY <1>5 DEF Setup
  <2> QED
    BY <2>1, <2>2, SessionOfNewStream
<1>6. ASSUME NEW c \in Client, Closed(c) PROVE SessionsTyped' /\ SessionsAreOfClients'
  <2>1. /\ UNCHANGED << kind, session, track, lost, life >> /\ conn' = [conn EXCEPT ![c] = "deleted"]
        /\ sessions' = IF kind[c] = "RTSP" THEN sessions ELSE sessions \ {<< c, 1 >>}
    BY <1>6 DEF Closed, threads
  <2>2. \A s \in sessions' : s \in sessions /\ s \in Session /\ s = << s[1], s[2] >> /\ s[1] \in Client
    BY <2>1 DEF SessionsTyped, Session
  <2>3. \A s \in sessions' : kind[s[1]] # "RTSP" => conn'[s[1]] \in {"open", "closing"} /\ s[2] = 1
    BY <2>1, <2>2 DEF SessionsAreOfClients, OwnersInv, ServingTyped
  <2> QED
    BY <2>1, <2>2, <2>3, SessionsStay
<1>7. ASSUME DeleteNext \/ TornDown PROVE SessionsTyped' /\ SessionsAreOfClients'
  <2>1. UNCHANGED << kind, conn, session, track, lost, sessions >>
    BY <1>7 DEF DeleteNext, TornDown, clientVars
  <2>2. \A t \in Threads : life'[t] = life[t] \/ life'[t] = "deleted"
    BY <1>7 DEF DeleteNext, TornDown, OwnersInv, ServingTyped
  <2> QED
    BY <2>1, <2>2, SessionsStay DEF SessionsTyped, SessionsAreOfClients
<1>8. ASSUME NEW c \in Client, connect(c) \/ createStream(c) \/ closeStream(c)
      PROVE  SessionsTyped' /\ SessionsAreOfClients'
  <2>1. /\ UNCHANGED << kind, conn, session, track, lost, life >> /\ conn[c] = "open"
        /\ sessions' = sessions \cup {<< c, 1 >>}
    BY <1>8 DEF connect, createStream, closeStream, Command, Serves, threads
  <2>2. << c, 1 >> \in Session
    BY ServingAssumption DEF Session
  <2> QED
    BY <2>1, <2>2, SessionsStay DEF SessionsTyped, SessionsAreOfClients
<1>9. ASSUME NEW c \in Client, NEW s \in Session, NEW n,
             SetupMisused(c, s) \/ SetupUnparsed(c, s, n) \/ SetupThrows(c, s, n) \/ SetupNoPort(c, s, n)
      PROVE  SessionsTyped' /\ SessionsAreOfClients'
  <2>1. /\ UNCHANGED << kind, conn, session, track, lost, life >>
        /\ sessions' = sessions \/ (sessions' = sessions \cup {s} /\ kind[s[1]] = "RTSP")
    BY <1>9 DEF SetupMisused, SetupUnparsed, SetupThrows, SetupNoPort, TakesSetup, SetupSession, Serves, Crash,
                threads
  <2> QED
    BY <2>1, SessionsStay DEF SessionsTyped, SessionsAreOfClients
<1>10. ASSUME NEW c \in Client, NEW s \in Session, Play(c, s) PROVE SessionsTyped' /\ SessionsAreOfClients'
  <2>1. /\ UNCHANGED << kind, conn, session, track, lost, sessions >>
        /\ \A t \in Threads : life'[t] = life[t] \/ (life[t] = "made" /\ life'[t] = "waiting")
    BY <1>10 DEF Play, clientVars
  <2> QED
    BY <2>1, SessionsStay DEF SessionsTyped, SessionsAreOfClients
<1>11. ASSUME NEW t \in Threads, ThreadStep(t) \/ TimeoutOrError(t) PROVE SessionsTyped' /\ SessionsAreOfClients'
  <2>1. PICK to \in {"sending", "ended"}, from \in {"waiting", "sending"} : Advance(t, from, to)
    BY <1>11 DEF ThreadStep, TimeoutOrError, Ready, NotReady, SeeStop
  <2>2. /\ UNCHANGED << kind, conn, session, track, lost, sessions >>
        /\ \A u \in Threads : life'[u] = life[u] \/ (life[u] = from /\ life'[u] = to)
    BY <2>1 DEF Advance, clientVars, OwnersInv, ServingTyped
  <2> QED
    BY <2>2, SessionsStay DEF SessionsTyped, SessionsAreOfClients
<1>12. ASSUME NEW c \in Client, GetUnknown(c) \/ playStuck(c) \/ Describe(c) PROVE SessionsTyped' /\ SessionsAreOfClients'
  <2>1. UNCHANGED << kind, conn, session, track, lost, sessions, life >>
    BY <1>12 DEF GetUnknown, playStuck, Describe, threads, clientVars, servingVars
  <2> QED
    BY <2>1, SessionsStay DEF SessionsTyped, SessionsAreOfClients
<1>13. ASSUME NEW c \in Client, NEW s \in Session, GetParameter(c, s) \/ Teardown(c, s)
       PROVE  SessionsTyped' /\ SessionsAreOfClients'
  <2>1. UNCHANGED << kind, conn, session, track, lost, sessions, life >>
    BY <1>13 DEF GetParameter, Teardown, Crash, threads, clientVars
  <2> QED
    BY <2>1, SessionsStay DEF SessionsTyped, SessionsAreOfClients
<1>14. ASSUME StopNext \/ TornDownLate \/ StopListener \/ EncoderBlocks \/ SourceChanges \/ UNCHANGED servingVars
       PROVE  SessionsTyped' /\ SessionsAreOfClients'
  <2>1. UNCHANGED << kind, conn, session, track, lost, sessions, life >>
    BY <1>14 DEF StopNext, TornDownLate, StopListener, EncoderBlocks, SourceChanges, Crash, threads, clientVars, servingVars
  <2> QED
    BY <2>1, SessionsStay DEF SessionsTyped, SessionsAreOfClients
<1>15. ASSUME NEW t \in Threads, WriteLate(t) PROVE SessionsTyped' /\ SessionsAreOfClients'
  <2>1. UNCHANGED << kind, conn, session, track, lost, sessions, life >>
    BY <1>15 DEF WriteLate, Crash, threads
  <2> QED
    BY <2>1, SessionsStay DEF SessionsTyped, SessionsAreOfClients
<1> QED
  BY <1>1, <1>2, <1>3, <1>4, <1>5, <1>6, <1>7, <1>8, <1>9, <1>10, <1>11, <1>12, <1>13, <1>14, <1>15
     DEF ServingNext, Request, ListenerStep

(***************************************************************************)
(* Locked queues                                                           *)
(***************************************************************************)
(* The streams whose queues are locked stay as they are. *)
LEMMA LocksStay ==
  ASSUME LocksAreOfStreams, UNCHANGED << kind, mutexHeld, encoderStuck >>, stopped \subseteq stopped',
         \A t \in mutexHeld : life'[t] = life[t] /\ session'[t] = session[t]
  PROVE  LocksAreOfStreams'
BY DEF LocksAreOfStreams, Owner

LEMMA LocksStep ==
  ASSUME OwnersInv, LocksAreOfStreams, [ServingNext]_servingVars
  PROVE  LocksAreOfStreams'
<1>1. ASSUME NEW s, NEW n, NEW p, NEW there, Unmade # {}, NewStream(NewOne, s, n, p, there),
             UNCHANGED << kind, mutexHeld, encoderStuck >>
      PROVE  LocksAreOfStreams'
  <2>1. NewOne \in Threads /\ NewOne \notin mutexHeld
    BY <1>1, NewOneIsNew DEF LocksAreOfStreams
  <2>2. /\ life' = [life EXCEPT ![NewOne] = there] /\ session' = [session EXCEPT ![NewOne] = s]
        /\ stopped' = stopped
    BY <1>1 DEF NewStream
  <2>3. \A t \in mutexHeld : life'[t] = life[t] /\ session'[t] = session[t]
    BY <2>1, <2>2 DEF OwnersInv, ServingTyped, LocksAreOfStreams
  <2> QED
    BY <1>1, <2>2, <2>3, LocksStay
<1>2. ASSUME NEW c \in Client, Get(c) \/ (\E n \in {1, 2} : play(c, n)) PROVE LocksAreOfStreams'
  BY <1>1, <1>2 DEF Get, play, Command, locks
<1>3. ASSUME NEW c \in Client, NEW s \in Session, NEW n, NEW i \in BOOLEAN, Setup(c, s, n, i) PROVE LocksAreOfStreams'
  BY <1>1, <1>3 DEF Setup, TakesSetup, locks
<1>4. ASSUME DeleteNext PROVE LocksAreOfStreams'
  <2> DEFINE d == Head(toJoin)
  <2>1. /\ UNCHANGED << kind, session, stopped, encoderStuck >> /\ mutexHeld' = mutexHeld \ {d}
        /\ life' = [life EXCEPT ![d] = "deleted"] /\ (kind[Owner(d)] = "RTMP" => ~encoderStuck)
    BY <1>4 DEF DeleteNext, Deletable
  <2>2. d \in Threads
    BY <1>4 DEF DeleteNext, OwnersInv, ServingTyped
  <2> HIDE DEF d
  <2>3. \A t \in mutexHeld' : t \in mutexHeld /\ life'[t] = life[t] /\ Owner(t)' = Owner(t)
    BY <2>1, <2>2 DEF OwnersInv, ServingTyped, LocksAreOfStreams, Owner
  <2>4. encoderStuck => mutexHeld' = mutexHeld /\ mutexHeld # {}
    BY <2>1 DEF LocksAreOfStreams
  <2> QED
    BY <2>1, <2>3, <2>4 DEF LocksAreOfStreams
<1>5. ASSUME TornDown PROVE LocksAreOfStreams'
  <2>1. /\ UNCHANGED << kind, session, stopped, mutexHeld, encoderStuck >> /\ listener = "teardown"
        /\ life' = [t \in Threads |-> IF t \in ToSet(toJoin) THEN "deleted" ELSE life[t]]
    BY <1>5 DEF TornDown, locks
  <2>2. \A t \in ToSet(toJoin) : kind[Owner(t)] = "RTSP"
    BY <2>1 DEF OwnersInv, ToJoinIsAlive, ToSet
  <2>3. \A t \in mutexHeld : life'[t] = life[t]
    BY <2>1, <2>2 DEF LocksAreOfStreams
  <2> QED
    BY <2>1, <2>3, LocksStay
<1>6. ASSUME NEW t \in Threads, ThreadStep(t) PROVE LocksAreOfStreams'
  <2>1. PICK to \in {"sending", "ended"}, from \in {"waiting", "sending"} : Advance(t, from, to)
    BY <1>6 DEF ThreadStep, Ready, NotReady, SeeStop
  <2>2. /\ UNCHANGED << kind, session, stopped, mutexHeld, encoderStuck >>
        /\ life[t] = from /\ life' = [life EXCEPT ![t] = to]
    BY <1>6, <2>1 DEF ThreadStep, Ready, NotReady, SeeStop, Advance
  <2>3. \A u \in mutexHeld : life'[u] = life[u]
    BY <2>2 DEF LocksAreOfStreams, OwnersInv, ServingTyped
  <2> QED
    BY <2>2, <2>3, LocksStay
<1>7. ASSUME NEW t \in Threads, TimeoutOrError(t) PROVE LocksAreOfStreams'
  <2>1. /\ UNCHANGED << kind, session, encoderStuck >> /\ stopped' = stopped \cup {t}
        /\ mutexHeld' = IF kind[Owner(t)] = "RTMP" THEN mutexHeld \cup {t} ELSE mutexHeld
        /\ life' = [life EXCEPT ![t] = "ended"]
    BY <1>7 DEF TimeoutOrError, Advance
  <2>2. life'[t] = "ended" /\ \A u \in Threads : u # t => life'[u] = life[u]
    BY <2>1 DEF OwnersInv, ServingTyped
  <2>3. \A u \in mutexHeld' : u \in Threads /\ life'[u] = "ended" /\ u \in stopped' /\ kind[Owner(u)] = "RTMP"
    BY <2>1, <2>2 DEF LocksAreOfStreams
  <2> QED
    BY <2>1, <2>3 DEF LocksAreOfStreams, Owner
<1>8. ASSUME EncoderBlocks PROVE LocksAreOfStreams'
  BY <1>8 DEF EncoderBlocks, LocksAreOfStreams, Owner, threads
<1>9. ASSUME NEW c \in Client, NEW s \in Session, Play(c, s) PROVE LocksAreOfStreams'
  <2>1. /\ UNCHANGED << kind, session, stopped, mutexHeld, encoderStuck >>
        /\ life' = [t \in Threads |-> IF t \in Made(s) /\ life[t] = "made" THEN "waiting" ELSE life[t]]
    BY <1>9 DEF Play, locks
  <2>2. \A t \in mutexHeld : life'[t] = life[t]
    BY <2>1 DEF LocksAreOfStreams
  <2> QED
    BY <2>1, <2>2, LocksStay
<1>10. ASSUME UNCHANGED << kind, life, session, mutexHeld, encoderStuck >>, stopped \subseteq stopped'
       PROVE  LocksAreOfStreams'
  BY <1>10, LocksStay
<1>11. ASSUME NEW c \in Client, \/ HangUp(c) \/ GetUnknown(c) \/ GetRefused(c)
                                \/ connect(c) \/ createStream(c) \/ playStuck(c) \/ closeStream(c)
                                \/ Describe(c) \/ Refused(c) \/ Accept(c) \/ Closed(c)
       PROVE  LocksAreOfStreams'
  BY <1>10, <1>11 DEF HangUp, GetUnknown, GetRefused, connect, createStream, playStuck, closeStream, Describe, Refused,
                      Accept, Closed, Command, threads, locks, servingVars
<1>12. ASSUME NEW c \in Client, NEW s \in Session, NEW n,
              \/ SetupMisused(c, s) \/ SetupUnparsed(c, s, n) \/ SetupThrows(c, s, n) \/ SetupNoPort(c, s, n)
              \/ GetParameter(c, s) \/ Teardown(c, s)
       PROVE  LocksAreOfStreams'
  BY <1>10, <1>12 DEF SetupMisused, SetupUnparsed, SetupThrows, SetupNoPort, GetParameter, Teardown, Crash, threads, locks
<1>13. ASSUME StopNext \/ TornDownLate \/ StopListener \/ SourceChanges \/ (\E t \in Threads : WriteLate(t))
              \/ UNCHANGED servingVars
       PROVE  LocksAreOfStreams'
  BY <1>10, <1>13 DEF StopNext, TornDownLate, StopListener, SourceChanges, WriteLate, Crash, threads, locks, servingVars
<1> QED
  BY <1>2, <1>3, <1>4, <1>5, <1>6, <1>7, <1>8, <1>9, <1>11, <1>12, <1>13 DEF ServingNext, Request, ListenerStep

(***************************************************************************)
(* The end of the process                                                  *)
(***************************************************************************)
LEMMA CrashesStep ==
  ASSUME OwnersInv, SessionsAreOfClients, CrashesAreKnown, [ServingNext]_servingVars
  PROVE  CrashesAreKnown'
<1>1. ASSUME listener # "crashed", listener' # "crashed", cause' = cause PROVE CrashesAreKnown'
  BY <1>1 DEF CrashesAreKnown
<1>2. ASSUME NEW c \in Client, Request(c), ~(\E s \in Session : \/ SetupMisused(c, s) \/ SetupUnparsed(c, s, NextTrack(s))
                                                \/ SetupThrows(c, s, NextTrack(s)) \/ SetupNoPort(c, s, NextTrack(s))
                                                \/ GetParameter(c, s))
      PROVE  CrashesAreKnown'
  <2>1. listener = "select" /\ cause' = cause /\ listener' # "crashed"
    <3>1. CASE HangUp(c) \/ GetUnknown(c) \/ GetRefused(c) \/ Get(c)
      BY <3>1 DEF HangUp, GetUnknown, GetRefused, Get, Close, Serves, servingVars, history
    <3>2. CASE connect(c) \/ createStream(c) \/ (\E n \in {1, 2} : play(c, n)) \/ playStuck(c) \/ closeStream(c)
      BY <3>2 DEF connect, createStream, play, playStuck, closeStream, Command, Serves, history
    <3>3. CASE Describe(c) \/ Refused(c)
      BY <3>3 DEF Describe, Refused, Close, Serves, history
    <3>4. CASE \E s \in Session : Play(c, s) \/ Teardown(c, s) \/ \E i \in BOOLEAN : Setup(c, s, NextTrack(s), i)
      BY <3>4 DEF Play, Teardown, Setup, TakesSetup, Serves, history
    <3> QED
      BY <1>2, <3>1, <3>2, <3>3, <3>4 DEF Request
  <2> QED
    BY <1>1, <2>1
<1>3. ASSUME NEW c \in Client, NEW s \in Session, NEW n,
             \/ SetupMisused(c, s) \/ SetupUnparsed(c, s, n) \/ SetupThrows(c, s, n) \/ SetupNoPort(c, s, n)
             \/ GetParameter(c, s)
      PROVE  CrashesAreKnown'
  <2>1. listener' = "crashed" /\ cause' # "none" /\ UNCHANGED << kind, conn >>
    BY <1>3 DEF SetupMisused, SetupUnparsed, SetupThrows, SetupNoPort, GetParameter, Crash
  <2>2. cause' = "connection" => sessions' = sessions /\ s \in sessions /\ kind[s[1]] = "RTSP" /\ conn[s[1]] = "deleted"
    BY <1>3 DEF SetupMisused, SetupUnparsed, SetupThrows, SetupNoPort, GetParameter, Crash, Known
  <2> QED
    BY <2>1, <2>2 DEF CrashesAreKnown
<1>4. ASSUME TornDownLate PROVE CrashesAreKnown'
  <2>1. /\ listener = "teardown" /\ listener' = "crashed" /\ cause' = "connection" /\ UNCHANGED << kind, conn, sessions >>
        /\ \E i \in DOMAIN toJoin : conn[Owner(toJoin[i])] = "deleted"
    BY <1>4 DEF TornDownLate, Crash
  <2>2. PICK i \in DOMAIN toJoin : conn[Owner(toJoin[i])] = "deleted"
    BY <2>1
  <2>3. toJoin[i] \in Threads /\ Alive(toJoin[i]) /\ kind[Owner(toJoin[i])] = "RTSP"
    BY <2>1 DEF OwnersInv, ServingTyped, ToJoinIsAlive
  <2>4. session[toJoin[i]] \in sessions
    BY <2>3 DEF SessionsAreOfClients
  <2> QED
    BY <2>1, <2>2, <2>3, <2>4 DEF CrashesAreKnown, Owner
<1>5. ASSUME NEW c \in Client, Accept(c) \/ Closed(c) PROVE CrashesAreKnown'
  BY <1>1, <1>5 DEF Accept, Closed, history
<1>6. ASSUME StopNext \/ DeleteNext \/ TornDown \/ StopListener \/ EncoderBlocks \/ SourceChanges PROVE CrashesAreKnown'
  BY <1>1, <1>6 DEF StopNext, DeleteNext, TornDown, StopListener, EncoderBlocks, SourceChanges, Running, history
<1>7. ASSUME NEW t \in Threads, ThreadStep(t) \/ TimeoutOrError(t) PROVE CrashesAreKnown'
  <2>1. \E to, from : Advance(t, from, to)
    BY <1>7 DEF ThreadStep, TimeoutOrError, Ready, NotReady, SeeStop
  <2> QED
    BY <1>1, <2>1 DEF Advance, Running, history
<1>8. ASSUME NEW t \in Threads, WriteLate(t) PROVE CrashesAreKnown'
  <2>1. /\ listener' = "crashed" /\ cause' = "connection" /\ Alive(t) /\ conn[Owner(t)] = "deleted"
        /\ UNCHANGED << kind, conn, sessions, life, session, lost >>
    BY <1>8 DEF WriteLate, Crash, Orphan, threads
  <2>2. t \in lost \/ kind[Owner(t)] = "RTSP"
    BY <2>1 DEF OwnersInv, StreamsHaveConnections, Orphan
  <2>3. CASE t \in lost
    BY <2>1, <2>3 DEF CrashesAreKnown, Orphan, Alive, Owner
  <2>4. CASE kind[Owner(t)] = "RTSP"
    <3>1. session[t] \in sessions
      BY <2>1, <2>4 DEF SessionsAreOfClients
    <3> QED
      BY <2>1, <2>4, <3>1 DEF CrashesAreKnown, Owner
  <2> QED
    BY <2>2, <2>3, <2>4
<1>9. ASSUME UNCHANGED servingVars PROVE CrashesAreKnown'
  BY <1>9 DEF servingVars, clientVars, threads, history, CrashesAreKnown, Orphan, Alive, Owner
<1> QED
  BY <1>2, <1>3, <1>4, <1>5, <1>6, <1>7, <1>8, <1>9 DEF ServingNext, ListenerStep

(***************************************************************************)
(* All of it                                                               *)
(***************************************************************************)
LEMMA ServingStart == ServingInit => ServingInv
<1> SUFFICES ASSUME ServingInit PROVE ServingInv
  OBVIOUS
<1>1. SessionsTyped
  BY OwnersStart DEF ServingInit, SessionsTyped
<1>2. SessionsAreOfClients /\ LocksAreOfStreams /\ CrashesAreKnown
  BY DEF ServingInit, SessionsAreOfClients, LocksAreOfStreams, CrashesAreKnown, Alive
<1> QED
  BY <1>1, <1>2, OwnersStart DEF ServingInv

LEMMA ServingStep == ServingInv /\ [ServingNext]_servingVars => ServingInv'
BY OwnersStep, SessionsStep, LocksStep, CrashesStep DEF ServingInv

(* The inductive invariant, for any clients, protocols, streams, sessions and ports: streams and
   their ports have owners, sessions have clients, what stays locked is an ended stream's, and
   what ends the process is one of the causes (ozListener.cpp:75-167, ozController.cpp). *)
THEOREM ServingInvariant == ServingSpec => []ServingInv
BY ServingStart, ServingStep, PTL DEF ServingSpec

(* A stream that is alive has its connection unless no session knows it or an RTSP client left
   it; ports are those of the streams; sessions and locked queues are somebody's; and the
   process ends of the want of ports only when all are taken, of a deleted connection only
   when a session has outlived it: for any clients, sessions and ports
   (ozHttpController.cpp:46-67, ozRtspController.cpp:96-121, ozRtspSession.cpp:48-165). *)
THEOREM ResourcesAlwaysOfClients == ServingSpec => []ResourcesAreOfClients
<1>1. ServingInv => ResourcesAreOfClients
  BY DEF ServingInv, OwnersInv, ResourcesAreOfClients
<1> QED
  BY <1>1, ServingInvariant, PTL

-----------------------------------------------------------------------------
(***************************************************************************)
(* ByteBuffer.  A buffer holds what was put into it.                       *)
(***************************************************************************)

USE BufferAssumption DEF mAllocation

LEMMA ZerosType == ASSUME NEW n \in Nat PROVE Zeros(n) \in Seq(Nat) /\ Len(Zeros(n)) = n
BY DEF Zeros

LEMMA StringsType == \A d \in Strings : d \in Seq(Nat) /\ Len(d) \in Nat
OBVIOUS

(* What Holds says of the parts of a buffer, and how it is made of them. *)
LEMMA HoldsParts ==
  ASSUME NEW b, NEW c, Holds(b, c)
  PROVE  /\ b \in BufferType
         /\ b.mStorage \in Seq(Nat) /\ Len(b.mStorage) \in Nat /\ b.mHead \in Nat /\ b.mSize \in Nat
         /\ b.mAdopted \in BOOLEAN
         /\ b.mHead + b.mSize <= Len(b.mStorage)
         /\ c \in Seq(Nat) /\ Len(c) = b.mSize
         /\ \A i \in 1 .. Len(b.mStorage) : b.mStorage[i] \in Nat
         /\ \A i \in 1 .. b.mSize : b.mStorage[b.mHead + i] = c[i] /\ c[i] \in Nat
<1>1. b \in BufferType
  BY DEF Holds
<1>2. /\ b.mStorage \in Seq(Nat) /\ b.mHead \in Nat /\ b.mSize \in Nat /\ b.mAdopted \in BOOLEAN
  BY <1>1 DEF BufferType
<1>3. /\ b.mHead + b.mSize <= Len(b.mStorage) /\ c \in Seq(Nat) /\ Len(c) = b.mSize
      /\ \A i \in 1 .. b.mSize : b.mStorage[b.mHead + i] = c[i]
  BY DEF Holds
<1>4. Len(b.mStorage) \in Nat /\ \A i \in 1 .. Len(b.mStorage) : b.mStorage[i] \in Nat
  BY <1>2
<1>5. \A i \in 1 .. b.mSize : c[i] \in Nat
  BY <1>3
<1> QED
  BY <1>1, <1>2, <1>3, <1>4, <1>5

(* The fields of r. *)
Has(r, s, h, n) == r \in BufferType /\ r.mStorage = s /\ r.mHead = h /\ r.mSize = n

LEMMA HoldsMade ==
  ASSUME NEW s \in Seq(Nat), NEW h \in Nat, NEW n \in Nat, NEW c \in Seq(Nat),
         Len(c) = n, h + n <= Len(s), \A i \in 1 .. n : s[h + i] = c[i],
         NEW r, Has(r, s, h, n)
  PROVE  Holds(r, c)
BY DEF Holds, Has

(* The ways in which the operations change a buffer. *)
LEMMA Updated ==
  ASSUME NEW b \in BufferType, NEW s \in Seq(Nat), NEW h \in Nat, NEW n \in Nat
  PROVE  /\ Has([b EXCEPT !.mStorage = s, !.mHead = h, !.mSize = n], s, h, n)
         /\ Has([b EXCEPT !.mStorage = s, !.mHead = h], s, h, b.mSize)
         /\ Has([b EXCEPT !.mStorage = s, !.mSize = n], s, b.mHead, n)
         /\ Has([b EXCEPT !.mHead = h, !.mSize = n], b.mStorage, h, n)
         /\ Has([b EXCEPT !.mSize = n, !.mHead = h], b.mStorage, h, n)
         /\ Has([b EXCEPT !.mHead = h], b.mStorage, h, b.mSize)
         /\ Has([b EXCEPT !.mSize = n], b.mStorage, b.mHead, n)
<1>1. Has([b EXCEPT !.mStorage = s, !.mHead = h, !.mSize = n], s, h, n)
  BY DEF BufferType, Has
<1>2. Has([b EXCEPT !.mStorage = s, !.mHead = h], s, h, b.mSize)
  BY DEF BufferType, Has
<1>3. Has([b EXCEPT !.mStorage = s, !.mSize = n], s, b.mHead, n)
  BY DEF BufferType, Has
<1>4. Has([b EXCEPT !.mHead = h, !.mSize = n], b.mStorage, h, n)
  BY DEF BufferType, Has
<1>5. Has([b EXCEPT !.mSize = n, !.mHead = h], b.mStorage, h, n)
  BY DEF BufferType, Has
<1>6. Has([b EXCEPT !.mHead = h], b.mStorage, h, b.mSize)
  BY DEF BufferType, Has
<1>7. Has([b EXCEPT !.mSize = n], b.mStorage, b.mHead, n)
  BY DEF BufferType, Has
<1> QED
  BY <1>1, <1>2, <1>3, <1>4, <1>5, <1>6, <1>7

(* What memcpy leaves in a piece of memory. *)
HasWritten(w, storage, at, d) ==
  /\ w \in Seq(Nat) /\ Len(w) = Len(storage)
  /\ \A j \in 1 .. Len(d) : at + j <= Len(storage) => w[at + j] = d[j]
  /\ \A i \in 1 .. Len(storage) : (i <= at \/ at + Len(d) < i) => w[i] = storage[i]

LEMMA WrittenIs ==
  ASSUME NEW storage \in Seq(Nat), NEW at \in Nat, NEW d \in Seq(Nat)
  PROVE  HasWritten(Written(storage, at, d), storage, at, d)
<1> DEFINE w == Written(storage, at, d)
<1>1. DOMAIN storage = 1 .. Len(storage) /\ DOMAIN d = 1 .. Len(d) /\ Len(storage) \in Nat /\ Len(d) \in Nat
  OBVIOUS
<1>2. w = [i \in 1 .. Len(storage) |-> IF i - at \in 1 .. Len(d) THEN d[i - at] ELSE storage[i]]
  BY <1>1 DEF Written
<1> HIDE DEF w
<1>3. \A i \in 1 .. Len(storage) : (IF i - at \in 1 .. Len(d) THEN d[i - at] ELSE storage[i]) \in Nat
  OBVIOUS
<1>4. w \in Seq(Nat) /\ Len(w) = Len(storage)
  BY <1>1, <1>2, <1>3
<1>5. ASSUME NEW j \in 1 .. Len(d), at + j <= Len(storage) PROVE w[at + j] = d[j]
  <2>1. at + j \in 1 .. Len(storage) /\ at + j - at = j
    BY <1>1, <1>5
  <2>2. w[at + j] = IF at + j - at \in 1 .. Len(d) THEN d[at + j - at] ELSE storage[at + j]
    BY <2>1, <1>2
  <2> QED
    BY <2>1, <2>2
<1>6. ASSUME NEW i \in 1 .. Len(storage), i <= at \/ at + Len(d) < i PROVE w[i] = storage[i]
  <2>1. i - at \notin 1 .. Len(d)
    BY <1>1, <1>6
  <2> QED
    BY <2>1, <1>2
<1>7. HasWritten(w, storage, at, d)
  BY <1>4, <1>5, <1>6 DEF HasWritten
<1> QED
  BY <1>7 DEF w

(* What the window is. *)
LEMMA WindowBytes ==
  ASSUME NEW b, NEW c, Holds(b, c)
  PROVE  /\ Window(b) \in Seq(Nat) /\ Len(Window(b)) = b.mSize
         /\ \A i \in 1 .. b.mSize : Window(b)[i] = b.mStorage[b.mHead + i]
<1> DEFINE m == b.mHead + 1
           n == b.mHead + b.mSize
<1>1. /\ b.mHead \in Nat /\ b.mSize \in Nat /\ n <= Len(b.mStorage) /\ Len(b.mStorage) \in Nat
      /\ \A i \in 1 .. Len(b.mStorage) : b.mStorage[i] \in Nat
  BY HoldsParts
<1>2. m \in Int /\ n \in Int /\ \A i \in m .. n : b.mStorage[i] \in Nat
  BY <1>1
<1>3. Window(b) = SubSeq(b.mStorage, m, n)
  BY DEF Window
<1>4. /\ Window(b) \in Seq(Nat)
      /\ Len(Window(b)) = IF m <= n THEN n - m + 1 ELSE 0
      /\ \A i \in 1 .. n - m + 1 : Window(b)[i] = b.mStorage[m + i - 1]
  BY <1>2, <1>3, SubSeqProperties
<1>5. /\ (IF m <= n THEN n - m + 1 ELSE 0) = b.mSize /\ n - m + 1 = b.mSize
      /\ \A i \in 1 .. b.mSize : m + i - 1 = b.mHead + i
  BY <1>1, SMTT(30)
<1> HIDE DEF m, n
<1> QED
  BY <1>4, <1>5

(* The window in a new place of the same or of larger memory. *)
LEMMA MovedHolds ==
  ASSUME NEW b, NEW c, Holds(b, c), NEW n \in Nat, b.mSize <= n
  PROVE  /\ Holds(Moved(b, n), c)
         /\ Moved(b, n).mHead = 0 /\ Len(Moved(b, n).mStorage) = n /\ Moved(b, n).mSize = b.mSize
<1>1. /\ Window(b) \in Seq(Nat) /\ Len(Window(b)) = b.mSize
      /\ \A i \in 1 .. b.mSize : Window(b)[i] = b.mStorage[b.mHead + i]
  BY WindowBytes
<1>2. Zeros(n - b.mSize) \in Seq(Nat) /\ Len(Zeros(n - b.mSize)) = n - b.mSize /\ b.mSize \in Nat
  BY ZerosType, HoldsParts
<1> DEFINE s == Window(b) \o Zeros(n - b.mSize)
<1>3. s \in Seq(Nat) /\ Len(s) = n /\ \A i \in 1 .. b.mSize : s[i] = b.mStorage[b.mHead + i]
  <2>1. /\ s \in Seq(Nat) /\ Len(s) = Len(Window(b)) + Len(Zeros(n - b.mSize))
        /\ \A i \in 1 .. Len(Window(b)) + Len(Zeros(n - b.mSize)) :
               s[i] = IF i <= Len(Window(b)) THEN Window(b)[i] ELSE Zeros(n - b.mSize)[i - Len(Window(b))]
    BY <1>1, <1>2, ConcatProperties
  <2> DEFINE w == Window(b)
             z == Zeros(n - b.mSize)
  <2>2. /\ s \in Seq(Nat) /\ Len(s) = b.mSize + (n - b.mSize)
        /\ \A i \in 1 .. b.mSize : s[i] = w[i]
    <3>1. Len(w) = b.mSize /\ Len(z) = n - b.mSize /\ b.mSize \in Nat
      BY <1>1, <1>2
    <3> HIDE DEF s, w, z
    <3> QED
      BY <2>1, <3>1 DEF w, z
  <2> HIDE DEF s
  <2> QED
    BY <2>2, <1>1, <1>2
<1>4. Moved(b, n) = [b EXCEPT !.mStorage = s, !.mHead = 0]
  BY DEF Moved
<1> HIDE DEF s
<1>5. Has(Moved(b, n), s, 0, b.mSize)
  <2>1. b \in BufferType /\ 0 \in Nat /\ b.mSize \in Nat
    BY HoldsParts
  <2>2. Has([b EXCEPT !.mStorage = s, !.mHead = 0], s, 0, b.mSize)
    BY <1>3, <2>1, Updated
  <2> QED
    BY <1>4, <2>2
<1>6. Holds(Moved(b, n), c)
  <2>1. /\ 0 \in Nat /\ b.mSize \in Nat /\ c \in Seq(Nat) /\ Len(c) = b.mSize
        /\ \A i \in 1 .. b.mSize : b.mStorage[b.mHead + i] = c[i]
    BY HoldsParts
  <2>2. \A i \in 1 .. b.mSize : s[0 + i] = c[i]
    BY <1>3, <2>1
  <2>3. 0 + b.mSize <= Len(s)
    BY <1>3, <2>1
  <2> QED
    BY <1>3, <1>5, <2>1, <2>2, <2>3, HoldsMade
<1> QED
  BY <1>3, <1>5, <1>6 DEF Has

(* expand: the room behind the window is enough, the window as before. *)
LEMMA ExpandHolds ==
  ASSUME NEW b, NEW c, Holds(b, c), NEW count \in Nat
  PROVE  /\ Holds(Expand(b, count), c)
         /\ Expand(b, count).mSize = b.mSize
         /\ b.mSize + Expand(b, count).mHead + count <= Len(Expand(b, count).mStorage)
         /\ Expand(b, count).mHead \in {0, b.mHead}
<1> DEFINE spare == Len(b.mStorage) - b.mSize
<1>1. Len(b.mStorage) \in Nat /\ b.mSize \in Nat /\ b.mHead \in Nat /\ b.mHead + b.mSize <= Len(b.mStorage)
  BY HoldsParts
<1>2. CASE spare <= count
  <2>1. Expand(b, count) = Moved(b, Len(b.mStorage) + count)
    BY <1>2 DEF Expand
  <2>2. Len(b.mStorage) + count \in Nat /\ b.mSize <= Len(b.mStorage) + count
    BY <1>1
  <2> QED
    BY <2>1, <2>2, <1>1, MovedHolds
<1>3. CASE ~(spare <= count) /\ spare - b.mHead < count
  <2>1. Expand(b, count) = Moved(b, Len(b.mStorage))
    BY <1>3 DEF Expand
  <2>2. b.mSize <= Len(b.mStorage) /\ b.mSize + 0 + count <= Len(b.mStorage)
    BY <1>1, <1>3
  <2> QED
    BY <2>1, <2>2, <1>1, MovedHolds
<1>4. CASE ~(spare <= count) /\ ~(spare - b.mHead < count)
  <2>1. Expand(b, count) = b
    BY <1>4 DEF Expand
  <2> QED
    BY <2>1, <1>1, <1>4
<1> QED
  BY <1>2, <1>3, <1>4

LEMMA ReserveHolds ==
  ASSUME NEW b, NEW c, Holds(b, c), NEW size \in Nat
  PROVE  /\ Holds(Reserve(b, size), c) /\ Reserve(b, size).mSize = b.mSize
         /\ Reserve(b, size).mHead \in {0, b.mHead}
<1>1. CASE b.mSize < size
  <2>1. size - b.mSize \in Nat /\ Reserve(b, size) = Expand(b, size - b.mSize)
    BY <1>1, HoldsParts DEF Reserve
  <2> QED
    BY <2>1, ExpandHolds
<1>2. CASE ~(b.mSize < size)
  BY <1>2 DEF Reserve
<1> QED
  BY <1>1, <1>2

LEMMA TidiedHolds ==
  ASSUME NEW b, NEW c, Holds(b, c)
  PROVE  Holds(Tidied(b), c)
<1>1. CASE b.mSize = 0
  <2>1. /\ b \in BufferType /\ b.mStorage \in Seq(Nat) /\ 0 \in Nat /\ b.mSize \in Nat
        /\ c \in Seq(Nat) /\ Len(c) = b.mSize /\ 0 + b.mSize <= Len(b.mStorage)
    BY <1>1, HoldsParts
  <2>2. Has(Tidied(b), b.mStorage, 0, b.mSize)
    BY <1>1, <2>1, Updated DEF Tidied
  <2>3. \A i \in 1 .. b.mSize : b.mStorage[0 + i] = c[i]
    BY <1>1
  <2> QED
    BY <2>1, <2>2, <2>3, HoldsMade
<1>2. CASE b.mSize # 0
  BY <1>2 DEF Tidied
<1> QED
  BY <1>1, <1>2

(* A buffer all of whose memory is the window. *)
LEMMA NewHolds ==
  ASSUME NEW s \in Seq(Nat), NEW a \in BOOLEAN
  PROVE  Holds([NewBuffer(s) EXCEPT !.mAdopted = a], s) /\ Holds(NewBuffer(s), s)
BY DEF Holds, BufferType, NewBuffer

LEMMA WindowIs == ASSUME NEW b, NEW c, Holds(b, c) PROVE Window(b) = c
<1>1. Len(Window(b)) = Len(c) /\ c \in Seq(Nat) /\ Window(b) \in Seq(Nat) /\ \A i \in 1 .. Len(c) : Window(b)[i] = c[i]
  BY WindowBytes, HoldsParts
<1> QED
  BY <1>1, SeqEqual

(***************************************************************************)
(* The operations                                                          *)
(***************************************************************************)
LEMMA CopyStep == BufferInv /\ (CopyConstruct \/ Adopt) => BufferInv'
<1>1. ASSUME BufferInv, CopyConstruct PROVE BufferInv'
  <2>1. Window(buf) = contents /\ contents \in Seq(Nat)
    BY <1>1, WindowIs, HoldsParts DEF BufferInv
  <2>2. /\ contents' = contents
        /\ buf' \in { [NewBuffer(contents) EXCEPT !.mAdopted = TRUE], NewBuffer(contents) }
    BY <1>1, <2>1 DEF CopyConstruct
  <2> QED
    BY <2>1, <2>2, NewHolds DEF BufferInv
<1>2. ASSUME BufferInv, Adopt PROVE BufferInv'
  BY <1>2, NewHolds, StringsType DEF Adopt, BufferInv
<1> QED
  BY <1>1, <1>2

LEMMA ResizeStep == BufferInv /\ Resize => BufferInv'
<1> SUFFICES ASSUME BufferInv, Resize PROVE BufferInv'
  OBVIOUS
<1>1. PICK size \in 0 .. MaxAllocation :
           IF size > Len(buf.mStorage)
           THEN LET b == Reserve(buf, size)
                IN  /\ buf' = [b EXCEPT !.mSize = Len(b.mStorage)]
                    /\ contents' = contents \o Zeros(Len(b.mStorage) - Len(contents))
           ELSE /\ size <= Len(contents) /\ size < Len(buf.mStorage)
                /\ buf' = [buf EXCEPT !.mSize = size]
                /\ contents' = SubSeq(contents, 1, size)
  BY DEF Resize
<1>2. size \in Nat /\ buf.mHead = 0
  BY DEF Resize
<1>3. CASE size > Len(buf.mStorage)
  <2> DEFINE n == Len(buf.mStorage) + (size - buf.mSize)
             b == Moved(buf, n)
  <2>1. /\ Len(buf.mStorage) \in Nat /\ buf.mSize \in Nat /\ buf.mSize <= Len(buf.mStorage)
        /\ buf.mSize = Len(contents) /\ contents \in Seq(Nat)
    BY <1>2, HoldsParts DEF BufferInv
  <2>2. n \in Nat /\ buf.mSize < size /\ buf.mSize <= n /\ Len(buf.mStorage) - buf.mSize <= size - buf.mSize
    BY <1>2, <1>3, <2>1
  <2>3. Reserve(buf, size) = b
    BY <2>2 DEF Reserve, Expand
  <2>4. Holds(b, contents) /\ b.mHead = 0 /\ Len(b.mStorage) = n /\ b.mSize = buf.mSize
    BY <2>2, MovedHolds DEF BufferInv
  <2>5. Window(buf) = contents
    BY WindowIs DEF BufferInv
  <2>6. b.mStorage = contents \o Zeros(n - buf.mSize)
    <3>1. buf \in BufferType
      BY HoldsParts DEF BufferInv
    <3> QED
      BY <2>5, <3>1 DEF Moved, BufferType
  <2> HIDE DEF b
  <2>7. buf' = [b EXCEPT !.mSize = n] /\ contents' = b.mStorage
    BY <1>1, <1>3, <2>1, <2>3, <2>4, <2>6, SMTT(30)
  <2> HIDE DEF n
  <2>8. b \in BufferType /\ b.mStorage \in Seq(Nat) /\ b.mHead = 0 /\ 0 \in Nat
    BY <2>4, HoldsParts
  <2>9. Has(buf', b.mStorage, 0, n)
    BY <2>2, <2>7, <2>8, Updated
  <2>10. 0 + n <= Len(b.mStorage) /\ \A i \in 1 .. n : b.mStorage[0 + i] = b.mStorage[i]
    BY <2>2, <2>4
  <2>11. Holds(buf', b.mStorage)
    BY <2>2, <2>4, <2>8, <2>9, <2>10, HoldsMade
  <2> QED
    BY <2>7, <2>11 DEF BufferInv
<1>4. CASE ~(size > Len(buf.mStorage))
  <2>1. /\ size <= Len(contents) /\ size < Len(buf.mStorage) /\ buf' = [buf EXCEPT !.mSize = size]
        /\ contents' = SubSeq(contents, 1, size) /\ contents \in Seq(Nat)
    BY <1>1, <1>4, HoldsParts DEF BufferInv
  <2>2. /\ contents' \in Seq(Nat) /\ Len(contents') = size
        /\ \A i \in 1 .. size : contents'[i] = contents[i]
    BY <1>2, <2>1
  <2>3. /\ buf.mStorage \in Seq(Nat) /\ Len(buf.mStorage) \in Nat /\ buf.mSize = Len(contents) /\ buf.mAdopted \in BOOLEAN
        /\ buf \in BufferType /\ buf.mHead = 0 /\ 0 \in Nat
        /\ \A i \in 1 .. buf.mSize : buf.mStorage[0 + i] = contents[i]
    BY <1>2, HoldsParts DEF BufferInv
  <2>4. Has(buf', buf.mStorage, 0, size)
    BY <1>2, <2>1, <2>3, Updated
  <2>5. 0 + size <= Len(buf.mStorage) /\ \A i \in 1 .. size : buf.mStorage[0 + i] = contents'[i]
    BY <1>2, <2>1, <2>2, <2>3, SMTT(30)
  <2>6. Holds(buf', contents')
    BY <1>2, <2>2, <2>3, <2>4, <2>5, HoldsMade
  <2> QED
    BY <2>6 DEF BufferInv
<1> QED
  BY <1>3, <1>4

LEMMA ReserveStep == BufferInv /\ (ReserveRoom \/ Clear) => BufferInv'
<1>1. ASSUME BufferInv, ReserveRoom PROVE BufferInv'
  BY <1>1, ReserveHolds DEF ReserveRoom, BufferInv
<1>2. ASSUME BufferInv, Clear PROVE BufferInv'
  <2>1. buf \in BufferType /\ buf.mStorage \in Seq(Nat) /\ 0 \in Nat /\ << >> \in Seq(Nat)
    BY <1>2, HoldsParts DEF BufferInv
  <2>2. buf' = [buf EXCEPT !.mSize = 0, !.mHead = 0] /\ contents' = << >>
    BY <1>2 DEF Clear
  <2>3. Has(buf', buf.mStorage, 0, 0)
    BY <2>1, <2>2, Updated
  <2>4. 0 + 0 <= Len(buf.mStorage) /\ Len(<< >>) = 0 /\ \A i \in 1 .. 0 : buf.mStorage[0 + i] = << >>[i]
    BY <2>1
  <2>5. Holds(buf', << >>)
    BY <2>1, <2>3, <2>4, HoldsMade
  <2> QED
    BY <2>2, <2>5 DEF BufferInv
<1> QED
  BY <1>1, <1>2

(* A copy of the whole of d at the beginning of the memory, or of larger memory. *)
LEMMA FilledHolds ==
  ASSUME BufferInv, NEW d \in Seq(Nat), NEW storage \in Seq(Nat), Len(d) <= Len(storage),
         buf' = [buf EXCEPT !.mStorage = Written(storage, 0, d), !.mHead = 0, !.mSize = Len(d)], contents' = d
  PROVE  BufferInv'
<1>1. /\ Written(storage, 0, d) \in Seq(Nat)
      /\ Len(Written(storage, 0, d)) = Len(storage)
      /\ \A i \in 1 .. Len(d) : Written(storage, 0, d)[0 + i] = d[i]
  <2> DEFINE s == Written(storage, 0, d)
  <2>1. HasWritten(s, storage, 0, d)
    BY 0 \in Nat, WrittenIs
  <2>2. \A i \in 1 .. Len(d) : 0 + i <= Len(storage)
    OBVIOUS
  <2> HIDE DEF s
  <2>3. s \in Seq(Nat) /\ Len(s) = Len(storage) /\ \A i \in 1 .. Len(d) : s[0 + i] = d[i]
    BY <2>1, <2>2 DEF HasWritten
  <2> QED
    BY <2>3 DEF s
<1>2. Has(buf', Written(storage, 0, d), 0, Len(d))
  <2>1. buf \in BufferType /\ 0 \in Nat /\ Len(d) \in Nat
    BY HoldsParts DEF BufferInv
  <2> QED
    BY <1>1, <2>1, Updated
<1>3. Holds(buf', d)
  <2>1. 0 \in Nat /\ Len(d) \in Nat /\ 0 + Len(d) <= Len(Written(storage, 0, d))
    BY <1>1
  <2> QED
    BY <1>1, <1>2, <2>1, HoldsMade
<1> QED
  BY <1>3 DEF BufferInv

LEMMA FillStep == BufferInv /\ FillWith => BufferInv'
<1> SUFFICES ASSUME BufferInv, FillWith PROVE BufferInv'
  OBVIOUS
<1>1. PICK size \in 0 .. MaxAllocation :
           LET storage == IF Len(buf.mStorage) < size THEN Zeros(size) ELSE buf.mStorage
               ones == [i \in 1 .. size |-> 1]
           IN  /\ buf' = [buf EXCEPT !.mStorage = Written(storage, 0, ones), !.mHead = 0, !.mSize = size]
               /\ contents' = ones
  BY DEF FillWith
<1> DEFINE storage == IF Len(buf.mStorage) < size THEN Zeros(size) ELSE buf.mStorage
           ones == [i \in 1 .. size |-> 1]
<1>2. size \in Nat /\ ones \in Seq(Nat) /\ Len(ones) = size
  OBVIOUS
<1>3. storage \in Seq(Nat) /\ size <= Len(storage)
  BY <1>2, ZerosType, HoldsParts DEF BufferInv
<1>4. buf' = [buf EXCEPT !.mStorage = Written(storage, 0, ones), !.mHead = 0, !.mSize = Len(ones)] /\ contents' = ones
  BY <1>1, <1>2
<1> HIDE DEF storage, ones
<1> QED
  BY <1>2, <1>3, <1>4, FilledHolds

LEMMA AssignStep == BufferInv /\ Assign => BufferInv'
<1> SUFFICES ASSUME BufferInv, Assign PROVE BufferInv'
  OBVIOUS
<1>1. PICK d \in Strings :
           LET storage == IF Len(buf.mStorage) < Len(d) THEN Zeros(Len(d)) ELSE buf.mStorage
           IN  /\ buf' = [buf EXCEPT !.mStorage = Written(storage, 0, d), !.mHead = 0, !.mSize = Len(d)]
               /\ contents' = d
  BY DEF Assign
<1> DEFINE storage == IF Len(buf.mStorage) < Len(d) THEN Zeros(Len(d)) ELSE buf.mStorage
<1>2. d \in Seq(Nat) /\ Len(d) \in Nat
  BY StringsType
<1>3. storage \in Seq(Nat) /\ Len(d) <= Len(storage)
  BY <1>2, ZerosType, HoldsParts DEF BufferInv
<1>4. buf' = [buf EXCEPT !.mStorage = Written(storage, 0, d), !.mHead = 0, !.mSize = Len(d)] /\ contents' = d
  BY <1>1
<1> HIDE DEF storage
<1> QED
  BY <1>2, <1>3, <1>4, FilledHolds

LEMMA LeastOfTwo == ASSUME NEW m \in Nat, NEW n \in Nat PROVE Min({m, n}) = IF m <= n THEN m ELSE n
BY DEF Min

(* What is taken from the head. *)
LEMMA ConsumeStep == BufferInv /\ Consume => BufferInv'
<1> SUFFICES ASSUME BufferInv, Consume PROVE BufferInv'
  OBVIOUS
<1>1. PICK n \in 0 .. MaxAllocation :
           /\ buf' = Tidied([buf EXCEPT !.mHead = @ + Min({n, buf.mSize}), !.mSize = @ - Min({n, buf.mSize})])
           /\ contents' = SubSeq(contents, n + 1, Len(contents))
  BY DEF Consume
<1> DEFINE count == Min({n, buf.mSize})
           b == [buf EXCEPT !.mHead = @ + count, !.mSize = @ - count]
           d == SubSeq(contents, n + 1, Len(contents))
<1>2. /\ n \in Nat /\ buf.mSize \in Nat /\ buf.mHead \in Nat /\ count = IF n <= buf.mSize THEN n ELSE buf.mSize
      /\ contents \in Seq(Nat) /\ Len(contents) = buf.mSize
  <2>1. n \in Nat /\ buf.mSize \in Nat
    BY HoldsParts DEF BufferInv
  <2> QED
    BY <2>1, LeastOfTwo, HoldsParts DEF BufferInv
<1> HIDE DEF count
<1>3. /\ d \in Seq(Nat) /\ Len(d) = buf.mSize - count
      /\ \A i \in 1 .. buf.mSize - count : d[i] = contents[count + i]
  <2>1. \A i \in n + 1 .. Len(contents) : contents[i] \in Nat
    BY <1>2
  <2>2. /\ d \in Seq(Nat)
        /\ Len(d) = IF n + 1 <= Len(contents) THEN Len(contents) - (n + 1) + 1 ELSE 0
        /\ \A i \in 1 .. Len(contents) - (n + 1) + 1 : d[i] = contents[n + 1 + i - 1]
    BY <1>2, <2>1, SubSeqProperties, SMTT(30)
  <2>3. Len(d) = buf.mSize - count
    BY <1>2, <2>2
  <2>4. ASSUME NEW i \in 1 .. buf.mSize - count PROVE d[i] = contents[count + i]
    <3>1. count = n /\ i \in 1 .. Len(contents) - (n + 1) + 1 /\ n + 1 + i - 1 = count + i
      BY <1>2, <2>4
    <3> QED
      BY <2>2, <3>1
  <2> QED
    BY <2>2, <2>3, <2>4
<1> HIDE DEF d
<1>4. Holds(b, d)
  <2>1. Has(b, buf.mStorage, buf.mHead + count, buf.mSize - count)
    <3>1. buf \in BufferType /\ buf.mStorage \in Seq(Nat)
      BY HoldsParts DEF BufferInv
    <3>2. buf.mHead + count \in Nat /\ buf.mSize - count \in Nat
      BY <1>2
    <3> QED
      BY <3>1, <3>2, Updated
  <2>2. /\ buf.mStorage \in Seq(Nat) /\ Len(buf.mStorage) \in Nat /\ buf.mAdopted \in BOOLEAN
        /\ buf.mHead + buf.mSize <= Len(buf.mStorage)
        /\ \A i \in 1 .. buf.mSize : buf.mStorage[buf.mHead + i] = contents[i]
    BY HoldsParts DEF BufferInv
  <2>3. buf.mHead + count \in Nat /\ buf.mSize - count \in Nat /\ buf.mHead + count + (buf.mSize - count) <= Len(buf.mStorage)
    BY <1>2, <2>2
  <2>4. \A i \in 1 .. buf.mSize - count : count + i \in 1 .. buf.mSize /\ buf.mHead + count + i = buf.mHead + (count + i)
    BY <1>2
  <2>5. \A i \in 1 .. buf.mSize - count : buf.mStorage[buf.mHead + count + i] = d[i]
    BY <1>3, <2>2, <2>4
  <2> QED
    BY <1>3, <2>1, <2>2, <2>3, <2>5, HoldsMade
<1> HIDE DEF b
<1> QED
  BY <1>1, <1>4, TidiedHolds DEF BufferInv, b, d, count

(* What is taken from the end. *)
LEMMA ShrinkStep == BufferInv /\ Shrink => BufferInv'
<1> SUFFICES ASSUME BufferInv, Shrink PROVE BufferInv'
  OBVIOUS
<1>1. PICK n \in 0 .. MaxAllocation :
           /\ buf' = Tidied([buf EXCEPT !.mSize = @ - Min({n, buf.mSize})])
           /\ contents' = SubSeq(contents, 1, Len(contents) - n)
  BY DEF Shrink
<1> DEFINE count == Min({n, buf.mSize})
           b == [buf EXCEPT !.mSize = @ - count]
           d == SubSeq(contents, 1, Len(contents) - n)
<1>2. /\ n \in Nat /\ buf.mSize \in Nat /\ buf.mHead \in Nat /\ count = IF n <= buf.mSize THEN n ELSE buf.mSize
      /\ contents \in Seq(Nat) /\ Len(contents) = buf.mSize
  <2>1. n \in Nat /\ buf.mSize \in Nat
    BY HoldsParts DEF BufferInv
  <2> QED
    BY <2>1, LeastOfTwo, HoldsParts DEF BufferInv
<1> HIDE DEF count
<1>3. /\ d \in Seq(Nat) /\ Len(d) = buf.mSize - count
      /\ \A i \in 1 .. buf.mSize - count : d[i] = contents[i]
  <2>1. \A i \in 1 .. Len(contents) - n : contents[i] \in Nat
    BY <1>2
  <2>2. /\ d \in Seq(Nat)
        /\ Len(d) = IF 1 <= Len(contents) - n THEN Len(contents) - n - 1 + 1 ELSE 0
        /\ \A i \in 1 .. Len(contents) - n - 1 + 1 : d[i] = contents[1 + i - 1]
    BY <1>2, <2>1, SubSeqProperties
  <2> QED
    BY <1>2, <2>2
<1> HIDE DEF d
<1>4. Holds(b, d)
  <2>1. Has(b, buf.mStorage, buf.mHead, buf.mSize - count)
    <3>1. buf \in BufferType /\ buf.mStorage \in Seq(Nat) /\ buf.mHead \in Nat
      BY HoldsParts DEF BufferInv
    <3>2. buf.mSize - count \in Nat
      BY <1>2
    <3> QED
      BY <3>1, <3>2, Updated
  <2>2. /\ buf.mStorage \in Seq(Nat) /\ Len(buf.mStorage) \in Nat /\ buf.mAdopted \in BOOLEAN
        /\ buf.mHead + buf.mSize <= Len(buf.mStorage)
        /\ \A i \in 1 .. buf.mSize : buf.mStorage[buf.mHead + i] = contents[i]
    BY HoldsParts DEF BufferInv
  <2>3. buf.mSize - count \in Nat /\ buf.mHead + (buf.mSize - count) <= Len(buf.mStorage)
    <3>1. count \in Nat /\ count <= buf.mSize
      BY <1>2
    <3> QED
      BY <1>2, <2>2, <3>1
  <2>4. \A i \in 1 .. buf.mSize - count : i \in 1 .. buf.mSize
    BY <1>2
  <2>5. \A i \in 1 .. buf.mSize - count : buf.mStorage[buf.mHead + i] = d[i]
    BY <1>3, <2>2, <2>4
  <2> QED
    BY <1>2, <1>3, <2>1, <2>2, <2>3, <2>5, HoldsMade
<1> HIDE DEF b
<1> QED
  BY <1>1, <1>4, TidiedHolds DEF BufferInv, b, d, count

(* The memory s of the size of storage holds e, of length n, from h on. *)
Grown(s, storage, h, e, n) ==
  /\ s \in Seq(Nat) /\ Len(s) = Len(storage) /\ e \in Seq(Nat) /\ Len(e) = n
  /\ \A i \in 1 .. n : s[h + i] = e[i]

(* The bytes of d behind those of c in the memory. *)
LEMMA AppendedBytes ==
  ASSUME NEW storage \in Seq(Nat), NEW h \in Nat, NEW n \in Nat, NEW c \in Seq(Nat), NEW d \in Seq(Nat),
         Len(c) = n, n + h + Len(d) <= Len(storage), \A i \in 1 .. n : storage[h + i] = c[i],
         NEW s, s = Written(storage, h + n, d), NEW e, e = c \o d
  PROVE  Grown(s, storage, h, e, n + Len(d))
<1>1. h + n \in Nat /\ Len(storage) \in Nat /\ Len(d) \in Nat
  OBVIOUS
<1>2. /\ s \in Seq(Nat) /\ Len(s) = Len(storage)
      /\ \A j \in 1 .. Len(d) : h + n + j <= Len(storage) => s[h + n + j] = d[j]
      /\ \A i \in 1 .. Len(storage) : (i <= h + n \/ h + n + Len(d) < i) => s[i] = storage[i]
  <2>1. HasWritten(s, storage, h + n, d)
    BY <1>1, WrittenIs
  <2> QED
    BY <2>1 DEF HasWritten
<1>3. /\ e \in Seq(Nat) /\ Len(e) = n + Len(d)
      /\ \A i \in 1 .. n + Len(d) : e[i] = IF i <= n THEN c[i] ELSE d[i - n]
  BY ConcatProperties
<1>4. ASSUME NEW i \in 1 .. n + Len(d), i <= n PROVE s[h + i] = e[i]
  <2> DEFINE a == Len(storage)
             b == Len(d)
  <2>1. a \in Nat /\ b \in Nat /\ n + h + b <= a /\ i \in 1 .. n + b /\ i <= n
    BY <1>1, <1>4
  <2> HIDE DEF a, b
  <2>2. h + i \in 1 .. a /\ h + i <= h + n /\ i \in 1 .. n
    BY <2>1
  <2>3. h + i \in 1 .. Len(storage) /\ h + i <= h + n /\ i \in 1 .. n
    BY <2>2 DEF a
  <2>4. e[i] = c[i]
    BY <1>3, <1>4
  <2>5. s[h + i] = storage[h + i]
    BY <1>2, <2>3
  <2> QED
    BY <2>3, <2>4, <2>5
<1>5. ASSUME NEW i \in 1 .. n + Len(d), ~(i <= n) PROVE s[h + i] = e[i]
  <2>1. i - n \in 1 .. Len(d) /\ h + n + (i - n) = h + i /\ h + n + (i - n) <= Len(storage)
    BY <1>1, <1>5
  <2>2. e[i] = d[i - n]
    BY <1>3, <1>5
  <2>3. s[h + n + (i - n)] = d[i - n]
    BY <1>2, <2>1
  <2> QED
    BY <2>1, <2>2, <2>3
<1> QED
  BY <1>2, <1>3, <1>4, <1>5 DEF Grown

(* The bytes of d in front of those of c, which are moved first. *)
LEMMA InsertedBytes ==
  ASSUME NEW storage \in Seq(Nat), NEW h \in Nat, NEW c \in Seq(Nat), NEW d \in Seq(Nat),
         Len(c) + h + Len(d) <= Len(storage),
         NEW shifted, shifted = Written(storage, h + Len(d), c), NEW s, s = Written(shifted, h, d),
         NEW e, e = d \o c
  PROVE  Grown(s, storage, h, e, Len(c) + Len(d))
<1>1. h + Len(d) \in Nat /\ Len(storage) \in Nat /\ Len(d) \in Nat /\ Len(c) \in Nat
  OBVIOUS
<1>2. /\ shifted \in Seq(Nat) /\ Len(shifted) = Len(storage)
      /\ \A j \in 1 .. Len(c) : h + Len(d) + j <= Len(storage) => shifted[h + Len(d) + j] = c[j]
  <2>1. HasWritten(shifted, storage, h + Len(d), c)
    BY <1>1, WrittenIs
  <2> QED
    BY <2>1 DEF HasWritten
<1>3. /\ s \in Seq(Nat) /\ Len(s) = Len(shifted)
      /\ \A j \in 1 .. Len(d) : h + j <= Len(shifted) => s[h + j] = d[j]
      /\ \A i \in 1 .. Len(shifted) : (i <= h \/ h + Len(d) < i) => s[i] = shifted[i]
  <2>1. HasWritten(s, shifted, h, d)
    BY <1>2, WrittenIs
  <2> QED
    BY <2>1 DEF HasWritten
<1>4. /\ e \in Seq(Nat) /\ Len(e) = Len(d) + Len(c)
      /\ \A i \in 1 .. Len(d) + Len(c) : e[i] = IF i <= Len(d) THEN d[i] ELSE c[i - Len(d)]
  BY ConcatProperties
<1>5. ASSUME NEW i \in 1 .. Len(c) + Len(d), i <= Len(d) PROVE s[h + i] = e[i]
  <2>1. i \in 1 .. Len(d) /\ i \in 1 .. Len(d) + Len(c) /\ h + i <= Len(shifted)
    BY <1>1, <1>2, <1>5, SMTT(30)
  <2> QED
    BY <1>3, <1>4, <1>5, <2>1
<1>6. ASSUME NEW i \in 1 .. Len(c) + Len(d), ~(i <= Len(d)) PROVE s[h + i] = e[i]
  <2>1. /\ i - Len(d) \in 1 .. Len(c) /\ h + Len(d) + (i - Len(d)) = h + i
        /\ h + Len(d) + (i - Len(d)) <= Len(storage) /\ i \in 1 .. Len(d) + Len(c)
        /\ h + i \in 1 .. Len(shifted) /\ h + Len(d) < h + i
    <3>1. i \in Nat /\ 1 <= i /\ i <= Len(c) + Len(d) /\ Len(d) < i /\ Len(shifted) = Len(storage)
      BY <1>1, <1>2, <1>6, SMTT(30)
    <3> QED
      BY <1>1, <3>1
  <2>2. e[i] = c[i - Len(d)]
    BY <1>4, <1>6, <2>1
  <2>3. shifted[h + Len(d) + (i - Len(d))] = c[i - Len(d)]
    BY <1>2, <2>1
  <2>4. s[h + i] = shifted[h + i]
    BY <1>3, <2>1
  <2> QED
    BY <2>1, <2>2, <2>3, <2>4
<1>7. Len(e) = Len(c) + Len(d) /\ Len(s) = Len(storage)
  BY <1>1, <1>2, <1>3, <1>4
<1> QED
  BY <1>3, <1>4, <1>5, <1>6, <1>7 DEF Grown

(* A buffer with d in it as well. *)
LEMMA GrownHolds ==
  ASSUME NEW b, NEW c, Holds(b, c), NEW s \in Seq(Nat), NEW e \in Seq(Nat), NEW n \in Nat,
         Len(s) = Len(b.mStorage), Len(e) = b.mSize + n, b.mSize + b.mHead + n <= Len(b.mStorage),
         \A i \in 1 .. b.mSize + n : s[b.mHead + i] = e[i]
  PROVE  Holds([b EXCEPT !.mStorage = s, !.mSize = @ + n], e)
<1>1. b \in BufferType /\ b.mHead \in Nat /\ b.mSize \in Nat /\ b.mStorage \in Seq(Nat)
  BY HoldsParts
<1>2. b.mSize + n \in Nat /\ b.mHead + (b.mSize + n) <= Len(s)
  BY <1>1
<1>3. Has([b EXCEPT !.mStorage = s, !.mSize = @ + n], s, b.mHead, b.mSize + n)
  BY <1>1, <1>2, Updated
<1> QED
  BY <1>1, <1>2, <1>3, HoldsMade

LEMMA AppendStep == BufferInv /\ AppendBytes => BufferInv'
<1> SUFFICES ASSUME BufferInv, AppendBytes PROVE BufferInv'
  OBVIOUS
<1>1. PICK d \in Strings :
           LET b == Expand(buf, Len(d))
           IN  /\ buf' = [b EXCEPT !.mStorage = Written(b.mStorage, b.mHead + b.mSize, d), !.mSize = @ + Len(d)]
               /\ contents' = contents \o d
  BY DEF AppendBytes
<1> DEFINE b == Expand(buf, Len(d))
<1>2. d \in Seq(Nat) /\ Len(d) \in Nat
  BY StringsType
<1>3. Holds(b, contents) /\ b.mSize + b.mHead + Len(d) <= Len(b.mStorage)
  BY <1>2, ExpandHolds DEF BufferInv
<1> DEFINE s == Written(b.mStorage, b.mHead + b.mSize, d)
<1>4. buf' = [b EXCEPT !.mStorage = s, !.mSize = @ + Len(d)] /\ contents' = contents \o d
  BY <1>1
<1> HIDE DEF b
<1>5. /\ b.mStorage \in Seq(Nat) /\ b.mHead \in Nat /\ b.mSize \in Nat
      /\ contents \in Seq(Nat) /\ Len(contents) = b.mSize
      /\ \A i \in 1 .. b.mSize : b.mStorage[b.mHead + i] = contents[i]
  BY <1>3, HoldsParts
<1> DEFINE st == b.mStorage
           h == b.mHead
           n == b.mSize
           e == contents'
<1>6. /\ s \in Seq(Nat) /\ Len(s) = Len(b.mStorage)
      /\ contents' \in Seq(Nat) /\ Len(contents') = b.mSize + Len(d)
      /\ \A i \in 1 .. b.mSize + Len(d) : s[b.mHead + i] = contents'[i]
  <2>1. /\ s = Written(st, h + n, d) /\ e = contents \o d /\ n + h + Len(d) <= Len(st)
        /\ st \in Seq(Nat) /\ h \in Nat /\ n \in Nat /\ contents \in Seq(Nat) /\ Len(contents) = n
        /\ \A i \in 1 .. n : st[h + i] = contents[i]
    BY <1>3, <1>4, <1>5
  <2> HIDE DEF s, st, h, n, e
  <2>2. Grown(s, st, h, e, n + Len(d))
    BY <1>2, <2>1, AppendedBytes
  <2> QED
    BY <2>2 DEF st, h, n, e, Grown
<1> HIDE DEF s
<1>7. Holds(buf', contents')
  BY <1>2, <1>3, <1>4, <1>6, GrownHolds
<1> QED
  BY <1>7 DEF BufferInv

(* The window is moved to make room in front of it. *)
LEMMA InsertStep == BufferInv /\ Insert => BufferInv'
<1> SUFFICES ASSUME BufferInv, Insert PROVE BufferInv'
  OBVIOUS
<1>1. PICK d \in Strings :
           LET b == Expand(buf, Len(d))
               shifted == Written(b.mStorage, b.mHead + Len(d), Window(b))
           IN  /\ buf' = [b EXCEPT !.mStorage = Written(shifted, b.mHead, d), !.mSize = @ + Len(d)]
               /\ contents' = d \o contents
  BY DEF Insert
<1> DEFINE b == Expand(buf, Len(d))
           s == Written(Written(b.mStorage, b.mHead + Len(d), contents), b.mHead, d)
<1>2. d \in Seq(Nat) /\ Len(d) \in Nat
  BY StringsType
<1>3. Holds(b, contents) /\ b.mSize + b.mHead + Len(d) <= Len(b.mStorage)
  BY <1>2, ExpandHolds DEF BufferInv
<1>4. Window(b) = contents
  BY <1>3, WindowIs
<1>5. buf' = [b EXCEPT !.mStorage = s, !.mSize = @ + Len(d)] /\ contents' = d \o contents
  BY <1>1, <1>4
<1> HIDE DEF b
<1>6. /\ b.mStorage \in Seq(Nat) /\ b.mHead \in Nat /\ b.mSize \in Nat
      /\ contents \in Seq(Nat) /\ Len(contents) = b.mSize
  BY <1>3, HoldsParts
<1>7. /\ s \in Seq(Nat) /\ Len(s) = Len(b.mStorage)
      /\ contents' \in Seq(Nat) /\ Len(contents') = b.mSize + Len(d)
      /\ \A i \in 1 .. b.mSize + Len(d) : s[b.mHead + i] = contents'[i]
  <2> DEFINE st == b.mStorage
             h == b.mHead
             e == contents'
             shifted == Written(st, h + Len(d), contents)
  <2>1. /\ s = Written(shifted, h, d) /\ shifted = Written(st, h + Len(d), contents) /\ e = d \o contents
        /\ Len(contents) + h + Len(d) <= Len(st) /\ st \in Seq(Nat) /\ h \in Nat /\ contents \in Seq(Nat)
    BY <1>3, <1>5, <1>6
  <2> HIDE DEF s, st, h, e, shifted
  <2>2. Grown(s, st, h, e, Len(contents) + Len(d))
    BY <1>2, <2>1, InsertedBytes
  <2> QED
    BY <1>6, <2>2 DEF st, h, e, Grown
<1> HIDE DEF s
<1>8. Holds(buf', contents')
  BY <1>2, <1>3, <1>5, <1>7, GrownHolds
<1> QED
  BY <1>8 DEF BufferInv

LEMMA RangeStep == BufferInv /\ RangeOf => BufferInv'
<1> SUFFICES ASSUME BufferInv, RangeOf PROVE BufferInv'
  OBVIOUS
<1>1. buf.mSize \in Nat /\ buf.mHead \in Nat /\ contents \in Seq(Nat) /\ Len(contents) = buf.mSize
  BY HoldsParts DEF BufferInv
<1>2. PICK index \in 0 .. buf.mSize - 1 : \E size \in 0 .. buf.mSize - index :
               /\ buf' = NewBuffer(SubSeq(buf.mStorage, buf.mHead + index + 1, buf.mHead + index + size))
               /\ contents' = SubSeq(contents, index + 1, index + size)
  BY DEF RangeOf
<1>3. PICK size \in 0 .. buf.mSize - index :
               /\ buf' = NewBuffer(SubSeq(buf.mStorage, buf.mHead + index + 1, buf.mHead + index + size))
               /\ contents' = SubSeq(contents, index + 1, index + size)
  BY <1>2
<1> DEFINE s == SubSeq(buf.mStorage, buf.mHead + index + 1, buf.mHead + index + size)
           d == SubSeq(contents, index + 1, index + size)
<1>4. /\ d \in Seq(Nat) /\ Len(d) = size /\ \A i \in 1 .. size : d[i] = contents[index + i]
  <2>1. \A i \in index + 1 .. index + size : contents[i] \in Nat
    BY <1>1
  <2>2. /\ d \in Seq(Nat)
        /\ Len(d) = IF index + 1 <= index + size THEN index + size - (index + 1) + 1 ELSE 0
        /\ \A i \in 1 .. index + size - (index + 1) + 1 : d[i] = contents[index + 1 + i - 1]
    BY <2>1, SubSeqProperties, SMTT(30)
  <2>3. index \in Nat /\ size \in Nat
    BY <1>1
  <2>4. /\ (IF index + 1 <= index + size THEN index + size - (index + 1) + 1 ELSE 0) = size
        /\ index + size - (index + 1) + 1 = size /\ \A i \in 1 .. size : index + 1 + i - 1 = index + i
    BY <2>3
  <2> HIDE DEF d
  <2> QED
    BY <2>2, <2>4
<1>5. /\ s \in Seq(Nat) /\ Len(s) = size /\ \A i \in 1 .. size : s[i] = buf.mStorage[buf.mHead + index + i]
  <2> DEFINE m == buf.mHead + index + 1
             n == buf.mHead + index + size
  <2>1. m \in Int /\ n \in Int /\ \A i \in m .. n : buf.mStorage[i] \in Nat
    <3>1. /\ buf.mHead + buf.mSize <= Len(buf.mStorage) /\ Len(buf.mStorage) \in Nat
          /\ \A i \in 1 .. Len(buf.mStorage) : buf.mStorage[i] \in Nat
      BY HoldsParts DEF BufferInv
    <3>2. index \in Nat /\ size \in Nat /\ index + size <= buf.mSize
      BY <1>1
    <3>3. m \in Int /\ n \in Int /\ 1 <= m /\ n <= Len(buf.mStorage)
      <4> PICK h, k, z, e : h = buf.mHead /\ k = index /\ z = size /\ e = Len(buf.mStorage)
        OBVIOUS
      <4>1. h \in Nat /\ k \in Nat /\ z \in Nat /\ e \in Nat
        BY <1>1, <3>1, <3>2
      <4>2. h + (k + z) <= e
        BY <1>1, <3>1, <3>2, SMTT(30)
      <4>3. h + k + 1 \in Int /\ h + k + z \in Int /\ 1 <= h + k + 1 /\ h + k + z <= e
        BY <4>1, <4>2
      <4> QED
        BY <4>3
    <3> HIDE DEF m, n
    <3> QED
      BY <3>1, <3>3
  <2>2. /\ s \in Seq(Nat) /\ Len(s) = IF m <= n THEN n - m + 1 ELSE 0
        /\ \A i \in 1 .. n - m + 1 : s[i] = buf.mStorage[m + i - 1]
    BY <2>1, SubSeqProperties
  <2>3. /\ (IF m <= n THEN n - m + 1 ELSE 0) = size /\ n - m + 1 = size
        /\ \A i \in 1 .. size : m + i - 1 = buf.mHead + index + i
    BY <1>1, SMTT(30)
  <2> HIDE DEF s, m, n
  <2> QED
    BY <2>2, <2>3
<1>6. \A i \in 1 .. size : s[i] = d[i]
  <2>1. \A i \in 1 .. size : index + i \in 1 .. buf.mSize /\ buf.mHead + index + i = buf.mHead + (index + i)
    BY <1>1, SMTT(30)
  <2>2. \A i \in 1 .. buf.mSize : buf.mStorage[buf.mHead + i] = contents[i]
    BY HoldsParts DEF BufferInv
  <2> HIDE DEF s, d
  <2> QED
    BY <1>4, <1>5, <2>1, <2>2, SMTT(30)
<1>7. s = d
  BY <1>4, <1>5, <1>6, SeqEqual
<1> HIDE DEF s, d
<1> QED
  BY <1>3, <1>4, <1>7, NewHolds DEF BufferInv, s, d

(***************************************************************************)
(* The buffer                                                              *)
(***************************************************************************)
LEMMA BufferStart == BufferInit => BufferInv
<1> SUFFICES ASSUME NEW d \in Strings, buf = NewBuffer(d), contents = d PROVE BufferInv
  BY DEF BufferInit
<1> QED
  BY NewHolds, StringsType DEF BufferInv

LEMMA BufferStep == BufferInv /\ [BufferNext]_bufferVars => BufferInv'
<1>1. BufferInv /\ UNCHANGED bufferVars => BufferInv'
  BY DEF BufferInv, bufferVars
<1> QED
  BY <1>1, CopyStep, ResizeStep, ReserveStep, FillStep, AssignStep, ConsumeStep, ShrinkStep, AppendStep,
     InsertStep, RangeStep DEF BufferNext

(* The inductive invariant, for any bytes and any sequence of operations (libgenBuffer.h). *)
THEOREM BufferInvariant == BufferSpec => []BufferInv
BY BufferStart, BufferStep, PTL DEF BufferSpec

(* Whatever is written and however the memory is moved, reused or replaced, the window
   holds what was written less what was taken, for any bytes (libgenBuffer.h). *)
THEOREM BufferAlwaysQueue == BufferSpec => []BufferIsQueue
<1>1. BufferInv => BufferIsQueue
  BY WindowIs, HoldsParts DEF BufferInv, BufferIsQueue
<1> QED
  BY <1>1, BufferInvariant, PTL

HIDE BufferAssumption DEF mAllocation

-----------------------------------------------------------------------------
(***************************************************************************)
(* RtmpDelivery.  For any sizes of chunks, lengths of messages and numbers *)
(* of streams.  What a client becomes with some chunks is a run of Take:   *)
(* runs of two lots are put together, and one of a message is written down *)
(* chunk by chunk.  A recursive function is such a run, by the least chunk *)
(* at which they would differ.                                             *)
(***************************************************************************)

USE DeliveryAssumption

(* The least of a set of naturals. *)
LEMMA Least == ASSUME NEW S \in SUBSET Nat, S # {} PROVE \E n \in S : \A m \in S : n <= m
<1> DEFINE R == OpToRel(<, Nat)
<1>1. IsWellFoundedOn(R, Nat)
  BY NatLessThanWellFounded
<1>2. \A x, y \in Nat : x < y => << x, y >> \in R
  BY DEF OpToRel
<1> HIDE DEF R
<1>3. PICK n \in S : \A m \in S : ~(<< m, n >> \in R)
  BY <1>1, WFMin
<1>4. \A m \in S : ~(m < n)
  BY <1>2, <1>3
<1> QED
  BY <1>4

LEMMA SentIs ==
    ASSUME NEW chunks \in Seq(Chunks), NEW l, Takes(client, chunks, l), send(chunks)
    PROVE  client' = l
<1> DEFINE n == Len(chunks)
<1>1. PICK steps \in [0 .. n -> Clients] :
          /\ steps[0] = client /\ steps[n] = l
          /\ \A i \in 1 .. n : steps[i] = Take(steps[i - 1], chunks[i])
  BY DEF Takes
<1> DEFINE Then(f) == [i \in 0 .. n |-> IF i = 0 THEN client ELSE Take(f[i - 1], chunks[i])]
           after == CHOOSE f : f = Then(f)
<1>2. client' = after[n]
  BY DEF send
<1>3. n \in Nat
  BY LenProperties
<1> HIDE DEF n
<1>4. steps = Then(steps)
  BY <1>1, <1>3
<1>5. after = Then(after)
  BY <1>4
<1>6. DOMAIN after = 0 .. n /\ \A i \in 0 .. n : after[i] = IF i = 0 THEN client ELSE Take(after[i - 1], chunks[i])
  BY <1>5
<1> HIDE DEF after, Then
<1>7. ASSUME NEW bad \in 0 .. n, after[bad] # steps[bad] PROVE FALSE
  <2> DEFINE Bad == { i \in 0 .. n : after[i] # steps[i] }
  <2>1. Bad \in SUBSET Nat /\ Bad # {}
    BY <1>3, <1>7
  <2>2. PICK i \in Bad : \A j \in Bad : i <= j
    BY <2>1, Least
  <2>3. i # 0
    BY <1>1, <1>3, <1>6
  <2>4. i \in 1 .. n /\ i - 1 \in 0 .. n /\ ~(i <= i - 1)
    BY <1>3, <2>3
  <2>5. after[i - 1] = steps[i - 1]
    BY <2>2, <2>4
  <2>6. after[i] = Take(after[i - 1], chunks[i])
    BY <1>6, <2>3, <2>4
  <2> QED
    BY <1>1, <2>4, <2>5, <2>6
<1>8. after[n] = steps[n]
  BY <1>3, <1>7
<1> QED
  BY <1>1, <1>2, <1>8

-----------------------------------------------------------------------------
(* Runs *)

LEMMA TakesNothing == ASSUME NEW k \in Clients PROVE Takes(k, << >>, k)
<1> DEFINE after == [i \in 0 .. 0 |-> k]
           none == << >>
<1>1. after \in [0 .. 0 -> Clients] /\ after[0] = k
  OBVIOUS
<1>2. Len(none) = 0
  OBVIOUS
<1> HIDE DEF after, none
<1>3. \A i \in 1 .. 0 : after[i] = Take(after[i - 1], none[i])
  OBVIOUS
<1>4. Takes(k, none, k)
  BY <1>1, <1>2, <1>3 DEF Takes
<1> QED
  BY <1>4 DEF none

LEMMA TakesOne ==
    ASSUME NEW k \in Clients, NEW chunk \in Chunks, NEW l \in Clients, l = Take(k, chunk)
    PROVE  Takes(k, << chunk >>, l)
<1> DEFINE chunks == << chunk >>
           after == [i \in 0 .. 1 |-> IF i = 0 THEN k ELSE l]
<1>1. Len(chunks) = 1 /\ chunks[1] = chunk
  OBVIOUS
<1>2. after \in [0 .. 1 -> Clients] /\ after[0] = k /\ after[1] = l
  OBVIOUS
<1> HIDE DEF chunks, after
<1>3. \A i \in 1 .. 1 : after[i] = Take(after[i - 1], chunks[i])
  BY <1>1, <1>2
<1>4. Takes(k, chunks, l)
  BY <1>1, <1>2, <1>3 DEF Takes
<1> QED
  BY <1>4 DEF chunks

LEMMA TakesBoth ==
    ASSUME NEW s \in Seq(Chunks), NEW t \in Seq(Chunks), NEW k, NEW l, NEW m, Takes(k, s, l), Takes(l, t, m)
    PROVE  Takes(k, s \o t, m)
<1> DEFINE a == Len(s)
           b == Len(t)
           both == s \o t
<1>1. PICK f \in [0 .. a -> Clients] : f[0] = k /\ f[a] = l /\ \A i \in 1 .. a : f[i] = Take(f[i - 1], s[i])
  BY DEF Takes
<1>2. PICK g \in [0 .. b -> Clients] : g[0] = l /\ g[b] = m /\ \A i \in 1 .. b : g[i] = Take(g[i - 1], t[i])
  BY DEF Takes
<1>3. /\ both \in Seq(Chunks) /\ Len(both) = a + b /\ a \in Nat /\ b \in Nat
      /\ \A i \in 1 .. a + b : both[i] = IF i <= a THEN s[i] ELSE t[i - a]
  BY ConcatProperties, LenProperties
<1> HIDE DEF a, b, both
<1> DEFINE after == [i \in 0 .. a + b |-> IF i <= a THEN f[i] ELSE g[i - a]]
<1>4. after \in [0 .. a + b -> Clients]
  <2> SUFFICES ASSUME NEW i \in 0 .. a + b PROVE (IF i <= a THEN f[i] ELSE g[i - a]) \in Clients
    OBVIOUS
  <2>1. i <= a => i \in 0 .. a
    BY <1>3
  <2>2. ~(i <= a) => i - a \in 0 .. b
    BY <1>3
  <2> QED
    BY <1>1, <1>2, <2>1, <2>2
<1>5. \A i \in 0 .. a + b : after[i] = IF i <= a THEN f[i] ELSE g[i - a]
  OBVIOUS
<1> HIDE DEF after
<1>6. after[0] = k /\ after[a + b] = m
  <2>1. after[0] = f[0]
    <3>1. 0 \in 0 .. a + b /\ 0 <= a
      BY <1>3
    <3> QED
      BY <1>5, <3>1
  <2>2. after[a + b] = IF b = 0 THEN f[a] ELSE g[b]
    <3>1. a + b \in 0 .. a + b /\ (a + b <= a <=> b = 0) /\ a + b - a = b /\ (b = 0 => a + b = a)
      BY <1>3
    <3> DEFINE e == a + b
    <3>2. after[e] = IF e <= a THEN f[e] ELSE g[e - a]
      <4>1. e \in 0 .. a + b
        BY <3>1
      <4> HIDE DEF e
      <4> QED
        BY <1>5, <4>1
    <3>3. (e <= a <=> b = 0) /\ e - a = b /\ (b = 0 => e = a)
      BY <1>3
    <3> HIDE DEF e
    <3>4. after[e] = IF b = 0 THEN f[a] ELSE g[b]
      BY <3>2, <3>3
    <3> QED
      BY <3>4 DEF e
  <2> QED
    BY <1>1, <1>2, <2>1, <2>2
<1>7. ASSUME NEW i \in 1 .. a + b PROVE after[i] = Take(after[i - 1], both[i])
  <2>1. i \in Nat /\ i - 1 \in 0 .. a + b /\ i \in 0 .. a + b
    BY <1>3
  <2>2. CASE i <= a
    <3>1. i \in 1 .. a /\ i - 1 <= a
      BY <1>3, <2>1, <2>2
    <3>2. after[i] = f[i] /\ after[i - 1] = f[i - 1] /\ both[i] = s[i]
      BY <1>3, <1>5, <2>1, <2>2, <3>1
    <3> QED
      BY <1>1, <3>1, <3>2
  <2>3. CASE ~(i <= a)
    <3>1. i - a \in 1 .. b /\ (i - a) - 1 = (i - 1) - a
      BY <1>3, <2>1, <2>3
    <3>2. after[i] = g[i - a] /\ both[i] = t[i - a]
      BY <1>3, <1>5, <2>1, <2>3
    <3>3. after[i - 1] = g[(i - a) - 1]
      <4>1. CASE i - 1 <= a
        <5>1. i - 1 = a
          BY <1>3, <2>1, <2>3, <4>1
        <5>2. (i - a) - 1 = 0 /\ after[i - 1] = f[a]
          BY <1>3, <1>5, <2>1, <5>1
        <5> QED
          BY <1>1, <1>2, <5>2
      <4>2. CASE ~(i - 1 <= a)
        BY <1>5, <2>1, <3>1, <4>2
      <4> QED
        BY <4>1, <4>2
    <3> QED
      BY <1>2, <3>1, <3>2, <3>3
  <2> QED
    BY <2>2, <2>3
<1>8. Takes(k, both, m)
  BY <1>3, <1>4, <1>6, <1>7 DEF Takes
<1> QED
  BY <1>8 DEF both

-----------------------------------------------------------------------------
(* The chunks of a message *)

(* How many pieces of a size there are. *)
LEMMA Pieces ==
    ASSUME NEW len \in Nat \ {0}, NEW size \in Nat \ {0}
    PROVE  LET n == (len + size - 1) \div size IN
           /\ n \in Nat \ {0}
           /\ (n - 1) * size < len /\ len <= (n - 1) * size + size
           /\ \A i \in 1 .. n - 1 : (i - 1) * size + size < len
<1> DEFINE n == (len + size - 1) \div size
           x == len + size - 1
           r == x % size
<1>1. x \in Nat /\ x >= size
  OBVIOUS
<1> HIDE DEF x
<1>2. x \div size \in Nat /\ x % size \in 0 .. size - 1 /\ x = size * (x \div size) + (x % size)
  BY <1>1
<1>3. n \in Nat /\ r \in 0 .. size - 1 /\ x = size * n + r
  BY <1>2 DEF x
<1> HIDE DEF n, r
<1>4. n # 0
  BY <1>1, <1>3
<1> DEFINE b == n - 1
<1>5. b \in Nat /\ n = b + 1
  BY <1>3, <1>4
<1>6. size * n = size * b + size /\ size * b = b * size /\ b * size \in Nat
  BY <1>5
<1>7. b * size < len /\ len <= b * size + size
  BY <1>3, <1>6 DEF x
<1>8. ASSUME NEW i \in 1 .. b PROVE (i - 1) * size + size < len
  <2>1. b - i \in Nat /\ b = i + (b - i)
    BY <1>5
  <2>2. b * size = i * size + (b - i) * size /\ (b - i) * size \in Nat /\ (i - 1) * size + size = i * size /\ i * size \in Nat
    BY <2>1
  <2> QED
    BY <1>6, <1>7, <2>2
<1> QED
  BY <1>3, <1>4, <1>7, <1>8 DEF n

\* A client that is in a message of which rest is to come.
Midway(k, c, m, rest) ==
    [size |-> IF rest = 0 /\ m.is = "Set Chunk Size" THEN Large ELSE k.size,
     open |-> [k.open EXCEPT ![c] = IF rest = 0 THEN Nothing ELSE m],
     left |-> [k.left EXCEPT ![c] = rest],
     sid |-> [k.sid EXCEPT ![c] = m.sid],
     wrong |-> k.wrong]

LEMMA MidwayIsClient ==
    ASSUME NEW k \in Clients, NEW c \in ChunkStreams, NEW m \in ChunkedMessages, NEW rest \in Nat
    PROVE  /\ Midway(k, c, m, rest) \in Clients
           /\ Midway(k, c, m, rest).open[c] = (IF rest = 0 THEN Nothing ELSE m)
           /\ Midway(k, c, m, rest).left[c] = rest /\ Midway(k, c, m, rest).sid[c] = m.sid
           /\ Midway(k, c, m, rest).wrong = k.wrong
           /\ Midway(k, c, m, rest).size = IF rest = 0 /\ m.is = "Set Chunk Size" THEN Large ELSE k.size
           /\ \A d \in ChunkStreams \ {c} : /\ Midway(k, c, m, rest).open[d] = k.open[d]
                                            /\ Midway(k, c, m, rest).sid[d] = k.sid[d]
  BY DEF Midway, Clients, ChunkedMessages

\* What that says of a client in a video message.
IsMidway(k, l, m, rest) ==
    /\ l \in Clients /\ l.open[CONTROL] = (IF rest = 0 THEN Nothing ELSE m)
    /\ l.left[CONTROL] = rest /\ l.sid[CONTROL] = m.sid /\ l.wrong = k.wrong /\ l.size = k.size
    /\ \A d \in ChunkStreams \ {CONTROL} : l.open[d] = k.open[d]

LEMMA MidwayInVideo ==
    ASSUME NEW k \in Clients, NEW m \in ChunkedMessages, m.is = "video", NEW rest \in Nat
    PROVE  IsMidway(k, Midway(k, CONTROL, m, rest), m, rest)
<1> DEFINE l == Midway(k, CONTROL, m, rest)
<1>1. CONTROL \in ChunkStreams /\ m.is # "Set Chunk Size"
  BY DEF ChunkStreams
<1>2. Midway(k, CONTROL, m, rest) \in Clients
  BY <1>1, MidwayIsClient
<1>3. l \in Clients
  BY <1>2
<1>4. /\ l.open = [k.open EXCEPT ![CONTROL] = IF rest = 0 THEN Nothing ELSE m]
      /\ l.left = [k.left EXCEPT ![CONTROL] = rest] /\ l.sid = [k.sid EXCEPT ![CONTROL] = m.sid]
      /\ l.wrong = k.wrong /\ l.size = k.size
  BY <1>1 DEF Midway
<1>5. DOMAIN k.open = ChunkStreams /\ DOMAIN k.left = ChunkStreams /\ DOMAIN k.sid = ChunkStreams
  BY DEF Clients
<1> HIDE DEF l
<1>6. IsMidway(k, l, m, rest)
  BY <1>1, <1>3, <1>4, <1>5 DEF IsMidway
<1> QED
  BY <1>6 DEF l

LEMMA SomeMessage == \A m \in ChunkedMessages : m # Nothing
<1> SUFFICES ASSUME NEW m \in ChunkedMessages, m = Nothing PROVE FALSE
  OBVIOUS
<1>1. m.is # "nothing"
  BY DEF ChunkedMessages
<1>2. Nothing.is = "nothing"
  BY DEF Nothing
<1> QED
  BY <1>1, <1>2

\* A chunk of a message.
Piece(type, c, m, n) == [type |-> type, chunk |-> c, msg |-> m, len |-> n]

LEMMA FirstTaken ==
    ASSUME NEW k \in Clients, NEW c \in ChunkStreams, NEW m \in ChunkedMessages, ~k.wrong, k.open[c] = Nothing,
           NEW n \in Nat, n = Min({k.size, m.len}), n <= m.len,
           NEW type \in {0, 1}, type = 1 => k.sid[c] = m.sid
    PROVE  Take(k, Piece(type, c, m, n)) = Midway(k, c, m, m.len - n)
<1> DEFINE chunk == Piece(type, c, m, n)
           rest == m.len - n
<1>1. chunk.type = type /\ chunk.chunk = c /\ chunk.msg = m /\ chunk.len = n
  BY DEF Piece
<1> HIDE DEF chunk
<1>2. Understood(k, chunk)
  BY <1>1 DEF Understood
<1>3. Take(k, chunk) =
          [k EXCEPT !.open[c] = IF rest = 0 THEN Nothing ELSE m,
                    !.left[c] = rest,
                    !.sid[c] = IF type = 0 THEN m.sid ELSE @,
                    !.size = IF rest = 0 /\ m.is = "Set Chunk Size" THEN Large ELSE @]
  <2>1. ~(k.wrong \/ ~Understood(k, chunk))
    BY <1>2
  <2>2. m.len - n = (IF chunk.type = 3 THEN k.left[chunk.chunk] ELSE chunk.msg.len) - chunk.len
    BY <1>1
  <2> QED
    BY <1>1, <2>1, <2>2, Zenon DEF Take
<1> HIDE DEF rest
<1>4. [k.sid EXCEPT ![c] = IF type = 0 THEN m.sid ELSE @] = [k.sid EXCEPT ![c] = m.sid]
  OBVIOUS
<1>5. Take(k, chunk) = Midway(k, c, m, rest)
  BY <1>3, <1>4 DEF Midway, Clients
<1> QED
  BY <1>5 DEF chunk, rest

LEMMA NextTaken ==
    ASSUME NEW k \in Clients, NEW c \in ChunkStreams, NEW m \in ChunkedMessages, ~k.wrong, NEW rest \in Nat \ {0},
           NEW n \in Nat, n = Min({k.size, rest}), n <= rest
    PROVE  Take(Midway(k, c, m, rest), Piece(3, c, m, n)) = Midway(k, c, m, rest - n)
<1> DEFINE chunk == Piece(3, c, m, n)
           j == Midway(k, c, m, rest)
           left == rest - n
<1>1. chunk.type = 3 /\ chunk.chunk = c /\ chunk.msg = m /\ chunk.len = n
  BY DEF Piece
<1>2. j \in Clients /\ j.open[c] = m /\ j.left[c] = rest /\ j.sid[c] = m.sid /\ ~j.wrong /\ j.size = k.size
  <2>1. rest \in Nat /\ rest # 0
    OBVIOUS
  <2>2. j \in Clients
    BY <2>1, MidwayIsClient
  <2>3. /\ j.open = [k.open EXCEPT ![c] = m] /\ j.left = [k.left EXCEPT ![c] = rest] /\ j.sid = [k.sid EXCEPT ![c] = m.sid]
        /\ j.wrong = k.wrong /\ j.size = k.size
    BY <2>1 DEF Midway
  <2> HIDE DEF j
  <2>4. c \in DOMAIN k.open /\ c \in DOMAIN k.left /\ c \in DOMAIN k.sid
    BY DEF Clients
  <2> QED
    BY <2>2, <2>3, <2>4
<1>3. /\ j.open = [k.open EXCEPT ![c] = m] /\ j.left = [k.left EXCEPT ![c] = rest] /\ j.sid = [k.sid EXCEPT ![c] = m.sid]
      /\ j.wrong = k.wrong
  BY DEF Midway
<1> HIDE DEF chunk, j
<1>4. Understood(j, chunk)
  BY <1>1, <1>2 DEF Understood
<1>5. Take(j, chunk) =
          [j EXCEPT !.open[c] = IF left = 0 THEN Nothing ELSE m,
                    !.left[c] = left,
                    !.sid[c] = @,
                    !.size = IF left = 0 /\ m.is = "Set Chunk Size" THEN Large ELSE @]
  BY <1>1, <1>2, <1>4 DEF Take
<1> HIDE DEF left
<1>6. /\ [j.open EXCEPT ![c] = IF left = 0 THEN Nothing ELSE m] = [k.open EXCEPT ![c] = IF left = 0 THEN Nothing ELSE m]
      /\ [j.left EXCEPT ![c] = left] = [k.left EXCEPT ![c] = left]
      /\ [j.sid EXCEPT ![c] = @] = [k.sid EXCEPT ![c] = m.sid]
  BY <1>2, <1>3 DEF Clients
<1>7. Take(j, chunk) = Midway(k, c, m, left)
  BY <1>2, <1>3, <1>5, <1>6 DEF Midway, Clients
<1> QED
  BY <1>7 DEF chunk, j, left

(* The chunks of a message that was built for the size a client expects. *)
LEMMA TakesMessage ==
    ASSUME NEW k \in Clients, Between(k), NEW c \in ChunkStreams, NEW m \in ChunkedMessages
    PROVE  /\ buildResponse0(c, m, k.size) \in Seq(Chunks) /\ buildResponse0(c, m, k.size) # << >>
           /\ Takes(k, buildResponse0(c, m, k.size), Midway(k, c, m, 0))
<1> DEFINE size == k.size
           len == m.len
           n == (len + size - 1) \div size
           Before(i) == len - (i - 1) * size
           Bytes(i) == Min({size, Before(i)})
           chunks == buildResponse0(c, m, size)
           After(i) == IF i = n THEN 0 ELSE Before(i + 1)
           after == [i \in 0 .. n |-> IF i = 0 THEN k ELSE Midway(k, c, m, After(i))]
<1>1. size \in Nat \ {0} /\ len \in Nat \ {0} /\ ~k.wrong /\ k.open[c] = Nothing
  BY DEF Clients, ChunkedMessages, Between
<1>2. chunks = [i \in 1 .. n |-> Piece(IF i = 1 THEN 0 ELSE 3, c, m, Bytes(i))]
  BY DEF buildResponse0, Piece
<1> HIDE DEF size, len, chunks
<1>3. /\ n \in Nat \ {0}
      /\ (n - 1) * size < len /\ len <= (n - 1) * size + size
      /\ \A i \in 1 .. n - 1 : (i - 1) * size + size < len
  BY <1>1, Pieces
<1> HIDE DEF n
<1>4. ASSUME NEW i \in 1 .. n
      PROVE  /\ Before(i) \in Nat \ {0} /\ Bytes(i) \in Nat /\ Bytes(i) <= Before(i)
             /\ After(i) \in Nat /\ After(i) = Before(i) - Bytes(i)
  <2> DEFINE p == (i - 1) * size
  <2>1. p \in Nat /\ (i + 1 - 1) * size = p + size
    BY <1>1, <1>3
  <2>2. i < n => p + size < len
    BY <1>3
  <2>3. i = n => p < len /\ len <= p + size
    BY <1>3
  <2>4. Before(i) = len - p /\ Before(i + 1) = len - (p + size)
    BY <2>1
  <2> HIDE DEF p, Before
  <2>5. i < n \/ i = n
    BY <1>3
  <2>6. Before(i) \in Nat \ {0}
    BY <1>1, <2>1, <2>2, <2>3, <2>4, <2>5
  <2>7. Bytes(i) = IF size <= Before(i) THEN size ELSE Before(i)
    BY <1>1, <2>6, LeastOfTwo
  <2> HIDE DEF Bytes
  <2> QED
    BY <1>1, <1>3, <2>1, <2>2, <2>3, <2>4, <2>5, <2>6, <2>7
<1>5. \A i \in 1 .. n : Piece(IF i = 1 THEN 0 ELSE 3, c, m, Bytes(i)) \in Chunks
  <2> HIDE DEF Bytes, Before
  <2> QED
    BY <1>4 DEF Piece, Chunks
<1>6. chunks \in Seq(Chunks) /\ Len(chunks) = n /\ \A i \in 1 .. n : chunks[i] = Piece(IF i = 1 THEN 0 ELSE 3, c, m, Bytes(i))
  <2> HIDE DEF Bytes, Before
  <2> QED
    BY <1>2, <1>3, <1>5
<1>7. chunks # << >>
  BY <1>3, <1>6
<1> HIDE DEF Before, Bytes, After
<1>8. after \in [0 .. n -> Clients]
  <2> SUFFICES ASSUME NEW i \in 0 .. n PROVE (IF i = 0 THEN k ELSE Midway(k, c, m, After(i))) \in Clients
    OBVIOUS
  <2>1. i # 0 => i \in 1 .. n
    BY <1>3
  <2> QED
    BY <1>4, <2>1, MidwayIsClient
<1>9. after[0] = k /\ \A i \in 1 .. n : after[i] = Midway(k, c, m, After(i))
  BY <1>3
<1> HIDE DEF after
<1>10. after[n] = Midway(k, c, m, 0)
  <2>1. n \in 1 .. n /\ After(n) = 0
    BY <1>3 DEF After
  <2> QED
    BY <1>9, <2>1
<1>11. ASSUME NEW i \in 1 .. n PROVE after[i] = Take(after[i - 1], chunks[i])
  <2>1. CASE i = 1
    <3>1. Before(i) = len
      BY <1>1, <2>1 DEF Before
    <3>2. after[i - 1] = k /\ chunks[i] = Piece(0, c, m, Bytes(i)) /\ after[i] = Midway(k, c, m, m.len - Bytes(i))
      BY <1>4, <1>6, <1>9, <2>1, <3>1 DEF len
    <3>3. Bytes(i) \in Nat /\ Bytes(i) = Min({k.size, m.len}) /\ Bytes(i) <= m.len
      BY <1>4, <3>1 DEF Bytes, len, size
    <3>4. Take(k, Piece(0, c, m, Bytes(i))) = Midway(k, c, m, m.len - Bytes(i))
      BY <1>1, <3>3, FirstTaken
    <3> QED
      BY <3>2, <3>4
  <2>2. CASE i # 1
    <3>1. i - 1 \in 1 .. n /\ i - 1 # n /\ (i - 1) + 1 = i
      BY <1>3, <2>2
    <3>2. After(i - 1) = Before(i)
      BY <3>1 DEF After
    <3>3. /\ after[i - 1] = Midway(k, c, m, Before(i)) /\ chunks[i] = Piece(3, c, m, Bytes(i))
          /\ after[i] = Midway(k, c, m, Before(i) - Bytes(i))
      BY <1>4, <1>6, <1>9, <2>2, <3>1, <3>2
    <3>4. Bytes(i) = Min({k.size, Before(i)})
      BY DEF Bytes, size
    <3>5. Before(i) \in Nat \ {0} /\ Bytes(i) \in Nat /\ Bytes(i) <= Before(i)
      BY <1>4
    <3>6. Take(Midway(k, c, m, Before(i)), Piece(3, c, m, Bytes(i))) = Midway(k, c, m, Before(i) - Bytes(i))
      BY <1>1, <3>4, <3>5, NextTaken
    <3> QED
      BY <3>3, <3>6
  <2> QED
    BY <2>1, <2>2
<1>12. Takes(k, chunks, Midway(k, c, m, 0))
  BY <1>6, <1>8, <1>9, <1>10, <1>11 DEF Takes
<1> QED
  BY <1>6, <1>7, <1>12 DEF chunks, size

LEMMA MessageGood ==
    ASSUME NEW k \in Clients, Between(k), NEW c \in ChunkStreams, NEW m \in ChunkedMessages
    PROVE  LET l == Midway(k, c, m, 0) IN
           /\ l \in Clients /\ Between(l)
           /\ l.size = IF m.is = "Set Chunk Size" THEN Large ELSE k.size
           /\ l.sid[CONTROL] = IF c = CONTROL THEN m.sid ELSE k.sid[CONTROL]
<1> DEFINE l == Midway(k, c, m, 0)
<1>1. l \in Clients
  BY MidwayIsClient
<1>2. /\ l.open = [k.open EXCEPT ![c] = Nothing] /\ l.sid = [k.sid EXCEPT ![c] = m.sid]
      /\ l.wrong = k.wrong /\ l.size = IF m.is = "Set Chunk Size" THEN Large ELSE k.size
  BY DEF Midway
<1> HIDE DEF l
<1>3. DOMAIN k.open = ChunkStreams /\ DOMAIN k.sid = ChunkStreams /\ CONTROL \in ChunkStreams
  BY DEF Clients, ChunkStreams
<1>4. Between(l)
  BY <1>2, <1>3 DEF Between
<1>5. l.sid[CONTROL] = IF c = CONTROL THEN m.sid ELSE k.sid[CONTROL]
  BY <1>2, <1>3
<1> QED
  BY <1>1, <1>2, <1>4, <1>5 DEF l

(* No chunks, and one more message at the end. *)
LEMMA LeadsNowhere == ASSUME NEW size, NEW sids PROVE Leads(<< >>, size, size, sids)
<1>1. << >> \in Seq(Chunks)
  BY EmptySeq
<1>2. ASSUME NEW k \in Clients, Between(k), k.size = size
      PROVE  \E l \in Clients :
                 Takes(k, << >>, l) /\ Between(l) /\ l.size = size /\ l.sid[CONTROL] \in sids \union {k.sid[CONTROL]}
  BY <1>2, TakesNothing
<1> QED
  BY <1>1, <1>2 DEF Leads

\* The chunks of a message.
IsBuilt(t, c, m, size) ==
    /\ c \in ChunkStreams /\ m \in ChunkedMessages /\ size \in Nat \ {0}
    /\ t = buildResponse0(c, m, size) /\ t \in Seq(Chunks) /\ t # << >>

LEMMA LeadsFurther ==
    ASSUME NEW s, NEW from, NEW size, NEW sids, Leads(s, from, size, sids),
           NEW t, NEW c, NEW m, IsBuilt(t, c, m, size)
    PROVE  /\ Leads(s \o t, from, IF m.is = "Set Chunk Size" THEN Large ELSE size,
                    IF c = CONTROL THEN sids \union {m.sid} ELSE sids)
           /\ s \o t # << >>
<1> USE DEF IsBuilt
<1> DEFINE both == s \o t
           to == IF m.is = "Set Chunk Size" THEN Large ELSE size
           more == IF c = CONTROL THEN sids \union {m.sid} ELSE sids
<1>1. s \in Seq(Chunks)
  BY DEF Leads
<1>2. both \in Seq(Chunks) /\ Len(both) = Len(s) + Len(t) /\ Len(s) \in Nat /\ Len(t) \in Nat /\ Len(t) # 0
  BY <1>1, ConcatProperties, LenProperties, EmptySeq
<1>3. ASSUME NEW k \in Clients, Between(k), k.size = from
      PROVE  \E e \in Clients :
                 Takes(k, both, e) /\ Between(e) /\ e.size = to /\ e.sid[CONTROL] \in more \union {k.sid[CONTROL]}
  <2>1. PICK l \in Clients :
            Takes(k, s, l) /\ Between(l) /\ l.size = size /\ l.sid[CONTROL] \in sids \union {k.sid[CONTROL]}
    BY <1>3 DEF Leads
  <2> DEFINE e == Midway(l, c, m, 0)
  <2>2. Takes(l, buildResponse0(c, m, l.size), e)
    BY <2>1, TakesMessage
  <2>3. Takes(l, t, e)
    BY <2>1, <2>2
  <2>4. /\ e \in Clients /\ Between(e)
        /\ e.size = IF m.is = "Set Chunk Size" THEN Large ELSE l.size
        /\ e.sid[CONTROL] = IF c = CONTROL THEN m.sid ELSE l.sid[CONTROL]
    BY <2>1, MessageGood
  <2> HIDE DEF e, both
  <2>5. Takes(k, both, e)
    BY <1>1, <2>1, <2>3, TakesBoth DEF both
  <2> QED
    BY <2>1, <2>4, <2>5
<1>4. both # << >>
  <2> HIDE DEF both
  <2>1. Len(both) # 0
    BY <1>2
  <2> QED
    BY <1>2, <2>1, EmptySeq
<1> HIDE DEF both, to, more
<1>5. Leads(both, from, to, more)
  BY <1>2, <1>3 DEF Leads
<1> QED
  BY <1>4, <1>5 DEF both, to, more

LEMMA Built ==
    ASSUME NEW c \in ChunkStreams, NEW m \in ChunkedMessages, NEW size \in Nat \ {0}
    PROVE  IsBuilt(buildResponse0(c, m, size), c, m, size)
<1>1. PICK k : k \in Clients /\ Between(k) /\ k.size = size
  <2> DEFINE k == [size |-> size, open |-> [d \in ChunkStreams |-> Nothing], left |-> [d \in ChunkStreams |-> 0],
                   sid |-> [d \in ChunkStreams |-> 0], wrong |-> FALSE]
  <2>1. k \in Clients /\ Between(k) /\ k.size = size
    BY DEF Clients, Between
  <2> HIDE DEF k
  <2> QED
    BY <2>1
<1>2. buildResponse0(c, m, k.size) \in Seq(Chunks) /\ buildResponse0(c, m, k.size) # << >>
  BY <1>1, TakesMessage
<1> QED
  BY <1>1, <1>2 DEF IsBuilt

LEMMA Bounds == /\ Small \in Nat \ {0} /\ 2 * Small \in Nat \ {0} /\ Large \in Nat \ {0} /\ 0 \in Nat /\ 1 \in Nat
                /\ Player \subseteq Nat
  OBVIOUS

LEMMA Streams3 == LOW_LEVEL \in ChunkStreams /\ HIGH_LEVEL \in ChunkStreams /\ CONTROL \in ChunkStreams
                  /\ LOW_LEVEL # CONTROL /\ HIGH_LEVEL # CONTROL
  BY DEF ChunkStreams, LOW_LEVEL, HIGH_LEVEL, CONTROL

-----------------------------------------------------------------------------
(* The steps *)

LEMMA DeliveryInvInit == DeliveryInit => DeliveryInv
<1> SUFFICES ASSUME DeliveryInit PROVE DeliveryInv
  OBVIOUS
<1>1. client \in Clients /\ Between(client) /\ client.size = Small
  BY DEF DeliveryInit, NewClient, Clients, ChunkStreams, Between
<1>2. DeliveryTypes
  BY <1>1 DEF DeliveryInit, DeliveryTypes, Where
<1>3. OnePlays /\ ClientIsWhereStreamIs
  BY <1>1 DEF DeliveryInit, OnePlays, Plays, ClientIsWhereStreamIs
<1>4. ResponseIsGood
  <2>1. response = << >> /\ mTxChunkSize = Small
    BY DEF DeliveryInit
  <2> QED
    BY <1>1, <2>1, LeadsNowhere DEF ResponseIsGood
<1> QED
  BY <1>2, <1>3, <1>4 DEF DeliveryInv

(* What is built stays good while the client is told nothing new. *)
LEMMA ResponseStays ==
    ASSUME ResponseIsGood, response' = response, mTxChunkSize' = mTxChunkSize, client'.size = client.size,
           \A p \in Player : Plays(p) <=> Plays(p)'
    PROVE  ResponseIsGood'
<1>1. { p \in Player : Plays(p)' } = { p \in Player : Plays(p) }
  OBVIOUS
<1>2. Leads(response', client'.size, mTxChunkSize', { p \in Player : Plays(p)' })
  BY <1>1 DEF ResponseIsGood
<1>3. response' = << >> => client'.size = mTxChunkSize'
  BY DEF ResponseIsGood
<1> QED
  BY <1>2, <1>3 DEF ResponseIsGood, Leads, Takes, Between, Clients

LEMMA CommandGood == ASSUME DeliveryInv, HandleCommand, ~race' PROVE DeliveryInv'
<1> DEFINE m1 == Msg("control", 0, Small)
           m2 == Msg("_result", 0, 2 * Small)
           t1 == buildResponse0(LOW_LEVEL, m1, mTxChunkSize)
           t2 == buildResponse0(HIGH_LEVEL, m2, mTxChunkSize)
           played == { p \in Player : Plays(p) }
<1>1. /\ mState = "CREATED" /\ response = << >> /\ response' = t1 \o t2
      /\ UNCHANGED << mTxChunkSize, where, payload, video, mInitialFrames, videos, mState, client, race >>
  BY DEF HandleCommand, streams
<1>2. ~race /\ DeliveryTypes /\ OnePlays /\ ClientIsWhereStreamIs /\ ResponseIsGood
  BY <1>1 DEF DeliveryInv
<1>3. mTxChunkSize \in Nat \ {0}
  BY <1>2 DEF DeliveryTypes
<1>4. m1 \in ChunkedMessages /\ m1.is = "control"
  BY Bounds DEF Msg, ChunkedMessages
<1>5. m2 \in ChunkedMessages /\ m2.is = "_result"
  BY Bounds DEF Msg, ChunkedMessages
<1>6. played' = played
  BY <1>1 DEF Plays
<1> HIDE DEF m1, m2, played
<1>7. IsBuilt(t1, LOW_LEVEL, m1, mTxChunkSize)
  BY <1>3, <1>4, Streams3, Built
<1>8. IsBuilt(t2, HIGH_LEVEL, m2, mTxChunkSize)
  BY <1>3, <1>5, Streams3, Built
<1> HIDE DEF t1, t2
<1>9. Leads(response, client.size, mTxChunkSize, played)
  BY <1>2 DEF ResponseIsGood, played
<1>10. Leads(response \o t1, client.size, mTxChunkSize, played)
  BY <1>4, <1>7, <1>9, Streams3, LeadsFurther
<1>11. response \o t1 = t1
  BY <1>1, <1>7, ConcatEmptySeq DEF IsBuilt
<1>12. Leads(t1 \o t2, client.size, mTxChunkSize, played) /\ t1 \o t2 # << >>
  BY <1>5, <1>8, <1>10, <1>11, Streams3, LeadsFurther
<1>13. ResponseIsGood'
  <2>1. Leads(response', client.size, mTxChunkSize, played) /\ response' # << >>
    BY <1>1, <1>12
  <2>2. Leads(response', client'.size, mTxChunkSize', { p \in Player : Plays(p)' })
    BY <1>1, <1>6, <2>1 DEF played
  <2> QED
    BY <2>1, <2>2 DEF ResponseIsGood, Leads, Takes, Between, Clients
<1>14. DeliveryTypes'
  BY <1>1, <1>2 DEF DeliveryTypes
<1>15. OnePlays' /\ ClientIsWhereStreamIs'
  BY <1>1, <1>2 DEF OnePlays, Plays, ClientIsWhereStreamIs, InVideo
<1> QED
  BY <1>13, <1>14, <1>15 DEF DeliveryInv

LEMMA PlayGood == ASSUME DeliveryInv, NEW p \in Player, HandlePlay(p), ~race' PROVE DeliveryInv'
<1> DEFINE m1 == Msg("Set Chunk Size", 0, Small)
           m2 == Msg("Stream Begin", 1, Small)
           m3 == Msg("onStatus", p, 2 * Small)
           t1 == buildResponse0(LOW_LEVEL, m1, mTxChunkSize)
           t2 == buildResponse0(LOW_LEVEL, m2, Large)
           t3 == buildResponse0(CONTROL, m3, Large)
<1>1. /\ mTxChunkSize' = Large /\ response' = response \o t1 \o t2 \o t3 \o t3
      /\ where[p] = "none" /\ where' = [where EXCEPT ![p] = "meta"] /\ mState' = "PLAYING"
      /\ ~race /\ \A q \in Player : where[q] = "none"
      /\ UNCHANGED << payload, video, mInitialFrames, videos, client >>
  BY DEF HandlePlay, onStatus
<1>2. DeliveryTypes /\ OnePlays /\ ClientIsWhereStreamIs /\ ResponseIsGood
  BY <1>1 DEF DeliveryInv
<1>3. mTxChunkSize \in Nat \ {0} /\ where \in [Player -> Where] /\ race' \in BOOLEAN
  BY <1>2 DEF DeliveryTypes, HandlePlay
<1>4. m1 \in ChunkedMessages /\ m1.is = "Set Chunk Size"
  BY Bounds DEF Msg, ChunkedMessages
<1>5. m2 \in ChunkedMessages /\ m2.is = "Stream Begin"
  BY Bounds DEF Msg, ChunkedMessages
<1>6. m3 \in ChunkedMessages /\ m3.is = "onStatus" /\ m3.sid = p
  BY Bounds DEF Msg, ChunkedMessages
<1>7. where' \in [Player -> Where] /\ where'[p] = "meta" /\ \A q \in Player : q # p => where'[q] = "none"
  BY <1>1, <1>3 DEF Where
<1>8. { q \in Player : Plays(q)' } = {p} /\ { q \in Player : Plays(q) } = {}
  BY <1>1, <1>7 DEF Plays
<1> HIDE DEF m1, m2, m3
<1>9. IsBuilt(t1, LOW_LEVEL, m1, mTxChunkSize)
  BY <1>3, <1>4, Streams3, Built
<1>10. IsBuilt(t2, LOW_LEVEL, m2, Large)
  BY <1>5, Bounds, Streams3, Built
<1>11. IsBuilt(t3, CONTROL, m3, Large)
  BY <1>6, Bounds, Streams3, Built
<1> HIDE DEF t1, t2, t3
<1>12. Leads(response, client.size, mTxChunkSize, {})
  BY <1>2, <1>8 DEF ResponseIsGood
<1>13. Leads(response \o t1, client.size, Large, {})
  BY <1>4, <1>9, <1>12, Streams3, LeadsFurther
<1>14. Leads(response \o t1 \o t2, client.size, Large, {})
  BY <1>5, <1>10, <1>13, Streams3, LeadsFurther
<1>15. Leads(response \o t1 \o t2 \o t3, client.size, Large, {p})
  <2>1. Leads((response \o t1 \o t2) \o t3, client.size, IF m3.is = "Set Chunk Size" THEN Large ELSE Large,
              IF CONTROL = CONTROL THEN {} \union {m3.sid} ELSE {})
    BY <1>11, <1>14, LeadsFurther
  <2> QED
    BY <1>6, <2>1
<1>16. Leads(response \o t1 \o t2 \o t3 \o t3, client.size, Large, {p}) /\ response \o t1 \o t2 \o t3 \o t3 # << >>
  <2>1. Leads((response \o t1 \o t2 \o t3) \o t3, client.size, IF m3.is = "Set Chunk Size" THEN Large ELSE Large,
              IF CONTROL = CONTROL THEN {p} \union {m3.sid} ELSE {p})
        /\ (response \o t1 \o t2 \o t3) \o t3 # << >>
    BY <1>11, <1>15, LeadsFurther
  <2>2. {p} \union {m3.sid} = {p}
    BY <1>6
  <2> QED
    BY <2>1, <2>2
<1>17. ResponseIsGood'
  <2>1. Leads(response', client.size, Large, {p}) /\ response' # << >>
    BY <1>1, <1>16
  <2>2. Leads(response', client'.size, mTxChunkSize', { q \in Player : Plays(q)' })
    BY <1>1, <1>8, <2>1
  <2> QED
    BY <2>1, <2>2 DEF ResponseIsGood, Leads, Takes, Between, Clients
<1>18. DeliveryTypes'
  BY <1>1, <1>2, <1>3, <1>7 DEF DeliveryTypes
<1>19. OnePlays'
  BY <1>1, <1>7 DEF OnePlays, Plays
<1>20. ClientIsWhereStreamIs'
  BY <1>1, <1>2, <1>7 DEF ClientIsWhereStreamIs
<1> QED
  BY <1>17, <1>18, <1>19, <1>20 DEF DeliveryInv

LEMMA CloseGood == ASSUME DeliveryInv, NEW p \in Player, HandleClose(p), ~race' PROVE DeliveryInv'
<1> DEFINE m == Msg("onStatus", p, 2 * Small)
           t == buildResponse0(CONTROL, m, Large)
           played == { q \in Player : Plays(q) }
<1>1. /\ mState = "PLAYING" /\ where[p] # "none" /\ mState' = "STOPPED"
      /\ response' = response \o Times(Cardinality(played), t)
      /\ UNCHANGED << mTxChunkSize, where, payload, video, mInitialFrames, videos, client, race >>
  BY DEF HandleClose, streams, onStatus, Plays
<1>2. ~race /\ DeliveryTypes /\ OnePlays /\ ClientIsWhereStreamIs /\ ResponseIsGood
  BY <1>1 DEF DeliveryInv
<1>3. mTxChunkSize = Large /\ Large \in Nat \ {0}
  BY <1>1, <1>2 DEF OnePlays, Plays
<1>4. m \in ChunkedMessages /\ m.is = "onStatus" /\ m.sid = p
  BY Bounds DEF Msg, ChunkedMessages
<1>5. played = {p}
  BY <1>1, <1>2 DEF OnePlays, Plays
<1> HIDE DEF m
<1>6. IsBuilt(t, CONTROL, m, Large)
  BY <1>4, Bounds, Streams3, Built
<1> HIDE DEF t
<1>7. Times(1, t) = t
  <2>1. Len(t) \in Nat /\ t = [i \in 1 .. Len(t) |-> t[i]]
    BY <1>6, LenProperties DEF IsBuilt
  <2>2. 1 * Len(t) = Len(t)
    <3> DEFINE n == Len(t)
    <3>1. n \in Nat
      BY <2>1
    <3> HIDE DEF n
    <3>2. 1 * n = n
      BY <3>1
    <3> QED
      BY <3>2 DEF n
  <2>3. \A i \in 1 .. Len(t) : ((i - 1) % Len(t)) + 1 = i
    <3> SUFFICES ASSUME NEW i \in 1 .. Len(t) PROVE ((i - 1) % Len(t)) + 1 = i
      OBVIOUS
    <3> DEFINE n == Len(t)
    <3>1. n \in Nat /\ i \in 1 .. n
      BY <2>1
    <3> HIDE DEF n
    <3>2. (i - 1) % n = i - 1
      BY <3>1
    <3> QED
      BY <3>1, <3>2 DEF n
  <2>4. Times(1, t) = [i \in 1 .. Len(t) |-> t[i]]
    BY <2>2, <2>3 DEF Times
  <2> QED
    BY <2>1, <2>4
<1>8. Cardinality(played) = 1
  BY <1>5, FS_Singleton
<1>9. response' = response \o t
  BY <1>1, <1>7, <1>8
<1>10. played' = played
  BY <1>1 DEF Plays
<1> HIDE DEF played
<1>11. Leads(response, client.size, Large, {p})
  BY <1>2, <1>3, <1>5 DEF ResponseIsGood, played
<1>12. Leads(response \o t, client.size, Large, {p}) /\ response \o t # << >>
  <2>1. Leads(response \o t, client.size, IF m.is = "Set Chunk Size" THEN Large ELSE Large,
              IF CONTROL = CONTROL THEN {p} \union {m.sid} ELSE {p})
        /\ response \o t # << >>
    BY <1>6, <1>11, LeadsFurther
  <2>2. {p} \union {m.sid} = {p}
    BY <1>4
  <2> QED
    BY <2>1, <2>2
<1>13. ResponseIsGood'
  <2>1. Leads(response', client.size, Large, {p}) /\ response' # << >>
    BY <1>9, <1>12
  <2>2. Leads(response', client'.size, mTxChunkSize', { q \in Player : Plays(q)' })
    BY <1>1, <1>3, <1>5, <1>10, <2>1 DEF played
  <2> QED
    BY <2>1, <2>2 DEF ResponseIsGood, Leads, Takes, Between, Clients
<1>14. DeliveryTypes'
  BY <1>1, <1>2 DEF DeliveryTypes
<1>15. OnePlays' /\ ClientIsWhereStreamIs'
  BY <1>1, <1>2 DEF OnePlays, Plays, ClientIsWhereStreamIs, InVideo
<1> QED
  BY <1>13, <1>14, <1>15 DEF DeliveryInv

LEMMA SendResponseGood == ASSUME DeliveryInv, SendResponse, ~race' PROVE DeliveryInv'
<1>1. /\ response' = << >> /\ send(response) /\ ~race /\ \A p \in Player : where[p] # "sending"
      /\ UNCHANGED << mTxChunkSize, where, payload, video, mInitialFrames, videos, mState >>
  BY DEF SendResponse, streams
<1>2. DeliveryTypes /\ OnePlays /\ ClientIsWhereStreamIs /\ ResponseIsGood
  BY <1>1 DEF DeliveryInv
<1>3. client \in Clients /\ Between(client)
  BY <1>1, <1>2 DEF DeliveryTypes, ClientIsWhereStreamIs
<1>4. response \in Seq(Chunks)
  BY <1>2 DEF ResponseIsGood, Leads
<1>5. PICK l \in Clients :
          /\ Takes(client, response, l) /\ Between(l) /\ l.size = mTxChunkSize
          /\ l.sid[CONTROL] \in { p \in Player : Plays(p) } \union {client.sid[CONTROL]}
  BY <1>2, <1>3 DEF ResponseIsGood, Leads
<1>6. client' = l
  BY <1>1, <1>4, <1>5, SentIs
<1>7. Leads(response', client'.size, mTxChunkSize', { p \in Player : Plays(p)' })
  BY <1>1, <1>5, <1>6, LeadsNowhere
<1>8. ResponseIsGood'
  BY <1>1, <1>5, <1>6, <1>7 DEF ResponseIsGood, Leads, Takes, Between, Clients
<1>9. DeliveryTypes'
  BY <1>1, <1>2, <1>6 DEF DeliveryTypes, SendResponse
<1>10. OnePlays'
  BY <1>1, <1>2 DEF OnePlays, Plays
<1>11. ClientIsWhereStreamIs'
  <2>1. Between(client)'
    BY <1>5, <1>6 DEF Between
  <2>2. ASSUME NEW p \in Player, where[p] = "loop" PROVE client'.sid[CONTROL] = p
    <3>1. client.sid[CONTROL] = p
      BY <1>2, <2>2 DEF ClientIsWhereStreamIs
    <3>2. { q \in Player : Plays(q) } = {p}
      BY <1>2, <2>2 DEF OnePlays, Plays
    <3> QED
      BY <1>5, <1>6, <3>1, <3>2
  <2> QED
    BY <1>1, <2>1, <2>2 DEF ClientIsWhereStreamIs
<1> QED
  BY <1>8, <1>9, <1>10, <1>11 DEF DeliveryInv

(* The client takes chunks to be of the size they are of. *)
LEMMA SizeKnown == ASSUME ResponseIsGood, ~Early PROVE client.size = mTxChunkSize
  BY DEF ResponseIsGood, Early

LEMMA MetaGood == ASSUME DeliveryInv, NEW p \in Player, SendMeta(p), ~race' PROVE DeliveryInv'
<1> DEFINE m == Msg("onMetaData", p, 2 * Small)
           t == buildResponse0(CONTROL, m, mTxChunkSize)
           l == Midway(client, CONTROL, m, 0)
<1>1. /\ where[p] = "meta" /\ send(t) /\ where' = [where EXCEPT ![p] = "loop"] /\ ~race /\ ~Early /\ race' \in BOOLEAN
      /\ UNCHANGED << mTxChunkSize, response, payload, video, mInitialFrames, videos, mState >>
  BY DEF SendMeta
<1>2. DeliveryTypes /\ OnePlays /\ ClientIsWhereStreamIs /\ ResponseIsGood
  BY <1>1 DEF DeliveryInv
<1>3. client \in Clients /\ client.size = mTxChunkSize /\ where \in [Player -> Where]
  BY <1>1, <1>2, SizeKnown DEF DeliveryTypes
<1>4. \A q \in Player : q # p => where[q] = "none"
  BY <1>1, <1>2 DEF OnePlays, Plays
<1>5. Between(client)
  BY <1>1, <1>2, <1>4 DEF ClientIsWhereStreamIs
<1>6. m \in ChunkedMessages /\ m.is = "onMetaData" /\ m.sid = p
  BY Bounds DEF Msg, ChunkedMessages
<1> HIDE DEF m
<1>7. t = buildResponse0(CONTROL, m, client.size)
  BY <1>3
<1> HIDE DEF t
<1>8. t \in Seq(Chunks) /\ Takes(client, t, l)
  BY <1>3, <1>5, <1>6, <1>7, Streams3, TakesMessage
<1>9. l \in Clients /\ Between(l) /\ l.size = client.size /\ l.sid[CONTROL] = p
  BY <1>3, <1>5, <1>6, Streams3, MessageGood
<1> HIDE DEF l
<1>10. client' = l
  BY <1>1, <1>8, SentIs
<1>11. where' \in [Player -> Where] /\ where'[p] = "loop" /\ \A q \in Player : q # p => where'[q] = "none"
  BY <1>1, <1>3, <1>4 DEF Where
<1>12. \A q \in Player : Plays(q) <=> Plays(q)'
  BY <1>1, <1>4, <1>11 DEF Plays
<1>13. ResponseIsGood'
  BY <1>1, <1>2, <1>9, <1>10, <1>12, ResponseStays
<1>14. DeliveryTypes'
  BY <1>1, <1>2, <1>9, <1>10, <1>11 DEF DeliveryTypes
<1>15. OnePlays'
  BY <1>1, <1>2, <1>11, <1>12 DEF OnePlays
<1>16. ClientIsWhereStreamIs'
  BY <1>9, <1>10, <1>11 DEF ClientIsWhereStreamIs, Between
<1> QED
  BY <1>13, <1>14, <1>15, <1>16 DEF DeliveryInv

(* A chunk of a video message is sent, and the client is as far as the stream. *)
LEMMA ChunkGood ==
    ASSUME DeliveryInv, NEW p \in Player, where[p] \in {"loop", "sending"}, ~race, ~race', race' \in BOOLEAN,
           \A c \in ChunkStreams \ {CONTROL} : client.open[c] = Nothing, ~client.wrong,
           NEW m \in ChunkedMessages, m.is = "video", m.sid = p, NEW rest \in Nat,
           IsMidway(client, client', m, rest),
           where' = [where EXCEPT ![p] = IF rest = 0 THEN "loop" ELSE "sending"],
           payload' = [payload EXCEPT ![p] = rest],
           video' \in [Player -> ChunkedMessages \union {Nothing}], video'[p] = m,
           mInitialFrames' \in [Player -> Nat], videos' \in [Player -> Nat],
           UNCHANGED << mTxChunkSize, response, mState >>
    PROVE  DeliveryInv'
<1>1. DeliveryTypes /\ OnePlays /\ ClientIsWhereStreamIs /\ ResponseIsGood
  BY DEF DeliveryInv
<1>2. client \in Clients /\ where \in [Player -> Where] /\ payload \in [Player -> Nat]
  BY <1>1 DEF DeliveryTypes
<1>3. \A q \in Player : q # p => where[q] = "none"
  BY <1>1 DEF OnePlays, Plays
<1>4. /\ client' \in Clients /\ client'.open[CONTROL] = (IF rest = 0 THEN Nothing ELSE m)
      /\ client'.left[CONTROL] = rest /\ client'.sid[CONTROL] = p /\ ~client'.wrong /\ client'.size = client.size
      /\ \A c \in ChunkStreams \ {CONTROL} : client'.open[c] = Nothing
  BY DEF IsMidway
<1>5. /\ where' \in [Player -> Where] /\ where'[p] = (IF rest = 0 THEN "loop" ELSE "sending")
      /\ \A q \in Player : q # p => where'[q] = "none"
      /\ payload' \in [Player -> Nat] /\ payload'[p] = rest
  BY <1>2, <1>3 DEF Where
<1>6. \A q \in Player : Plays(q) <=> Plays(q)'
  BY <1>3, <1>5 DEF Plays
<1>7. ResponseIsGood'
  BY <1>1, <1>4, <1>6, ResponseStays
<1>8. DeliveryTypes'
  BY <1>1, <1>4, <1>5 DEF DeliveryTypes
<1>9. OnePlays'
  BY <1>1, <1>5, <1>6 DEF OnePlays
<1>10. ClientIsWhereStreamIs'
  <2>1. rest = 0 => Between(client)'
    BY <1>4 DEF Between
  <2>2. rest # 0 => InVideo(p)'
    BY <1>4, <1>5 DEF InVideo
  <2> QED
    BY <1>4, <1>5, <2>1, <2>2 DEF ClientIsWhereStreamIs
<1> QED
  BY <1>7, <1>8, <1>9, <1>10 DEF DeliveryInv

LEMMA BeginGood ==
    ASSUME DeliveryInv, NEW p \in Player, NEW len \in Lengths, BeginVideo(p, len), ~race' PROVE DeliveryInv'
<1> DEFINE m == Msg("video", p, len)
           type == IF mInitialFrames[p] > 0 THEN 1 ELSE 0
           n == Min({mTxChunkSize, len})
           chunk == Piece(type, CONTROL, m, n)
<1>1. /\ where[p] = "loop" /\ send(<< chunk >>) /\ payload' = [payload EXCEPT ![p] = len - n]
      /\ where' = [where EXCEPT ![p] = IF n = len THEN "loop" ELSE "sending"]
      /\ ~race /\ ~Early /\ race' \in BOOLEAN /\ video' = [video EXCEPT ![p] = m]
      /\ mInitialFrames' = [mInitialFrames EXCEPT ![p] = IF @ > 0 THEN @ - 1 ELSE 0]
      /\ videos' = [videos EXCEPT ![p] = @ + 1]
      /\ UNCHANGED << mTxChunkSize, response, mState >>
  BY DEF BeginVideo, SendChunk, Piece
<1>2. DeliveryTypes /\ OnePlays /\ ClientIsWhereStreamIs /\ ResponseIsGood
  BY <1>1 DEF DeliveryInv
<1>3. /\ client \in Clients /\ client.size = mTxChunkSize /\ mTxChunkSize \in Nat \ {0}
      /\ video \in [Player -> ChunkedMessages \union {Nothing}] /\ mInitialFrames \in [Player -> Nat]
      /\ videos \in [Player -> Nat]
  BY <1>1, <1>2, SizeKnown DEF DeliveryTypes
<1>4. \A q \in Player : q # p => where[q] = "none"
  BY <1>1, <1>2 DEF OnePlays, Plays
<1>5. Between(client) /\ client.sid[CONTROL] = p
  BY <1>1, <1>2, <1>4 DEF ClientIsWhereStreamIs
<1>6. len \in Nat \ {0} /\ p \in Nat
  OBVIOUS
<1>7. m \in ChunkedMessages /\ m.is = "video" /\ m.sid = p /\ m.len = len
  BY <1>6 DEF Msg, ChunkedMessages
<1>8. n \in Nat /\ n <= len
  BY <1>3, <1>6, LeastOfTwo
<1>9. type \in {0, 1} /\ type \in {0, 1, 3}
  OBVIOUS
<1>10. n = Min({client.size, m.len}) /\ n <= m.len
  BY <1>3, <1>7, <1>8
<1> HIDE DEF m, n, type
<1>11. chunk \in Chunks
  BY <1>7, <1>8, <1>9, Streams3 DEF Piece, Chunks
<1>12. ~client.wrong /\ client.open[CONTROL] = Nothing /\ \A c \in ChunkStreams : client.open[c] = Nothing
  BY <1>5, Streams3 DEF Between
<1>13. Take(client, chunk) = Midway(client, CONTROL, m, m.len - n)
  BY <1>3, <1>5, <1>7, <1>8, <1>9, <1>10, <1>12, Streams3, FirstTaken
<1> HIDE DEF chunk
<1> DEFINE rest == len - n
<1>14. rest \in Nat /\ (rest = 0 <=> n = len) /\ m.len - n = rest
  BY <1>6, <1>7, <1>8
<1>15. payload' = [payload EXCEPT ![p] = rest]
  BY <1>1
<1> HIDE DEF rest
<1>16. Midway(client, CONTROL, m, rest) \in Clients
  BY <1>3, <1>7, <1>14, Streams3, MidwayIsClient
<1>17. Takes(client, << chunk >>, Midway(client, CONTROL, m, rest)) /\ << chunk >> \in Seq(Chunks)
  BY <1>3, <1>11, <1>13, <1>14, <1>16, TakesOne
<1>18. IsMidway(client, client', m, rest)
  <2>1. client' = Midway(client, CONTROL, m, rest)
    BY <1>1, <1>17, SentIs
  <2>2. IsMidway(client, Midway(client, CONTROL, m, rest), m, rest)
    BY <1>3, <1>7, <1>14, MidwayInVideo
  <2> QED
    BY <2>1, <2>2
<1>19. /\ video' \in [Player -> ChunkedMessages \union {Nothing}] /\ video'[p] = m
       /\ mInitialFrames' \in [Player -> Nat] /\ videos' \in [Player -> Nat]
  BY <1>1, <1>3, <1>7
<1>20. where' = [where EXCEPT ![p] = IF rest = 0 THEN "loop" ELSE "sending"]
  BY <1>1, <1>14
<1>21. \A c \in ChunkStreams \ {CONTROL} : client.open[c] = Nothing
  BY <1>12
<1>22. where[p] \in {"loop", "sending"} /\ ~race /\ race' \in BOOLEAN /\ UNCHANGED << mTxChunkSize, response, mState >>
  BY <1>1
<1> QED
  BY <1>7, <1>12, <1>14, <1>15, <1>18, <1>19, <1>20, <1>21, <1>22, ChunkGood

LEMMA ContinueGood == ASSUME DeliveryInv, NEW p \in Player, ContinueVideo(p), ~race' PROVE DeliveryInv'
<1> DEFINE m == video[p]
           size == payload[p]
           n == Min({mTxChunkSize, size})
           chunk == Piece(3, CONTROL, m, n)
<1>1. /\ where[p] = "sending" /\ send(<< chunk >>) /\ payload' = [payload EXCEPT ![p] = size - n]
      /\ where' = [where EXCEPT ![p] = IF n = size THEN "loop" ELSE "sending"]
      /\ ~race /\ ~Early /\ race' \in BOOLEAN
      /\ UNCHANGED << mTxChunkSize, response, mState, video, mInitialFrames, videos >>
  BY DEF ContinueVideo, SendChunk, Piece
<1>2. DeliveryTypes /\ OnePlays /\ ClientIsWhereStreamIs /\ ResponseIsGood
  BY <1>1 DEF DeliveryInv
<1>3. /\ client \in Clients /\ client.size = mTxChunkSize /\ mTxChunkSize \in Nat \ {0}
      /\ video \in [Player -> ChunkedMessages \union {Nothing}] /\ mInitialFrames \in [Player -> Nat]
      /\ videos \in [Player -> Nat] /\ payload \in [Player -> Nat]
  BY <1>1, <1>2, SizeKnown DEF DeliveryTypes
<1>4. InVideo(p) /\ client.sid[CONTROL] = p
  BY <1>1, <1>2 DEF ClientIsWhereStreamIs
<1>5. /\ m \in ChunkedMessages /\ m.is = "video" /\ m.sid = p /\ size \in Nat \ {0} /\ ~client.wrong
      /\ client.open[CONTROL] = m /\ client.left[CONTROL] = size
      /\ \A c \in ChunkStreams \ {CONTROL} : client.open[c] = Nothing
  BY <1>3, <1>4 DEF InVideo
<1>6. n \in Nat /\ n <= size
  BY <1>3, <1>5, LeastOfTwo
<1>7. n = Min({client.size, size})
  BY <1>3
<1>8. video'[p] = m
  BY <1>1
<1> HIDE DEF m, n, size
<1>9. Midway(client, CONTROL, m, size) = client
  <2>1. /\ [client.open EXCEPT ![CONTROL] = m] = client.open /\ [client.left EXCEPT ![CONTROL] = size] = client.left
        /\ [client.sid EXCEPT ![CONTROL] = m.sid] = client.sid
    BY <1>3, <1>4, <1>5 DEF Clients
  <2>2. client = [size |-> client.size, open |-> client.open, left |-> client.left, sid |-> client.sid, wrong |-> client.wrong]
    BY <1>3 DEF Clients
  <2>3. size # 0
    BY <1>5
  <2> QED
    BY <2>1, <2>2, <2>3 DEF Midway
<1>10. Take(Midway(client, CONTROL, m, size), chunk) = Midway(client, CONTROL, m, size - n)
  BY <1>3, <1>5, <1>6, <1>7, Streams3, NextTaken
<1>11. chunk \in Chunks
  BY <1>5, <1>6, Streams3 DEF Piece, Chunks
<1> HIDE DEF chunk
<1> DEFINE rest == size - n
<1>12. rest \in Nat /\ (rest = 0 <=> n = size)
  BY <1>5, <1>6
<1>13. payload' = [payload EXCEPT ![p] = rest] /\ Take(client, chunk) = Midway(client, CONTROL, m, rest)
  BY <1>1, <1>9, <1>10
<1> HIDE DEF rest
<1>14. Midway(client, CONTROL, m, rest) \in Clients
  BY <1>3, <1>5, <1>12, Streams3, MidwayIsClient
<1>15. Takes(client, << chunk >>, Midway(client, CONTROL, m, rest)) /\ << chunk >> \in Seq(Chunks)
  BY <1>3, <1>11, <1>13, <1>14, TakesOne
<1>16. IsMidway(client, client', m, rest)
  <2>1. client' = Midway(client, CONTROL, m, rest)
    BY <1>1, <1>15, SentIs
  <2>2. IsMidway(client, Midway(client, CONTROL, m, rest), m, rest)
    BY <1>3, <1>5, <1>12, MidwayInVideo
  <2> QED
    BY <2>1, <2>2
<1>17. where' = [where EXCEPT ![p] = IF rest = 0 THEN "loop" ELSE "sending"]
  BY <1>1, <1>12
<1>18. /\ video' \in [Player -> ChunkedMessages \union {Nothing}]
       /\ mInitialFrames' \in [Player -> Nat] /\ videos' \in [Player -> Nat]
  BY <1>1, <1>3
<1> QED
  BY <1>1, <1>5, <1>8, <1>12, <1>13, <1>16, <1>17, <1>18, ChunkGood

LEMMA EndGood == ASSUME DeliveryInv, NEW p \in Player, End(p), ~race' PROVE DeliveryInv'
<1>1. /\ where[p] \in {"meta", "loop"} /\ where' = [where EXCEPT ![p] = "ended"] /\ ~race
      /\ UNCHANGED << mTxChunkSize, response, payload, video, mInitialFrames, videos, mState, client, race >>
  BY DEF End
<1>2. DeliveryTypes /\ OnePlays /\ ClientIsWhereStreamIs /\ ResponseIsGood
  BY <1>1 DEF DeliveryInv
<1>3. /\ where' \in [Player -> Where] /\ where'[p] = "ended" /\ \A q \in Player : q # p => where'[q] = where[q]
  BY <1>1, <1>2 DEF Where, DeliveryTypes
<1>4. \A q \in Player : Plays(q) <=> Plays(q)'
  BY <1>1, <1>3 DEF Plays
<1>5. ResponseIsGood'
  BY <1>1, <1>2, <1>4, ResponseStays
<1>6. DeliveryTypes'
  BY <1>1, <1>2, <1>3 DEF DeliveryTypes
<1>7. OnePlays'
  BY <1>1, <1>2, <1>4 DEF OnePlays
<1>8. ClientIsWhereStreamIs'
  <2>1. \A q \in Player : q # p => where[q] = "none"
    BY <1>1, <1>2 DEF OnePlays, Plays
  <2> QED
    BY <1>1, <1>2, <1>3, <2>1 DEF ClientIsWhereStreamIs, Between
<1> QED
  BY <1>5, <1>6, <1>7, <1>8 DEF DeliveryInv

\* The inductive invariant of the delivery of RTMP messages
\* (ozRtmpSession.cpp:485-556, 607-636, ozRtmpStream.cpp:43-106, 176-183).
THEOREM DeliveryInvariant == DeliverySpec => []DeliveryInv
<1>1. ASSUME DeliveryInv, [DeliveryNext]_deliveryVars PROVE DeliveryInv'
  <2>1. ASSUME ~race' PROVE DeliveryInv'
    <3>1. CASE UNCHANGED deliveryVars
      <4>1. /\ ~race /\ UNCHANGED << mTxChunkSize, response, where, payload, video, mInitialFrames, videos, mState, client, race >>
        BY <2>1, <3>1 DEF deliveryVars
      <4>2. DeliveryTypes /\ OnePlays /\ ClientIsWhereStreamIs /\ ResponseIsGood
        BY <1>1, <4>1 DEF DeliveryInv
      <4>3. ResponseIsGood'
        BY <4>1, <4>2, ResponseStays DEF Plays
      <4>4. DeliveryTypes' /\ OnePlays' /\ ClientIsWhereStreamIs'
        BY <4>1, <4>2 DEF DeliveryTypes, OnePlays, Plays, ClientIsWhereStreamIs, InVideo, Between
      <4> QED
        BY <4>3, <4>4 DEF DeliveryInv
    <3>2. CASE HandleCommand
      BY <1>1, <2>1, <3>2, CommandGood
    <3>3. CASE SendResponse
      BY <1>1, <2>1, <3>3, SendResponseGood
    <3>4. ASSUME NEW p \in Player, HandlePlay(p) PROVE DeliveryInv'
      BY <1>1, <2>1, <3>4, PlayGood
    <3>5. ASSUME NEW p \in Player, HandleClose(p) PROVE DeliveryInv'
      BY <1>1, <2>1, <3>5, CloseGood
    <3>6. ASSUME NEW p \in Player, SendMeta(p) PROVE DeliveryInv'
      BY <1>1, <2>1, <3>6, MetaGood
    <3>7. ASSUME NEW p \in Player, ContinueVideo(p) PROVE DeliveryInv'
      BY <1>1, <2>1, <3>7, ContinueGood
    <3>8. ASSUME NEW p \in Player, End(p) PROVE DeliveryInv'
      BY <1>1, <2>1, <3>8, EndGood
    <3>9. ASSUME NEW p \in Player, NEW len \in Lengths, BeginVideo(p, len) PROVE DeliveryInv'
      BY <1>1, <2>1, <3>9, BeginGood
    <3> QED
      BY <1>1, <3>1, <3>2, <3>3, <3>4, <3>5, <3>6, <3>7, <3>8, <3>9 DEF DeliveryNext
  <2>2. CASE race'
    BY <2>2 DEF DeliveryInv
  <2> QED
    BY <2>1, <2>2
<1> QED
  BY <1>1, DeliveryInvInit, PTL DEF DeliverySpec

\* For every size of chunks and of messages, the client puts each message together again
\* (ozRtmpSession.cpp:485-556, 607-636, ozRtmpConnection.cpp:316-327, ozRtmpStream.cpp:43-106, 176-183).
THEOREM ClientAlwaysUnderstands == DeliverySpec => []ClientUnderstands
<1>1. DeliveryInv => ClientUnderstands
  <2> SUFFICES ASSUME DeliveryInv, ~race
               PROVE  /\ ~client.wrong
                      /\ \A p \in Player : where[p] = "loop" => client.open[CONTROL] = Nothing
    BY DEF ClientUnderstands
  <2>1. OnePlays /\ ClientIsWhereStreamIs
    BY DEF DeliveryInv
  <2>2. ~client.wrong
    BY <2>1 DEF ClientIsWhereStreamIs, Between, InVideo
  <2>3. ASSUME NEW p \in Player, where[p] = "loop" PROVE client.open[CONTROL] = Nothing
    <3>1. \A q \in Player : where[q] # "sending"
      BY <2>1, <2>3 DEF OnePlays, Plays
    <3> QED
      BY <2>1, <3>1, Streams3 DEF ClientIsWhereStreamIs, Between
  <2> QED
    BY <2>2, <2>3
<1> QED
  BY <1>1, DeliveryInvariant, PTL

=============================================================================
