------------------------- MODULE FilterChain_proofs -------------------------
(***************************************************************************)
(* Proofs about FilterChain: every filter knows the format of the pictures *)
(* it is given, for any chain of filters, any pictures and any times.      *)
(***************************************************************************)
EXTENDS FilterChain, SequenceTheorems, TLAPS

-----------------------------------------------------------------------------
(***************************************************************************)
(* What the providers declare, and the frames that go down the chain.      *)
(***************************************************************************)

(***************************************************************************)
(* What the providers declare                                              *)
(***************************************************************************)
LEMMA ChainIs ==
  ASSUME chain \in Chains
  PROVE  /\ Len(chain) \in 1 .. 4 /\ \A n \in Filter : chain[n] \in Filters
         /\ Filter = Nodes \ {0} /\ \A n \in Filter : n \in 1 .. 4 /\ n - 1 \in Nodes
<1>1. chain \in Seq(Filters) /\ Len(chain) \in 1 .. 4
  BY ChainAssumption
<1>2. \A n \in 1 .. Len(chain) : chain[n] \in Filters
  BY <1>1
<1>3. Filter = Nodes \ {0} /\ \A n \in Filter : n \in 1 .. 4 /\ n - 1 \in Nodes
  <2> DEFINE n == Len(chain)
  <2>1. n \in 1 .. 4
    BY <1>1
  <2> HIDE DEF n
  <2>2. 1 .. n = (0 .. n) \ {0}
    BY <2>1
  <2>3. \A m \in 1 .. n : m \in 1 .. 4 /\ m - 1 \in 0 .. n
    BY <2>1
  <2> QED
    BY <2>2, <2>3 DEF n, Filter, Nodes
<1> QED
  BY <1>1, <1>2, <1>3 DEF Filter

(* A function as the recursive definition asks for exists, so Declares is one. *)
LEMMA DeclaresIs ==
  /\ Declares[0] = picture
  /\ \A n \in 1 .. 4 : Declares[n] = IF n \notin Nodes THEN Nothing ELSE Answers(n, Declares[n - 1])
<1> DEFINE Next1(n, d) == IF n \notin Nodes THEN Nothing ELSE Answers(n, d)
           F(f) == [n \in 0 .. 4 |-> IF n = 0 THEN picture
                                     ELSE IF n \notin Nodes THEN Nothing ELSE Answers(n, f[n - 1])]
           d1 == Next1(1, picture)
           d2 == Next1(2, d1)
           d3 == Next1(3, d2)
           d4 == Next1(4, d3)
           g == [n \in 0 .. 4 |-> IF n = 0 THEN picture ELSE IF n = 1 THEN d1 ELSE IF n = 2 THEN d2
                                  ELSE IF n = 3 THEN d3 ELSE d4]
<1>1. \A f : F(f) = [n \in 0 .. 4 |-> IF n = 0 THEN picture ELSE Next1(n, f[n - 1])]
  OBVIOUS
<1>2. g = F(g)
  <2> HIDE DEF F
  <2>1. /\ d1 = Next1(1, picture) /\ d2 = Next1(2, d1) /\ d3 = Next1(3, d2) /\ d4 = Next1(4, d3)
    OBVIOUS
  <2> HIDE DEF Next1, d1, d2, d3, d4
  <2>2. g[0] = picture /\ g[1] = d1 /\ g[2] = d2 /\ g[3] = d3 /\ g[4] = d4
    OBVIOUS
  <2>3. \A n \in 0 .. 4 : g[n] = IF n = 0 THEN picture ELSE Next1(n, g[n - 1])
    <3>1. ASSUME NEW n \in 0 .. 4 PROVE g[n] = IF n = 0 THEN picture ELSE Next1(n, g[n - 1])
      <4> HIDE DEF g
      <4>1. n = 0 \/ (n = 1 /\ n - 1 = 0) \/ (n = 2 /\ n - 1 = 1) \/ (n = 3 /\ n - 1 = 2) \/ (n = 4 /\ n - 1 = 3)
        OBVIOUS
      <4> QED
        BY <4>1, <2>1, <2>2
    <3> QED
      BY <3>1
  <2>4. g = [n \in 0 .. 4 |-> g[n]]
    OBVIOUS
  <2> HIDE DEF g
  <2> QED
    BY <1>1, <2>3, <2>4
<1>3. Declares = CHOOSE f : f = F(f)
  BY DEF Declares
<1> HIDE DEF g, F
<1>4. Declares = F(Declares)
  BY <1>2, <1>3
<1>5. Declares = [n \in 0 .. 4 |-> IF n = 0 THEN picture ELSE Next1(n, Declares[n - 1])]
  BY <1>1, <1>4
<1> QED
  BY <1>5

Knows(n, out) == /\ Declares[n] \in {Nothing, out[n]}
                 /\ Declares[n] = Nothing => \E k \in Filter : ~linked[k]

LEMMA FormatsDiffer == \A p \in Picture : p.format # Nothing.format => p # Nothing
BY DEF Picture, Nothing

LEMMA KnowsNext ==
  ASSUME NEW out, ChainTyped, IsOut(out), NEW n \in Filter, Scales(n, out), Knows(n - 1, out)
  PROVE  Knows(n, out)
<1>1. n \in 1 .. 4 /\ n \in Nodes /\ n - 1 \in Nodes /\ chain[n] \in Filters
  BY ChainIs DEF ChainTyped
<1>2. Declares[n] = Answers(n, Declares[n - 1])
  BY <1>1, DeclaresIs
<1>3. out[n] = Passed(n, out[n - 1]) /\ out[n - 1] \in Picture /\ out[n] \in Picture
      /\ out[n].format # Nothing.format /\ out[n] # Nothing
  BY <1>1, FormatsDiffer DEF IsOut
<1>4. CASE chain[n] = "convert"
  BY <1>2, <1>3, <1>4 DEF Answers, Passed, Knows
<1>5. CASE chain[n] # "convert" /\ (~linked[n] \/ Declares[n - 1] = Nothing)
  BY <1>2, <1>5 DEF Answers, Knows
<1>6. CASE chain[n] # "convert" /\ linked[n] /\ Declares[n - 1] # Nothing
  <2>1. Declares[n - 1] = out[n - 1]
    BY <1>6 DEF Knows
  <2>2. CASE chain[n] = "scale"
    <3>1. mScaleWidth[n] = mScale(out[n - 1].width)
      BY <2>2 DEF Scales
    <3>2. Declares[n] = [out[n - 1] EXCEPT !.width = mScaleWidth[n]]
      BY <1>2, <1>6, <2>1, <2>2 DEF Answers
    <3>3. out[n] = [out[n - 1] EXCEPT !.width = mScale(out[n - 1].width)]
      BY <1>3, <2>2 DEF Passed
    <3>4. Declares[n] = out[n]
      BY <3>1, <3>2, <3>3
    <3> QED
      BY <3>4, <1>3 DEF Knows
  <2>3. CASE chain[n] = "stamp"
    <3>1. Declares[n] = [out[n - 1] EXCEPT !.format = Native(out[n - 1].format)]
      BY <1>2, <1>6, <2>1, <2>3 DEF Answers
    <3>2. out[n] = [out[n - 1] EXCEPT !.format = Native(out[n - 1].format)]
      BY <1>3, <2>3 DEF Passed
    <3> QED
      BY <3>1, <3>2, <1>3 DEF Knows
  <2>4. CASE chain[n] # "scale" /\ chain[n] # "stamp"
    <3>1. Declares[n] = out[n - 1] /\ out[n] = out[n - 1]
      BY <1>2, <1>3, <1>6, <2>1, <2>4 DEF Answers, Passed
    <3> QED
      BY <3>1, <1>3 DEF Knows
  <2> QED
    BY <2>2, <2>3, <2>4
<1> QED
  BY <1>4, <1>5, <1>6

(* Where the filters up to n know what they scale to, n declares what it sends, unless one has left. *)
LEMMA DeclaresOut ==
  ASSUME NEW out, ChainTyped, IsOut(out), NEW n \in Nodes, ScalesTo(n, out)
  PROVE  Knows(n, out)
<1>1. n \in 0 .. 4 /\ \A k \in 1 .. 4 : k <= n => k \in Filter
  BY ChainIs DEF ChainTyped, Nodes, Filter
<1>2. Knows(0, out)
  BY DeclaresIs, FormatsDiffer, 0 \in Nodes, ChainIs DEF IsOut, Knows, ChainTyped, Nodes
<1>3. ASSUME NEW k \in 1 .. 4, k <= n, Knows(k - 1, out) PROVE Knows(k, out)
  BY <1>1, <1>3, KnowsNext DEF ScalesTo
<1>4. 1 <= n => Knows(1, out)
  BY <1>2, <1>3
<1>5. 2 <= n => Knows(2, out)
  BY <1>1, <1>3, <1>4
<1>6. 3 <= n => Knows(3, out)
  BY <1>1, <1>3, <1>5
<1>7. 4 <= n => Knows(4, out)
  BY <1>1, <1>3, <1>6
<1> QED
  BY <1>1, <1>2, <1>4, <1>5, <1>6, <1>7

(***************************************************************************)
(* What is sent from the first picture on                                  *)
(***************************************************************************)
LEMMA NativeFormat ==
  ASSUME NEW f \in Format, f # Nothing.format
  PROVE  Native(f) \in Format /\ Native(f) # Nothing.format
<1>1. "yuv444" \in Format
  BY DEF Format
<1>2. "yuv444" # Nothing.format
  BY DEF Nothing
<1>3. Native(f) = "yuv444" \/ Native(f) = f
  BY DEF Native
<1> QED
  BY <1>1, <1>2, <1>3

LEMMA PassedOn ==
  ASSUME chain \in Chains, NEW n \in Filter, NEW p \in Picture, p.format # Nothing.format
  PROVE  Passed(n, p) \in Picture /\ Passed(n, p).format # Nothing.format
<1>1. chain[n] \in Filters
  BY ChainIs
<1>2. CASE chain[n] = "convert"
  BY <1>2, ChainAssumption DEF Passed
<1>3. CASE chain[n] = "scale"
  <2>1. Passed(n, p) = [p EXCEPT !.width = mScale(p.width)] /\ mScale(p.width) \in Nat
    BY <1>3 DEF Passed, mScale, Picture
  <2> HIDE DEF mScale
  <2>2. [p EXCEPT !.width = mScale(p.width)] \in Picture /\ [p EXCEPT !.width = mScale(p.width)].format = p.format
    BY <2>1 DEF Picture
  <2> QED
    BY <2>1, <2>2
<1>4. CASE chain[n] = "stamp"
  <2> DEFINE f == Native(p.format)
  <2>1. f \in Format /\ f # Nothing.format
    BY NativeFormat DEF Picture
  <2>2. Passed(n, p) = [p EXCEPT !.format = f]
    BY <1>4 DEF Passed
  <2> HIDE DEF f
  <2>3. [p EXCEPT !.format = f] \in Picture /\ [p EXCEPT !.format = f].format = f
    BY <2>1 DEF Picture
  <2> QED
    BY <2>1, <2>2, <2>3
<1>5. CASE chain[n] \notin {"convert", "scale", "stamp"}
  BY <1>5 DEF Passed
<1> QED
  BY <1>2, <1>3, <1>4, <1>5

LEMMA OutExists ==
  ASSUME chain \in Chains, picture \in Pictures
  PROVE  \E out : IsOut(out)
<1> DEFINE o1 == Passed(1, picture)
           o2 == Passed(2, o1)
           o3 == Passed(3, o2)
           o4 == Passed(4, o3)
           Good(p) == p \in Picture /\ p.format # Nothing.format
           out == [n \in Nodes |-> IF n = 0 THEN picture ELSE IF n = 1 THEN o1 ELSE IF n = 2 THEN o2
                                   ELSE IF n = 3 THEN o3 ELSE o4]
<1>1. Good(picture)
  BY ChainAssumption
<1>2. \A n \in Filter : \A p : Good(p) => Good(Passed(n, p))
  BY PassedOn
<1>3. /\ Nodes \subseteq 0 .. 4 /\ Filter = Nodes \ {0} /\ 0 \in Nodes
      /\ \A n \in Nodes : n > 0 => n - 1 \in Nodes
  BY ChainIs DEF Nodes, Filter
<1>4. /\ 1 \in Nodes => o1 = Passed(1, picture) /\ Good(o1)
      /\ 2 \in Nodes => o2 = Passed(2, o1) /\ Good(o2)
      /\ 3 \in Nodes => o3 = Passed(3, o2) /\ Good(o3)
      /\ 4 \in Nodes => o4 = Passed(4, o3) /\ Good(o4)
  <2> HIDE DEF Good
  <2>1. 1 \in Nodes => o1 = Passed(1, picture) /\ Good(o1)
    BY <1>1, <1>2, <1>3
  <2>2. 2 \in Nodes => 1 \in Nodes /\ o2 = Passed(2, o1) /\ Good(o2)
    BY <2>1, <1>2, <1>3
  <2>3. 3 \in Nodes => 2 \in Nodes /\ o3 = Passed(3, o2) /\ Good(o3)
    BY <2>2, <1>2, <1>3
  <2>4. 4 \in Nodes => o4 = Passed(4, o3) /\ Good(o4)
    BY <2>3, <1>2, <1>3
  <2> QED
    BY <2>1, <2>2, <2>3, <2>4
<1> HIDE DEF o1, o2, o3, o4, Good
<1>5. \A n \in Nodes : out[n] = IF n = 0 THEN picture ELSE IF n = 1 THEN o1 ELSE IF n = 2 THEN o2
                                   ELSE IF n = 3 THEN o3 ELSE o4
  OBVIOUS
<1>6. out = [n \in Nodes |-> out[n]]
  OBVIOUS
<1> HIDE DEF out
<1>7. \A n \in Nodes : Good(out[n])
  BY <1>1, <1>3, <1>4, <1>5
<1>8. ASSUME NEW n \in Filter PROVE out[n] = Passed(n, out[n - 1])
  <2>1. n \in Nodes /\ n - 1 \in Nodes
    BY <1>3
  <2>2. (n = 1 /\ n - 1 = 0) \/ (n = 2 /\ n - 1 = 1) \/ (n = 3 /\ n - 1 = 2) \/ (n = 4 /\ n - 1 = 3)
    BY <1>3
  <2> QED
    BY <2>1, <2>2, <1>4, <1>5
<1>9. out \in [Nodes -> Picture] /\ out[0] = picture /\ \A n \in Nodes : out[n].format # Nothing.format
  BY <1>3, <1>5, <1>6, <1>7 DEF Good
<1> QED
  BY <1>8, <1>9 DEF IsOut

(***************************************************************************)
(* A frame is sent                                                         *)
(***************************************************************************)

(* Every frame on the queues of w was there, or is the new one. *)
Came(w, n, frame) ==
  /\ w \in [Filter -> Seq(SentFrame)]
  /\ \A m \in Filter : \A i \in DOMAIN w[m] :
        \/ m # n /\ i \in DOMAIN waiting[m] /\ w[m][i] = waiting[m][i]
        \/ m = n /\ i + 1 \in DOMAIN waiting[m] /\ w[m][i] = waiting[m][i + 1]
        \/ m = n + 1 /\ i = Len(waiting[m]) + 1 /\ w[m][i] = frame

HasAppended(a, s, f) ==
  /\ a \in Seq(SentFrame)
  /\ \A i \in DOMAIN a : (i \in DOMAIN s /\ a[i] = s[i]) \/ (i = Len(s) + 1 /\ a[i] = f)

LEMMA AppendIs ==
  ASSUME NEW s \in Seq(SentFrame), NEW f \in SentFrame
  PROVE  HasAppended(Append(s, f), s, f)
<1>1. DOMAIN Append(s, f) = 1 .. Len(s) + 1 /\ DOMAIN s = 1 .. Len(s) /\ Len(s) \in Nat
  OBVIOUS
<1>2. \A i \in 1 .. Len(s) : Append(s, f)[i] = s[i]
  OBVIOUS
<1>3. Append(s, f)[Len(s) + 1] = f
  OBVIOUS
<1> DEFINE a == Append(s, f)
           l == Len(s)
<1>4. \A i \in 1 .. l + 1 : i \in 1 .. l \/ i = l + 1
  BY <1>1
<1>5. /\ a \in Seq(SentFrame) /\ DOMAIN a = 1 .. l + 1 /\ DOMAIN s = 1 .. l /\ l \in Nat
      /\ a[l + 1] = f /\ \A i \in 1 .. l : a[i] = s[i]
  BY <1>1, <1>2, <1>3
<1> HIDE DEF a, l
<1>6. \A i \in DOMAIN a : (i \in DOMAIN s /\ a[i] = s[i]) \/ (i = l + 1 /\ a[i] = f)
  BY <1>4, <1>5
<1>7. HasAppended(a, s, f)
  BY <1>5, <1>6 DEF HasAppended, l
<1> QED
  BY <1>7 DEF a

LEMMA TailIs ==
  ASSUME NEW s \in Seq(SentFrame), s # << >>
  PROVE  /\ Tail(s) \in Seq(SentFrame) /\ 1 \in DOMAIN s /\ Head(s) = s[1]
         /\ \A i \in DOMAIN Tail(s) : i \in Nat /\ i + 1 \in DOMAIN s /\ Tail(s)[i] = s[i + 1]
<1>1. Len(s) \in Nat \ {0} /\ DOMAIN s = 1 .. Len(s)
  BY EmptySeq
<1>2. Tail(s) \in Seq(SentFrame) /\ DOMAIN Tail(s) = 1 .. Len(s) - 1
  BY <1>1
<1>3. \A i \in 1 .. Len(s) - 1 : i \in Nat /\ i + 1 \in 1 .. Len(s) /\ Tail(s)[i] = s[i + 1]
  BY <1>1
<1> QED
  BY <1>1, <1>2, <1>3

LEMMA FramesCome ==
  ASSUME ChainTyped, NEW n \in Nodes, NEW frame \in SentFrame, n \in Filter => waiting[n] # << >>,
         Distribute(n, frame)
  PROVE  Came(waiting', n, frame)
<1>1. waiting' = [m \in Filter |->
                    IF m = n + 1 /\ linked[m] THEN Append(waiting[m], frame)
                    ELSE IF m = n THEN Tail(waiting[m]) ELSE waiting[m]]
  <2> DEFINE to == { m \in Filter : m = n + 1 /\ linked[m] }
  <2>1. waiting' = [m \in Filter |->
                IF m \in to THEN Append(waiting[m], frame)
                ELSE IF m = n THEN Tail(waiting[m]) ELSE waiting[m]]
    BY DEF Distribute
  <2>2. \A m \in Filter : m \in to <=> m = n + 1 /\ linked[m]
    OBVIOUS
  <2> HIDE DEF to
  <2> QED
    BY <2>1, <2>2
<1>2. n \in Int /\ n + 1 # n /\ \A m \in Filter : waiting[m] \in Seq(SentFrame)
  BY DEF ChainTyped, Nodes
<1>3. ASSUME NEW m \in Filter
      PROVE  /\ waiting'[m] \in Seq(SentFrame)
             /\ \A i \in DOMAIN waiting'[m] :
                   \/ m # n /\ i \in DOMAIN waiting[m] /\ waiting'[m][i] = waiting[m][i]
                   \/ m = n /\ i + 1 \in DOMAIN waiting[m] /\ waiting'[m][i] = waiting[m][i + 1]
                   \/ m = n + 1 /\ i = Len(waiting[m]) + 1 /\ waiting'[m][i] = frame
  <2>1. CASE m = n + 1 /\ linked[m]
    <3>1. waiting'[m] = Append(waiting[m], frame) /\ m # n /\ waiting[m] \in Seq(SentFrame)
      BY <1>1, <1>2, <2>1
    <3> QED
      BY <2>1, <3>1, AppendIs DEF HasAppended
  <2>2. CASE ~(m = n + 1 /\ linked[m]) /\ m = n
    <3>1. waiting'[m] = Tail(waiting[m]) /\ waiting[m] \in Seq(SentFrame) /\ waiting[m] # << >>
      BY <1>1, <1>2, <2>2
    <3> QED
      BY <2>2, <3>1, TailIs
  <2>3. CASE ~(m = n + 1 /\ linked[m]) /\ m # n
    <3>1. waiting'[m] = waiting[m] /\ waiting[m] \in Seq(SentFrame)
      BY <1>1, <1>2, <2>3
    <3> QED
      BY <2>3, <3>1
  <2> QED
    BY <2>1, <2>2, <2>3
<1>4. waiting' \in [Filter -> Seq(SentFrame)]
  <2>1. waiting' = [m \in Filter |-> waiting'[m]]
    BY <1>1
  <2> QED
    BY <1>3, <2>1
<1> QED
  BY <1>3, <1>4 DEF Came

(* The frame is of the age of the first on the queue that it leaves, or a new one. *)
Aged(n, frame) == /\ n = 0 => frame.time = frames
                  /\ n # 0 => 1 \in DOMAIN waiting[n] /\ frame.time = waiting[n][1].time

LEMMA SentHold ==
  ASSUME NEW out, ChainTyped, FramesHold(out), NEW n \in Nodes, NEW frame, Came(waiting', n, frame),
         UNCHANGED chain, frame.holds = out[n], frame.declared = out[n]
  PROVE  FramesHold(out)'
<1>1. Filter' = Filter /\ n \in Int
  BY DEF Filter, ChainTyped, Nodes
<1>2. ASSUME NEW m \in Filter, NEW i \in DOMAIN waiting'[m]
      PROVE  waiting'[m][i].holds = out[m - 1] /\ waiting'[m][i].declared = out[m - 1]
  <2>1. CASE m # n /\ i \in DOMAIN waiting[m] /\ waiting'[m][i] = waiting[m][i]
    BY <2>1 DEF FramesHold
  <2>2. CASE m = n /\ i + 1 \in DOMAIN waiting[m] /\ waiting'[m][i] = waiting[m][i + 1]
    BY <2>2 DEF FramesHold
  <2>3. CASE m = n + 1 /\ i = Len(waiting[m]) + 1 /\ waiting'[m][i] = frame
    <3>1. m - 1 = n
      BY <1>1, <2>3
    <3> QED
      BY <2>3, <3>1
  <2> QED
    BY <2>1, <2>2, <2>3 DEF Came
<1> QED
  BY <1>1, <1>2 DEF FramesHold

LEMMA TimesAre ==
  ASSUME ChainTyped
  PROVE  \A m \in Filter : /\ m \in Nat /\ waiting[m] \in Seq(SentFrame)
                          /\ \A i \in DOMAIN waiting[m] : i \in Nat /\ i >= 1 /\ i <= Len(waiting[m]) /\ waiting[m][i].time \in Nat
                          /\ Len(waiting[m]) \in Nat
<1> SUFFICES ASSUME NEW m \in Filter
             PROVE  /\ m \in Nat /\ waiting[m] \in Seq(SentFrame) /\ Len(waiting[m]) \in Nat
                    /\ \A i \in DOMAIN waiting[m] : i \in Nat /\ i >= 1 /\ i <= Len(waiting[m]) /\ waiting[m][i].time \in Nat
  OBVIOUS
<1>1. m \in Nat /\ waiting[m] \in Seq(SentFrame)
  BY DEF ChainTyped, Filter
<1>2. DOMAIN waiting[m] = 1 .. Len(waiting[m]) /\ Len(waiting[m]) \in Nat
  BY <1>1
<1>3. \A i \in DOMAIN waiting[m] : waiting[m][i] \in SentFrame
  BY <1>1
<1>4. \A i \in DOMAIN waiting[m] : waiting[m][i].time \in Nat
  BY <1>3 DEF SentFrame
<1> QED
  BY <1>1, <1>2, <1>4

LEMMA SentInOrder ==
  ASSUME ChainTyped, FramesInOrder, NEW n \in Nodes, NEW frame \in SentFrame, Came(waiting', n, frame),
         UNCHANGED chain, frames' \in Nat, Aged(n, frame), n = 0 => frames' > frames, n # 0 => frames' = frames
  PROVE  FramesInOrder'
<1>1. Filter' = Filter /\ n \in Nat /\ frames \in Nat /\ frames <= frames' /\ frame.time \in Nat
      /\ (n # 0 => n \in Filter)
  BY ChainIs DEF Filter, ChainTyped, Nodes, SentFrame
<1> DEFINE New(m, i) == m = n + 1 /\ i = Len(waiting[m]) + 1 /\ waiting'[m][i] = frame
           at(m, i) == IF m = n THEN i + 1 ELSE i
           Old(m, i) == at(m, i) \in DOMAIN waiting[m] /\ waiting'[m][i] = waiting[m][at(m, i)]
<1>2. \A m \in Filter : \A i \in DOMAIN waiting'[m] : i \in Nat /\ i >= 1 /\ (Old(m, i) \/ New(m, i))
  <2>1. ASSUME NEW m \in Filter, NEW i \in DOMAIN waiting'[m] PROVE Old(m, i) \/ New(m, i)
    <3>1. CASE m # n /\ i \in DOMAIN waiting[m] /\ waiting'[m][i] = waiting[m][i]
      BY <3>1
    <3>2. CASE m = n /\ i + 1 \in DOMAIN waiting[m] /\ waiting'[m][i] = waiting[m][i + 1]
      BY <3>2
    <3>3. CASE m = n + 1 /\ i = Len(waiting[m]) + 1 /\ waiting'[m][i] = frame
      BY <3>3
    <3> QED
      BY <3>1, <3>2, <3>3 DEF Came
  <2>2. ASSUME NEW m \in Filter, NEW i \in DOMAIN waiting'[m] PROVE i \in Nat /\ i >= 1
    <3>1. waiting'[m] \in Seq(SentFrame)
      BY DEF Came
    <3> QED
      BY <3>1
  <2> QED
    BY <2>1, <2>2
<1>3. \A m \in Filter : \A i \in DOMAIN waiting[m] :
        /\ m \in Nat /\ i \in Nat /\ i >= 1 /\ i <= Len(waiting[m]) /\ Len(waiting[m]) \in Nat
        /\ waiting[m][i].time \in Nat /\ waiting[m][i].time < frames
  BY TimesAre DEF FramesInOrder
(* The frame sent is younger than all further on, and older than all before. *)
<1>4. ASSUME NEW m \in Filter, NEW i \in DOMAIN waiting[m], m > n PROVE waiting[m][i].time < frame.time
  <2>1. CASE n = 0
    BY <2>1, <1>3 DEF Aged
  <2>2. CASE n # 0
    BY <1>1, <1>4, <2>2 DEF Aged, FramesInOrder
  <2> QED
    BY <2>1, <2>2
<1>5. ASSUME NEW m \in Filter, NEW i \in DOMAIN waiting'[m], m <= n, Old(m, i) PROVE frame.time < waiting'[m][i].time
  <2>1. n # 0 /\ n \in Filter /\ 1 \in DOMAIN waiting[n] /\ frame.time = waiting[n][1].time
    BY <1>1, <1>5 DEF Aged, Filter
  <2>2. CASE m = n
    <3>1. i + 1 \in DOMAIN waiting[n] /\ waiting'[m][i] = waiting[n][i + 1] /\ 1 < i + 1
      BY <2>2, <1>2, <1>5
    <3> QED
      BY <2>1, <3>1, <2>2 DEF FramesInOrder
  <2>3. CASE m # n
    <3>1. m < n /\ i \in DOMAIN waiting[m] /\ waiting'[m][i] = waiting[m][i]
      BY <2>3, <1>1, <1>5 DEF Filter
    <3> QED
      BY <2>1, <3>1 DEF FramesInOrder
  <2> QED
    BY <2>2, <2>3
<1>6. frame.time < frames'
  BY <1>1, <1>3 DEF Aged
<1> HIDE DEF New, Old, at
<1>7. ASSUME NEW m \in Filter, NEW i \in DOMAIN waiting'[m] PROVE waiting'[m][i].time < frames'
  <2>1. CASE New(m, i)
    BY <2>1, <1>6 DEF New
  <2>2. CASE Old(m, i)
    BY <2>2, <1>1, <1>3 DEF Old
  <2> QED
    BY <1>2, <2>1, <2>2
<1>8. ASSUME NEW m \in Filter, NEW i \in DOMAIN waiting'[m], NEW j \in DOMAIN waiting'[m], i < j
      PROVE  waiting'[m][i].time < waiting'[m][j].time
  <2>0. i \in Nat /\ j \in Nat /\ at(m, i) < at(m, j)
    BY <1>2, <1>8 DEF at
  <2>1. CASE Old(m, i) /\ Old(m, j)
    BY <2>0, <2>1 DEF Old, FramesInOrder
  <2>2. CASE Old(m, i) /\ New(m, j)
    <3>1. m = n + 1 /\ m > n /\ waiting'[m][j] = frame /\ i \in DOMAIN waiting[m] /\ waiting'[m][i] = waiting[m][i]
      BY <1>1, <2>2 DEF New, Old, at
    <3> QED
      BY <3>1, <1>4
  <2>3. CASE New(m, i)
    <3>1. m = n + 1 /\ m # n /\ i = Len(waiting[m]) + 1
      BY <1>1, <2>3 DEF New
    <3>2. CASE New(m, j)
      BY <1>8, <3>1, <3>2, <2>0 DEF New
    <3>3. CASE Old(m, j)
      <4>1. j \in DOMAIN waiting[m]
        BY <3>1, <3>3 DEF Old, at
      <4> QED
        BY <1>3, <1>8, <3>1, <4>1
    <3> QED
      BY <1>2, <3>2, <3>3
  <2> QED
    BY <1>2, <2>1, <2>2, <2>3
<1>9. ASSUME NEW m \in Filter, NEW i \in DOMAIN waiting'[m], NEW k \in Filter, m < k, NEW j \in DOMAIN waiting'[k]
      PROVE  waiting'[k][j].time < waiting'[m][i].time
  <2>0. m \in Nat /\ k \in Nat
    BY DEF Filter
  <2>1. CASE Old(m, i) /\ Old(k, j)
    BY <1>9, <2>1 DEF Old, FramesInOrder
  <2>2. CASE New(m, i)
    <3>1. m = n + 1 /\ waiting'[m][i] = frame /\ k > n /\ k # n /\ k # n + 1
      BY <1>1, <1>9, <2>0, <2>2 DEF New
    <3>2. j \in DOMAIN waiting[k] /\ waiting'[k][j] = waiting[k][j]
      BY <1>2, <3>1 DEF New, Old, at
    <3> QED
      BY <1>4, <3>1, <3>2
  <2>3. CASE Old(m, i) /\ New(k, j)
    <3>1. m <= n /\ waiting'[k][j] = frame
      BY <1>1, <1>9, <2>0, <2>3 DEF New
    <3> QED
      BY <1>5, <2>3, <3>1
  <2> QED
    BY <1>2, <2>1, <2>2, <2>3
<1> QED
  BY <1>1, <1>7, <1>8, <1>9 DEF FramesInOrder

(***************************************************************************)
(* The steps                                                               *)
(***************************************************************************)

(* The queues are as they were, or emptied. *)
LEMMA EmptiedFrames ==
  ASSUME NEW out, ChainTyped, FramesHold(out), FramesInOrder, UNCHANGED << chain, frames >>,
         \A m \in Filter : waiting'[m] = waiting[m] \/ waiting'[m] = << >>
  PROVE  FramesHold(out)' /\ FramesInOrder'
<1>1. Filter' = Filter
  BY DEF Filter
<1>2. \A m \in Filter : \A i \in DOMAIN waiting'[m] : i \in DOMAIN waiting[m] /\ waiting'[m][i] = waiting[m][i]
  <2>1. DOMAIN << >> = {}
    OBVIOUS
  <2> QED
    BY <2>1
<1>3. FramesHold(out)'
  BY <1>1, <1>2 DEF FramesHold
<1>4. FramesInOrder'
  <2>1. ASSUME NEW m \in Filter, NEW i \in DOMAIN waiting'[m]
        PROVE  /\ waiting'[m][i].time < frames'
               /\ \A j \in DOMAIN waiting'[m] : i < j => waiting'[m][i].time < waiting'[m][j].time
               /\ \A n \in Filter : m < n => \A j \in DOMAIN waiting'[n] : waiting'[n][j].time < waiting'[m][i].time
    BY <1>2 DEF FramesInOrder
  <2> QED
    BY <1>1, <2>1 DEF FramesInOrder
<1> QED
  BY <1>3, <1>4

LEMMA SameOut ==
  ASSUME NEW out, IsOut(out), UNCHANGED fixed
  PROVE  IsOut(out)' /\ Filter' = Filter /\ Nodes' = Nodes
BY DEF IsOut, fixed, Passed, Filter, Nodes

LEMMA SameScales ==
  ASSUME NEW out, NEW n, UNCHANGED << chain, mScaleWidth >>
  PROVE  (Scales(n, out)' <=> Scales(n, out)) /\ (ScalesTo(n, out)' <=> ScalesTo(n, out))
BY DEF Scales, ScalesTo, Filter

(* No frame is sent and nothing is read. *)
LEMMA QuietStep ==
  ASSUME NEW out, ChainInvOf(out), ChainTyped', UNCHANGED << fixed, frames, mScaleWidth, declared >>,
         \A m \in Filter : waiting'[m] = waiting[m] \/ waiting'[m] = << >>,
         \A m \in Filter : \/ stage'[m] = stage[m] \/ stage'[m] \notin Inside \cup {"read"} \/ stage[m] \in Inside
                           \/ stage'[m] = "read" /\ nodeState[m - 1] = "ready"
                           \/ stage[m] = "read" /\ chain[m] = "video",
         \A m \in Nodes : nodeState'[m] = "ready" => nodeState[m] = "ready",
         died' => died \/ \E m \in Filter : ~linked[m],
         \A m \in Filter : linked'[m] => linked[m]
  PROVE  ChainInvOf(out)'
<1>1. IsOut(out)' /\ Filter' = Filter /\ Nodes' = Nodes
  BY SameOut DEF ChainInvOf
<1>2. chain' = chain /\ mScaleWidth' = mScaleWidth /\ declared' = declared /\ frames' = frames
  BY DEF fixed
<1>3. ReadyScales(out)'
  <2>1. \A m \in Nodes : nodeState'[m] = "ready" => ScalesTo(m, out)'
    BY <1>2, SameScales DEF ChainInvOf, ReadyScales
  <2> QED
    BY <1>1, <2>1 DEF ReadyScales
<1>4. ReadersScale(out)'
  <2>1. ASSUME NEW m \in Filter, stage'[m] \in Inside \cup {"read"} PROVE ScalesTo(m - 1, out)
    <3>1. m - 1 \in Nodes
      BY ChainIs DEF ChainInvOf, ChainTyped
    <3>2. stage[m] \in Inside \cup {"read"} \/ nodeState[m - 1] = "ready"
      BY <2>1
    <3> QED
      BY <3>1, <3>2 DEF ChainInvOf, ReadersScale, ReadyScales
  <2>2. \A m \in Filter : stage'[m] \in Inside \cup {"read"} => ScalesTo(m - 1, out)'
    BY <1>2, <2>1, SameScales
  <2> QED
    BY <1>1, <2>2 DEF ReadersScale
<1>5. HasRead(out)'
  <2>1. ASSUME NEW m \in Filter, stage'[m] \in Inside
        PROVE  Scales(m, out) /\ (chain[m] # "video" => declared[m] = out[m - 1])
    <3>1. stage[m] \in Inside \/ chain[m] = "video"
      BY <2>1 DEF Inside
    <3>2. CASE stage[m] \in Inside
      BY <3>2 DEF ChainInvOf, HasRead
    <3>3. CASE chain[m] = "video"
      BY <3>3 DEF Scales
    <3> QED
      BY <3>1, <3>2, <3>3
  <2>2. \A m \in Filter : stage'[m] \in Inside =>
            Scales(m, out)' /\ (chain'[m] # "video" => declared'[m] = out[m - 1])
    BY <1>2, <2>1, SameScales
  <2> QED
    BY <1>1, <2>2 DEF HasRead
<1>6. FramesHold(out)' /\ FramesInOrder'
  BY <1>2, EmptiedFrames DEF ChainInvOf
<1>7. DiesOfAbsence'
  <2>1. died' => \E m \in Filter : ~linked[m]
    BY DEF ChainInvOf, DiesOfAbsence
  <2>2. died' => \E m \in Filter : ~linked'[m]
    BY <2>1
  <2> QED
    BY <1>1, <2>2 DEF DiesOfAbsence
<1> QED
  BY <1>1, <1>3, <1>4, <1>5, <1>6, <1>7 DEF ChainInvOf

(* A frame is sent by a node that is through with its wait, or by the source. *)
LEMMA SendStep ==
  ASSUME NEW out, ChainInvOf(out), NEW n \in Nodes, NEW frame \in SentFrame, Distribute(n, frame),
         UNCHANGED << fixed, stage, linked, declared, mScaleWidth, busy, died >>,
         frames' \in Nat, n = 0 => frames' > frames /\ frame.time = frames,
         n # 0 => /\ frames' = frames /\ stage[n] = "frames" /\ waiting[n] # << >>
                  /\ frame.time = Head(waiting[n]).time,
         frame.holds = out[n], frame.declared = out[n]
  PROVE  ChainInvOf(out)'
<1>1. IsOut(out)' /\ Filter' = Filter /\ Nodes' = Nodes
  BY SameOut DEF ChainInvOf
<1>2. /\ chain' = chain /\ mScaleWidth' = mScaleWidth /\ declared' = declared /\ stage' = stage /\ linked' = linked
      /\ busy' = busy /\ died' = died /\ picture' = picture /\ ChainTyped /\ (n # 0 <=> n \in Filter)
  BY ChainIs DEF fixed, ChainInvOf, ChainTyped
<1>3. Came(waiting', n, frame)
  BY <1>2, FramesCome
<1>4. nodeState' = [nodeState EXCEPT ![n] = IF @ = "wait" THEN "ready" ELSE @]
  BY DEF Distribute
<1>5. ChainTyped'
  <2>1. nodeState' \in [Nodes -> {"wait", "ready", "ended"}]
    BY <1>4 DEF ChainInvOf, ChainTyped
  <2>2. waiting' \in [Filter -> Seq(SentFrame)]
    BY <1>3 DEF Came
  <2> QED
    BY <1>1, <1>2, <2>1, <2>2 DEF ChainTyped
<1>6. ScalesTo(n, out)
  <2>1. CASE n = 0
    BY <2>1 DEF ScalesTo, Filter
  <2>2. CASE n # 0
    <3>1. ScalesTo(n - 1, out) /\ Scales(n, out) /\ n \in Nat
      BY <1>2, <2>2 DEF ChainInvOf, ReadersScale, HasRead, Inside, Nodes
    <3>2. \A k \in Filter : k <= n => k <= n - 1 \/ k = n
      BY <3>1 DEF Filter
    <3> QED
      BY <3>1, <3>2 DEF ScalesTo
  <2> QED
    BY <2>1, <2>2
<1>7. ReadyScales(out)'
  <2>1. ASSUME NEW m \in Nodes, nodeState'[m] = "ready" PROVE ScalesTo(m, out)'
    <3>1. m = n \/ nodeState[m] = "ready"
      BY <1>2, <1>4, <2>1 DEF ChainTyped
    <3>2. ScalesTo(m, out)
      BY <3>1, <1>6 DEF ChainInvOf, ReadyScales
    <3> QED
      BY <1>2, <3>2, SameScales
  <2> QED
    BY <1>1, <2>1 DEF ReadyScales
<1>8. ReadersScale(out)' /\ HasRead(out)'
  <2>1. \A m \in Filter : stage'[m] \in Inside \cup {"read"} => ScalesTo(m - 1, out)'
    BY <1>2, SameScales DEF ChainInvOf, ReadersScale
  <2>2. \A m \in Filter : stage'[m] \in Inside =>
            Scales(m, out)' /\ (chain'[m] # "video" => declared'[m] = out[m - 1])
    BY <1>2, SameScales DEF ChainInvOf, HasRead
  <2> QED
    BY <1>1, <2>1, <2>2 DEF ReadersScale, HasRead
<1>9. Aged(n, frame)
  <2>1. ASSUME n # 0 PROVE 1 \in DOMAIN waiting[n] /\ frame.time = waiting[n][1].time
    <3>1. waiting[n] \in Seq(SentFrame) /\ waiting[n] # << >>
      BY <1>2, <2>1 DEF ChainTyped
    <3> QED
      BY <2>1, <3>1, TailIs
  <2> QED
    BY <2>1 DEF Aged
<1>10. FramesHold(out)' /\ FramesInOrder'
  BY <1>2, <1>3, <1>9, SentHold, SentInOrder DEF ChainInvOf
<1>11. DiesOfAbsence'
  BY <1>1, <1>2 DEF ChainInvOf, DiesOfAbsence
<1> QED
  BY <1>1, <1>5, <1>7, <1>8, <1>10, <1>11 DEF ChainInvOf

LEMMA CaptureStep == ASSUME NEW out, ChainInvOf(out), Capture PROVE ChainInvOf(out)'
<1> DEFINE f == [holds |-> picture, declared |-> picture, time |-> frames, originator |-> 0]
<1>1. /\ frames' = frames + 1 /\ Distribute(0, f)
      /\ UNCHANGED << fixed, stage, linked, declared, mScaleWidth, busy, died >>
  BY DEF Capture
<1>2. frames \in Nat /\ picture \in Picture /\ 0 \in Nodes /\ out[0] = picture
  BY ChainAssumption, ChainIs DEF ChainInvOf, ChainTyped, IsOut, Nodes
<1>3. f \in SentFrame /\ f.holds = out[0] /\ f.declared = out[0] /\ f.time = frames
  BY <1>2 DEF SentFrame
<1>4. frames' \in Nat /\ frames' > frames
  BY <1>1, <1>2
<1> HIDE DEF f
<1> QED
  BY <1>1, <1>2, <1>3, <1>4, SendStep

LEMMA HeadIs ==
  ASSUME NEW out, ChainInvOf(out), NEW n \in Filter, waiting[n] # << >>
  PROVE  /\ Head(waiting[n]) \in SentFrame /\ Head(waiting[n]).holds = out[n - 1]
         /\ Head(waiting[n]).declared = out[n - 1]
<1>1. waiting[n] \in Seq(SentFrame)
  BY DEF ChainInvOf, ChainTyped
<1>2. 1 \in DOMAIN waiting[n] /\ Head(waiting[n]) = waiting[n][1]
  BY <1>1, TailIs
<1>3. waiting[n][1] \in SentFrame
  BY <1>1, <1>2
<1> QED
  BY <1>2, <1>3 DEF ChainInvOf, FramesHold

LEMMA WhenSending ==
  ASSUME NEW out, ChainInvOf(out), NEW n \in Filter, stage[n] = "frames"
  PROVE  /\ Scales(n, out) /\ (chain[n] # "video" => declared[n] = out[n - 1]) /\ ScalesTo(n, out)
         /\ out[n] = Passed(n, out[n - 1]) /\ out[n - 1] \in Picture /\ out[n] \in Picture
<1>1. n \in Nat /\ n \in Nodes /\ n - 1 \in Nodes
  BY ChainIs DEF ChainInvOf, ChainTyped, Filter
<1>2. Scales(n, out) /\ (chain[n] # "video" => declared[n] = out[n - 1]) /\ ScalesTo(n - 1, out)
  BY DEF ChainInvOf, HasRead, ReadersScale, Inside
<1>3. \A k \in Filter : k <= n => k <= n - 1 \/ k = n
  BY <1>1 DEF Filter
<1>4. ScalesTo(n, out)
  BY <1>2, <1>3 DEF ScalesTo
<1> QED
  BY <1>1, <1>2, <1>4 DEF ChainInvOf, IsOut

LEMMA SendAsIsStep == ASSUME NEW out, ChainInvOf(out), NEW n \in Filter, SendAsIs(n) PROVE ChainInvOf(out)'
<1> DEFINE f == Head(waiting[n])
<1>1. /\ stage[n] = "frames" /\ waiting[n] # << >> /\ AsIs(n) /\ Distribute(n, f)
      /\ UNCHANGED << fixed, frames, stage, linked, declared, mScaleWidth, busy, died >>
  BY DEF SendAsIs
<1>2. f \in SentFrame /\ f.holds = out[n - 1] /\ f.declared = out[n - 1]
  BY <1>1, HeadIs
<1> HIDE DEF f
<1>3. /\ Scales(n, out) /\ (chain[n] # "video" => declared[n] = out[n - 1])
      /\ out[n] = Passed(n, out[n - 1]) /\ out[n - 1] \in Picture
  BY <1>1, WhenSending
<1>4. out[n] = out[n - 1]
  <2>1. CASE chain[n] = "video"
    BY <1>3, <2>1 DEF Passed
  <2>2. CASE chain[n] = "convert"
    BY <1>1, <1>3, <2>2 DEF Passed, AsIs
  <2>3. CASE chain[n] = "scale"
    <3>1. out[n] = [out[n - 1] EXCEPT !.width = mScale(out[n - 1].width)]
      BY <1>3, <2>3 DEF Passed
    <3>2. mScale(out[n - 1].width) = out[n - 1].width
      BY <1>1, <1>3, <2>3 DEF AsIs, Scales
    <3> QED
      BY <1>3, <3>1, <3>2 DEF Picture
  <2> QED
    BY <1>1, <2>1, <2>2, <2>3 DEF AsIs
<1>5. n \in Nodes /\ n # 0 /\ frames \in Nat
  BY ChainIs DEF ChainInvOf, ChainTyped
<1>6. n # 0 => frames' = frames /\ stage[n] = "frames" /\ waiting[n] # << >> /\ f.time = Head(waiting[n]).time
  BY <1>1 DEF f
<1> QED
  BY <1>1, <1>2, <1>4, <1>5, <1>6, SendStep

LEMMA SendNewStep == ASSUME NEW out, ChainInvOf(out), NEW n \in Filter, SendNew(n) PROVE ChainInvOf(out)'
<1> DEFINE h == Head(waiting[n])
           f == NewFrame(n, h, Makes(n))
<1>1. /\ stage[n] = "frames" /\ waiting[n] # << >> /\ ~AsIs(n) /\ Declares[n] # Nothing /\ Distribute(n, f)
      /\ UNCHANGED << fixed, frames, stage, linked, declared, mScaleWidth, busy, died >>
  BY DEF SendNew
<1>2. h \in SentFrame /\ h.holds = out[n - 1]
  BY <1>1, HeadIs
<1>3. /\ Scales(n, out) /\ (chain[n] # "video" => declared[n] = out[n - 1]) /\ ScalesTo(n, out)
      /\ out[n] = Passed(n, out[n - 1]) /\ out[n - 1] \in Picture /\ out[n] \in Picture
  BY <1>1, WhenSending
<1>4. n \in Nodes /\ n # 0 /\ frames \in Nat /\ chain[n] \in Filters
  BY ChainIs DEF ChainInvOf, ChainTyped
<1>5. Declares[n] = out[n]
  <2>1. Knows(n, out)
    BY <1>3, <1>4, DeclaresOut DEF ChainInvOf
  <2> QED
    BY <1>1, <2>1 DEF Knows
<1>6. Makes(n) = out[n]
  <2>1. chain[n] # "video" /\ declared[n] = out[n - 1]
    BY <1>1, <1>3 DEF AsIs
  <2>2. CASE chain[n] = "convert"
    BY <1>3, <2>2 DEF Makes, Passed
  <2>3. CASE chain[n] = "scale"
    BY <1>3, <2>1, <2>3 DEF Makes, Passed, Scales
  <2>4. CASE chain[n] = "stamp"
    BY <1>3, <2>1, <2>4 DEF Makes, Passed
  <2>5. CASE chain[n] = "check"
    BY <1>2, <1>3, <2>5 DEF Makes, Passed
  <2> QED
    BY <1>4, <2>1, <2>2, <2>3, <2>4, <2>5 DEF Filters
<1>7. f = [h EXCEPT !.holds = out[n], !.declared = out[n]]
  BY <1>5, <1>6 DEF NewFrame
<1>8. f \in SentFrame /\ f.holds = out[n] /\ f.declared = out[n] /\ f.time = h.time
  BY <1>2, <1>3, <1>7 DEF SentFrame
<1> HIDE DEF f
<1>9. n # 0 => frames' = frames /\ stage[n] = "frames" /\ waiting[n] # << >> /\ f.time = Head(waiting[n]).time
  BY <1>1, <1>8
<1> QED
  BY <1>1, <1>4, <1>8, <1>9, SendStep

(* What the provider declares is what it sends, and is kept. *)
LEMMA ReadStep == ASSUME NEW out, ChainInvOf(out), NEW n \in Filter, ReadProvider(n) PROVE ChainInvOf(out)'
<1> DEFINE p == Declares[n - 1]
<1>1. /\ stage[n] = "read" /\ linked[n] /\ p # Nothing
      /\ declared' = [declared EXCEPT ![n] = p]
      /\ mScaleWidth' = [mScaleWidth EXCEPT ![n] = IF chain[n] = "scale" THEN mScale(p.width) ELSE @]
      /\ stage' = [stage EXCEPT ![n] = "loop"]
      /\ UNCHANGED << fixed, frames, nodeState, linked, waiting, busy, died >>
  BY DEF ReadProvider, Goto
<1>2. n - 1 \in Nodes /\ n \in Nodes
  BY ChainIs DEF ChainInvOf, ChainTyped
<1>3. p = out[n - 1] /\ p \in Picture
  <2>1. ScalesTo(n - 1, out)
    BY <1>1 DEF ChainInvOf, ReadersScale
  <2>2. Knows(n - 1, out)
    BY <1>2, <2>1, DeclaresOut DEF ChainInvOf
  <2>3. out[n - 1] \in Picture
    BY <1>2 DEF ChainInvOf, IsOut
  <2> QED
    BY <1>1, <2>2, <2>3 DEF Knows
<1> HIDE DEF p
<1>4. IsOut(out)' /\ Filter' = Filter /\ Nodes' = Nodes /\ chain' = chain
  BY <1>1, SameOut DEF ChainInvOf, fixed
<1>5. ChainTyped'
  <2>1. mScale(p.width) \in Nat
    BY <1>3 DEF mScale, Picture
  <2>2. mScaleWidth' \in [Filter -> Nat] /\ declared' \in [Filter -> Picture]
    BY <1>1, <1>3, <2>1 DEF ChainInvOf, ChainTyped
  <2>3. stage' \in [Nodes -> Inside \cup {"wait", "read", "end", "unlink", "leave", "returned"}]
    BY <1>1, <1>2 DEF ChainInvOf, ChainTyped, Inside
  <2> QED
    BY <1>1, <1>4, <2>2, <2>3 DEF ChainInvOf, ChainTyped, fixed
<1>6. \A k \in Filter : Scales(k, out) => Scales(k, out)'
  <2>1. ASSUME NEW k \in Filter, Scales(k, out), chain[k] = "scale" PROVE mScaleWidth'[k] = mScale(out[k - 1].width)
    <3>1. CASE k = n
      <4>1. mScaleWidth'[n] = mScale(p.width)
        BY <1>1, <2>1, <3>1 DEF ChainInvOf, ChainTyped
      <4> QED
        BY <1>3, <3>1, <4>1
    <3>2. CASE k # n
      BY <1>1, <2>1, <3>2 DEF ChainInvOf, ChainTyped, Scales
    <3> QED
      BY <3>1, <3>2
  <2> QED
    BY <1>4, <2>1 DEF Scales
<1>7. Scales(n, out)'
  <2>1. ASSUME chain[n] = "scale" PROVE mScaleWidth'[n] = mScale(out[n - 1].width)
    BY <1>1, <1>3, <2>1 DEF ChainInvOf, ChainTyped
  <2> QED
    BY <1>4, <2>1 DEF Scales
<1>8. \A k \in Nodes : ScalesTo(k, out) => ScalesTo(k, out)'
  BY <1>4, <1>6 DEF ScalesTo
<1>9. ReadyScales(out)'
  BY <1>1, <1>4, <1>8 DEF ChainInvOf, ReadyScales
<1>10. ReadersScale(out)'
  <2>1. ASSUME NEW m \in Filter, stage'[m] \in Inside \cup {"read"} PROVE ScalesTo(m - 1, out)'
    <3>1. m - 1 \in Nodes
      BY ChainIs DEF ChainInvOf, ChainTyped
    <3>2. stage[m] \in Inside \cup {"read"}
      BY <1>1, <2>1 DEF ChainInvOf, ChainTyped
    <3> QED
      BY <1>8, <3>1, <3>2 DEF ChainInvOf, ReadersScale
  <2> QED
    BY <1>4, <2>1 DEF ReadersScale
<1>11. HasRead(out)'
  <2>1. ASSUME NEW m \in Filter, stage'[m] \in Inside
        PROVE  Scales(m, out)' /\ (chain'[m] # "video" => declared'[m] = out[m - 1])
    <3>1. CASE m = n
      <4>1. declared'[n] = p
        BY <1>1 DEF ChainInvOf, ChainTyped
      <4> QED
        BY <1>3, <1>7, <3>1, <4>1
    <3>2. CASE m # n
      <4>1. stage[m] \in Inside /\ declared'[m] = declared[m] /\ m \in Nodes
        BY <1>1, <2>1, <3>2, ChainIs DEF ChainInvOf, ChainTyped
      <4> QED
        BY <1>4, <1>6, <4>1 DEF ChainInvOf, HasRead
    <3> QED
      BY <3>1, <3>2
  <2> QED
    BY <1>4, <2>1 DEF HasRead
<1>12. FramesHold(out)' /\ FramesInOrder'
  BY <1>1, <1>4, EmptiedFrames DEF ChainInvOf
<1>13. DiesOfAbsence'
  BY <1>1, <1>4 DEF ChainInvOf, DiesOfAbsence
<1> QED
  BY <1>4, <1>5, <1>9, <1>10, <1>11, <1>12, <1>13 DEF ChainInvOf

LEMMA EmptiedTyped ==
  ASSUME NEW w \in [Filter -> Seq(SentFrame)], NEW n
  PROVE  [w EXCEPT ![n] = << >>] \in [Filter -> Seq(SentFrame)]
<1>1. << >> \in Seq(SentFrame)
  OBVIOUS
<1> DEFINE e == << >>
<1>2. e \in Seq(SentFrame)
  BY <1>1
<1> HIDE DEF e
<1>3. [w EXCEPT ![n] = e] \in [Filter -> Seq(SentFrame)]
  BY <1>2
<1> QED
  BY <1>3 DEF e

(* The threads go from one stage to another. *)
LEMMA WaitStep ==
  ASSUME NEW out, ChainInvOf(out), NEW n \in Filter, WaitOn(n) \/ WaitPasses(n) \/ WaitFails(n) \/ NoRead(n)
  PROVE  ChainInvOf(out)'
<1>1. n \in Nodes /\ Filter \subseteq Nodes
  BY ChainIs DEF ChainInvOf, ChainTyped
<1>2. /\ UNCHANGED << fixed, frames, nodeState, linked, declared, mScaleWidth, busy, died >>
      /\ waiting' = waiting \/ waiting' = [waiting EXCEPT ![n] = << >>]
      /\ \/ stage' = stage
         \/ stage' = [stage EXCEPT ![n] = "read"] /\ nodeState[n - 1] = "ready"
         \/ stage' = [stage EXCEPT ![n] = "returned"]
         \/ stage' = [stage EXCEPT ![n] = "end"]
         \/ stage' = [stage EXCEPT ![n] = "loop"] /\ stage[n] = "read" /\ chain[n] = "video"
  <2>1. CASE WaitOn(n)
    BY <2>1 DEF WaitOn
  <2>2. CASE WaitPasses(n)
    BY <2>2 DEF WaitPasses, Goto, Passes
  <2>3. CASE WaitFails(n)
    BY <2>3 DEF WaitFails, Goto
  <2>4. CASE NoRead(n)
    BY <2>4 DEF NoRead, Goto
  <2> QED
    BY <2>1, <2>2, <2>3, <2>4
<1>3. ChainTyped'
  <2>1. waiting' \in [Filter -> Seq(SentFrame)]
    <3>1. waiting \in [Filter -> Seq(SentFrame)]
      BY DEF ChainInvOf, ChainTyped
    <3>2. [waiting EXCEPT ![n] = << >>] \in [Filter -> Seq(SentFrame)]
      BY <3>1, EmptiedTyped
    <3> QED
      BY <1>2, <3>1, <3>2
  <2>2. stage' \in [Nodes -> Inside \cup {"wait", "read", "end", "unlink", "leave", "returned"}]
    BY <1>1, <1>2 DEF ChainInvOf, ChainTyped, Inside
  <2> QED
    BY <1>2, <2>1, <2>2 DEF ChainInvOf, ChainTyped, fixed, Nodes, Filter
<1>4. \A m \in Filter : waiting'[m] = waiting[m] \/ waiting'[m] = << >>
  BY <1>2 DEF ChainInvOf, ChainTyped
<1>5. \A m \in Filter : \/ stage'[m] = stage[m] \/ stage'[m] \notin Inside \cup {"read"} \/ stage[m] \in Inside
                        \/ stage'[m] = "read" /\ nodeState[m - 1] = "ready"
                        \/ stage[m] = "read" /\ chain[m] = "video"
  BY <1>1, <1>2 DEF ChainInvOf, ChainTyped, Inside
<1> QED
  BY <1>2, <1>3, <1>4, <1>5, QuietStep

LEMMA LoopStep ==
  ASSUME NEW out, ChainInvOf(out), NEW n \in Filter,
         LockQueue(n) \/ UnlockQueue(n) \/ EmptyQueue(n) \/ CheckProviders(n)
  PROVE  ChainInvOf(out)'
<1>1. n \in Nodes /\ Filter \subseteq Nodes
  BY ChainIs DEF ChainInvOf, ChainTyped
<1>2. /\ UNCHANGED << fixed, frames, nodeState, linked, declared, mScaleWidth, waiting, died >>
      /\ stage[n] \in Inside
      /\ \E s \in {"frames", "check", "end", "loop"} : stage' = [stage EXCEPT ![n] = s]
      /\ busy' = busy \/ busy' = [busy EXCEPT ![n] = TRUE] \/ busy' = [busy EXCEPT ![n] = FALSE]
  <2>1. CASE LockQueue(n)
    BY <2>1 DEF LockQueue, Goto, Inside
  <2>2. CASE UnlockQueue(n)
    BY <2>2 DEF UnlockQueue, Goto, Inside
  <2>3. CASE EmptyQueue(n)
    BY <2>3 DEF EmptyQueue, Goto, Inside
  <2>4. CASE CheckProviders(n)
    BY <2>4 DEF CheckProviders, Goto, Inside
  <2> QED
    BY <2>1, <2>2, <2>3, <2>4
<1>3. ChainTyped'
  <2>1. busy' \in [Filter -> BOOLEAN]
    BY <1>2 DEF ChainInvOf, ChainTyped
  <2>2. stage' \in [Nodes -> Inside \cup {"wait", "read", "end", "unlink", "leave", "returned"}]
    BY <1>1, <1>2 DEF ChainInvOf, ChainTyped, Inside
  <2> QED
    BY <1>2, <2>1, <2>2 DEF ChainInvOf, ChainTyped, fixed, Nodes, Filter
<1>4. \A m \in Filter : stage'[m] = stage[m] \/ stage[m] \in Inside
  BY <1>1, <1>2 DEF ChainInvOf, ChainTyped
<1> QED
  BY <1>2, <1>3, <1>4, QuietStep

LEMMA LeaveStep ==
  ASSUME NEW out, ChainInvOf(out), NEW n \in Nodes, EndNode(n) \/ Unlink(n) \/ ReturnFrom(n) \/ (n = 0 /\ SourceEnds)
  PROVE  ChainInvOf(out)'
<1>1. /\ UNCHANGED << fixed, frames, declared, mScaleWidth, busy, died >>
      /\ \E s \in {"unlink", "returned", "leave"} : stage' = [stage EXCEPT ![n] = s]
      /\ nodeState' = nodeState \/ nodeState' = [nodeState EXCEPT ![n] = "ended"]
      /\ waiting' = waiting \/ waiting' = [waiting EXCEPT ![n] = << >>]
      /\ \/ linked' = linked \/ linked' = [m \in Filter |-> linked[m] /\ m # n + 1]
         \/ linked' = [linked EXCEPT ![n] = FALSE]
  <2>1. CASE EndNode(n)
    BY <2>1 DEF EndNode, Goto
  <2>2. CASE Unlink(n)
    BY <2>2 DEF Unlink, Goto
  <2>3. CASE ReturnFrom(n)
    BY <2>3 DEF ReturnFrom, Goto
  <2>4. CASE n = 0 /\ SourceEnds
    BY <2>4 DEF SourceEnds, Goto
  <2> QED
    BY <2>1, <2>2, <2>3, <2>4
<1>2. linked' \in [Filter -> BOOLEAN] /\ \A m \in Filter : linked'[m] => linked[m]
  <2>1. CASE linked' = [m \in Filter |-> linked[m] /\ m # n + 1]
    BY <2>1 DEF ChainInvOf, ChainTyped
  <2>2. CASE linked' = linked \/ linked' = [linked EXCEPT ![n] = FALSE]
    BY <2>2 DEF ChainInvOf, ChainTyped
  <2> QED
    BY <1>1, <2>1, <2>2
<1>3. ChainTyped'
  <2>1. waiting' \in [Filter -> Seq(SentFrame)]
    <3>1. waiting \in [Filter -> Seq(SentFrame)]
      BY DEF ChainInvOf, ChainTyped
    <3>2. [waiting EXCEPT ![n] = << >>] \in [Filter -> Seq(SentFrame)]
      BY <3>1, EmptiedTyped
    <3> QED
      BY <1>1, <3>1, <3>2
  <2>2. stage' \in [Nodes -> Inside \cup {"wait", "read", "end", "unlink", "leave", "returned"}]
    BY <1>1 DEF ChainInvOf, ChainTyped
  <2>3. nodeState' \in [Nodes -> {"wait", "ready", "ended"}]
    BY <1>1 DEF ChainInvOf, ChainTyped
  <2> QED
    BY <1>1, <1>2, <2>1, <2>2, <2>3 DEF ChainInvOf, ChainTyped, fixed, Nodes, Filter
<1>4. \A m \in Filter : waiting'[m] = waiting[m] \/ waiting'[m] = << >>
  BY <1>1 DEF ChainInvOf, ChainTyped
<1>5. \A m \in Filter : stage'[m] = stage[m] \/ stage'[m] \notin Inside \cup {"read"}
  <2>1. Filter \subseteq Nodes
    BY ChainIs DEF ChainInvOf, ChainTyped
  <2> QED
    BY <1>1, <2>1 DEF ChainInvOf, ChainTyped, Inside
<1>6. \A m \in Nodes : nodeState'[m] = "ready" => nodeState[m] = "ready"
  BY <1>1 DEF ChainInvOf, ChainTyped
<1> QED
  BY <1>1, <1>2, <1>3, <1>4, <1>5, <1>6, QuietStep

(* Where a provider does not say what it declares, one has left. *)
LEMMA CrashStep ==
  ASSUME NEW out, ChainInvOf(out), NEW n \in Filter, ReadThrows(n) \/ NewThrows(n)
  PROVE  ChainInvOf(out)'
<1>1. /\ died' = TRUE
      /\ UNCHANGED << fixed, frames, stage, nodeState, linked, declared, mScaleWidth, waiting, busy >>
      /\ \/ ~linked[n]
         \/ stage[n] = "read" /\ Declares[n - 1] = Nothing
         \/ stage[n] = "frames" /\ Declares[n] = Nothing
  <2>1. CASE ReadThrows(n)
    BY <2>1 DEF ReadThrows, Crash
  <2>2. CASE NewThrows(n)
    BY <2>2 DEF NewThrows, Crash
  <2> QED
    BY <2>1, <2>2
<1>2. n - 1 \in Nodes /\ n \in Nodes
  BY ChainIs DEF ChainInvOf, ChainTyped
<1>3. \E m \in Filter : ~linked[m]
  <2>1. CASE ~linked[n]
    BY <2>1
  <2>2. CASE stage[n] = "read" /\ Declares[n - 1] = Nothing
    <3>1. ScalesTo(n - 1, out)
      BY <2>2 DEF ChainInvOf, ReadersScale
    <3> QED
      BY <1>2, <2>2, <3>1, DeclaresOut DEF ChainInvOf, Knows
  <2>3. CASE stage[n] = "frames" /\ Declares[n] = Nothing
    <3>1. ScalesTo(n, out)
      BY <2>3, WhenSending
    <3> QED
      BY <1>2, <2>3, <3>1, DeclaresOut DEF ChainInvOf, Knows
  <2> QED
    BY <1>1, <2>1, <2>2, <2>3
<1>4. ChainTyped'
  BY <1>1 DEF ChainInvOf, ChainTyped, fixed, Nodes, Filter
<1> QED
  BY <1>1, <1>3, <1>4, QuietStep

(***************************************************************************)
(* The chain                                                               *)
(***************************************************************************)
ChainInv == \E out : ChainInvOf(out)

LEMMA ChainStart == ChainInit => ChainInv
<1> SUFFICES ASSUME ChainInit PROVE ChainInv
  OBVIOUS
<1>1. PICK out : IsOut(out)
  BY OutExists DEF ChainInit
<1>2. 0 \notin Filter
  BY DEF Filter
<1>3. \A n \in Nodes \ {0} : stage[n] = "wait"
  BY DEF ChainInit
<1>4. ChainTyped
  <2>1. waiting \in [Filter -> Seq(SentFrame)]
    BY DEF ChainInit
  <2>2. declared \in [Filter -> Picture]
    <3>1. Nothing \in Picture
      BY DEF Nothing, Picture, Format
    <3> QED
      BY <3>1 DEF ChainInit
  <2>3. stage \in [Nodes -> Inside \cup {"wait", "read", "end", "unlink", "leave", "returned"}]
    BY DEF ChainInit, Inside
  <2> QED
    BY <2>1, <2>2, <2>3 DEF ChainInit, ChainTyped
<1>5. ReadyScales(out) /\ ReadersScale(out) /\ HasRead(out)
  <2>1. \A n \in Nodes : nodeState[n] = "wait"
    BY DEF ChainInit
  <2>2. \A n \in Filter : stage[n] = "wait"
    BY <1>3, ChainIs DEF ChainInit
  <2> QED
    BY <2>1, <2>2 DEF ReadyScales, ReadersScale, HasRead, Inside
<1>6. FramesHold(out) /\ FramesInOrder /\ DiesOfAbsence
  <2>1. \A n \in Filter : waiting[n] = << >>
    BY DEF ChainInit
  <2>2. DOMAIN << >> = {}
    OBVIOUS
  <2> QED
    BY <2>1, <2>2 DEF ChainInit, FramesHold, FramesInOrder, DiesOfAbsence
<1> QED
  BY <1>1, <1>4, <1>5, <1>6 DEF ChainInv, ChainInvOf

LEMMA ChainStep == ChainInv /\ [ChainNext]_chainVars => ChainInv'
<1> SUFFICES ASSUME ChainInv, [ChainNext]_chainVars PROVE ChainInv'
  OBVIOUS
<1>1. PICK out : ChainInvOf(out)
  BY DEF ChainInv
<1>2. Filter = Nodes \ {0} /\ 0 \in Nodes
  BY <1>1, ChainIs DEF ChainInvOf, ChainTyped, Nodes
<1>3. ASSUME NEW n \in Filter, FilterStep(n) PROVE ChainInvOf(out)'
  BY <1>1, <1>2, <1>3, ReadStep, SendAsIsStep, SendNewStep, WaitStep, LoopStep, LeaveStep, CrashStep DEF FilterStep
<1>4. CASE Capture
  BY <1>1, <1>4, CaptureStep DEF ChainInv
<1>5. CASE SourceEnds
  BY <1>1, <1>2, <1>5, LeaveStep DEF ChainInv
<1>6. CASE \E n \in Nodes : (n # 0 /\ FilterStep(n)) \/ Unlink(n)
  BY <1>1, <1>2, <1>3, <1>6, LeaveStep DEF ChainInv
<1>7. CASE UNCHANGED chainVars
  <2>1. ChainTyped'
    BY <1>1, <1>7 DEF ChainInvOf, ChainTyped, chainVars, fixed, Nodes, Filter
  <2>2. ChainInvOf(out)'
    BY <1>1, <1>7, <2>1, QuietStep DEF chainVars
  <2> QED
    BY <2>2 DEF ChainInv
<1> QED
  BY <1>4, <1>5, <1>6, <1>7 DEF ChainNext

LEMMA ChainFits == ChainInv => FramesFit
<1> SUFFICES ASSUME NEW out, ChainInvOf(out) PROVE FramesFit
  BY DEF ChainInv
<1>1. ASSUME NEW n \in Filter, NEW i \in DOMAIN waiting[n]
      PROVE  /\ waiting[n][i].originator = 0 /\ waiting[n][i].holds = waiting[n][i].declared
             /\ (stage[n] \in {"loop", "frames", "check"} /\ chain[n] # "video" => waiting[n][i].holds = declared[n])
             /\ \A j \in DOMAIN waiting[n] : i < j => waiting[n][i].time < waiting[n][j].time
  <2>1. waiting[n] \in Seq(SentFrame)
    BY DEF ChainInvOf, ChainTyped
  <2>2. waiting[n][i] \in SentFrame
    BY <2>1
  <2>3. waiting[n][i].originator = 0
    BY <2>2 DEF SentFrame
  <2>4. waiting[n][i].holds = out[n - 1] /\ waiting[n][i].declared = out[n - 1]
    BY DEF ChainInvOf, FramesHold
  <2>5. stage[n] \in {"loop", "frames", "check"} /\ chain[n] # "video" => declared[n] = out[n - 1]
    BY DEF ChainInvOf, HasRead, Inside
  <2>6. \A j \in DOMAIN waiting[n] : i < j => waiting[n][i].time < waiting[n][j].time
    BY DEF ChainInvOf, FramesInOrder
  <2> QED
    BY <2>3, <2>4, <2>5, <2>6
<1> QED
  BY <1>1 DEF FramesFit, ChainInvOf, DiesOfAbsence

(* The inductive invariant: there are pictures the nodes put out of which all that is
   declared, read and on the queues tells, for any row of filters (ozFeedFrame.cpp:14-91). *)
THEOREM ChainInvariant == ChainSpec => []ChainInv
<1>1. ChainSpec => ChainInit /\ [][ChainNext]_chainVars
  BY PTL DEF ChainSpec
<1> QED
  BY <1>1, ChainStart, ChainStep, PTL

(* Whatever the row of filters and the picture the source supplies, every frame on a
   filter's queue holds what it declares and what the filter has read of its provider, the
   frames stay in the order of their capture, and the process dies of an exception only
   where a provider has left (ozImageScale.cpp:65-134, ozFeedConsumer.cpp:317-323). *)
THEOREM FramesAlwaysFit == ChainSpec => []FramesFit
BY ChainInvariant, ChainFits, PTL

=============================================================================
