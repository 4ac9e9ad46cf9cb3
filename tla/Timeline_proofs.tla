-------------------------- MODULE Timeline_proofs --------------------------
(***************************************************************************)
(* The statements of Timeline, for every track and every number, and that  *)
(* of SubtitleCues for every layout of a group.                            *)
(***************************************************************************)
EXTENDS SubtitleCues, GroupTiming_proofs

TypeOK == ct \in TrackSet /\ nr \in Nat

LEMMA TypeInvariant == Spec => []TypeOK
<1>1. Init => TypeOK
  BY DEF Init, TypeOK
<1>2. TypeOK /\ [Count]_vars => TypeOK'
  BY DEF TypeOK, Count, vars
<1> QED
  BY <1>1, <1>2, PTL DEF Spec

LEMMA TrackFields ==
  ASSUME TypeOK
  PROVE  /\ ct.timeScale \in Nat \ {0} /\ ct.sampleDur \in Nat \ {0}
         /\ ct.sampleBatch \in Nat \ {0} /\ ct.nrSamples \in Nat \ {0}
         /\ ct.loopDur \in Nat \ {0}
         /\ ct.loopDur <= ct.nrSamples * ct.sampleDur
         /\ nr \in Nat
  BY TrackSetAssumption DEF TypeOK

LEMMA GrpBounds ==
  ASSUME TypeOK
  PROVE  /\ Grp.startNr \in Nat /\ Grp.endNr \in Nat /\ Grp.startNr <= Grp.endNr
         /\ Grp.startNr = CeilDiv(nr * ct.timeScale, ct.sampleDur)
         /\ Grp.endNr = CeilDiv((nr + 1) * ct.timeScale, ct.sampleDur)
<1>1. nr + 1 \in Nat
  BY TrackFields
<1> QED
  BY <1>1, TrackFields, GroupStart, GroupStartMono DEF Grp, CalcMoQGroup

(* Groups hold exactly the samples that start within their second.         *)
THEOREM GroupsCut == Spec => []GroupsCutAtSeconds
<1>1. ASSUME TypeOK PROVE GroupsCutAtSeconds
  <2> DEFINE T == ct.timeScale
             D == ct.sampleDur
             a == Grp.startNr
             b == Grp.endNr
  <2>1. T \in Nat \ {0} /\ D \in Nat \ {0} /\ nr \in Nat
        /\ nr * T \in Nat /\ (nr + 1) * T \in Nat
    BY <1>1, TrackFields
  <2>2. a \in Nat /\ a * D >= nr * T /\ a * D < nr * T + D
    BY <1>1, <2>1, GrpBounds, CeilDivBounds
  <2>3. b \in Nat /\ b * D >= (nr + 1) * T /\ b * D < (nr + 1) * T + D
    BY <1>1, <2>1, GrpBounds, CeilDivBounds
  <2>4. a <= b
    BY <1>1, GrpBounds
  <2> HIDE DEF a, b, T, D
  <2>5. (a - 1) * D = a * D - D /\ (b - 1) * D = b * D - D
    BY <2>1, <2>2, <2>3
  <2>6. ASSUME NEW n \in a .. b - 1
        PROVE  n * D \in nr * T .. (nr + 1) * T - 1
    <3>1. n \in Nat /\ n * D >= a * D /\ n * D <= (b - 1) * D
      BY <2>1, <2>2, <2>3, MulMono
    <3>2. n * D \in Nat
      BY <3>1, <2>1
    <3> QED
      BY <2>1, <2>2, <2>3, <2>5, <3>1, <3>2
  <2>7. (a - 1) * D < nr * T
    BY <2>1, <2>2, <2>5
  <2> QED
    BY <2>3, <2>4, <2>6, <2>7 DEF GroupsCutAtSeconds, a, b, T, D
<1> QED
  BY <1>1, TypeInvariant, PTL

(* The objects of a group partition it.                                    *)
THEOREM ObjectsPartition == Spec => []ObjectsPartitionGroup
<1>1. ASSUME TypeOK PROVE ObjectsPartitionGroup
  <2> HIDE DEF Grp
  <2> QED
    BY <1>1, TrackFields, GrpBounds, ObjectStrides
       DEF ObjectsPartitionGroup, Objects
<1> QED
  BY <1>1, TypeInvariant, PTL

(* Groups and objects together cut the timeline.                           *)
THEOREM TimelinePartitioned == Spec => []TimelineIsPartitioned
<1>1. GroupsCutAtSeconds /\ ObjectsPartitionGroup => TimelineIsPartitioned
  BY DEF TimelineIsPartitioned
<1> QED
  BY <1>1, GroupsCut, ObjectsPartition, PTL

LEMMA ObjectBounds ==
  ASSUME TypeOK, NEW k \in Objects
  PROVE  LET f == ObjectFirst(Grp, ct.sampleBatch, k)
             g == ObjectFirst(Grp, ct.sampleBatch, k + 1)
         IN  /\ k \in Nat
             /\ f = Grp.startNr + k * ct.sampleBatch
             /\ f \in Nat /\ g \in Nat
             /\ f < g /\ g <= f + ct.sampleBatch /\ g <= Grp.endNr
<1> DEFINE B == ct.sampleBatch
           N == NrObjects(Grp, B)
<1> HIDE DEF Grp
<1>1. B \in Nat \ {0} /\ Grp.startNr \in Nat /\ Grp.endNr \in Nat
      /\ Grp.startNr <= Grp.endNr
  BY TrackFields, GrpBounds
<1> HIDE DEF B, N
<1>2. /\ N \in Nat
      /\ \A j \in Nat : ObjectFirst(Grp, B, j) \in Nat
      /\ \A j \in 0 .. N - 1 :
           /\ ObjectFirst(Grp, B, j) = Grp.startNr + j * B
           /\ ObjectFirst(Grp, B, j) < ObjectFirst(Grp, B, j + 1)
           /\ ObjectFirst(Grp, B, j + 1) <= ObjectFirst(Grp, B, j) + B
  BY <1>1, ObjectStrides DEF N
<1>3. k \in 0 .. N - 1 /\ k \in Nat /\ k + 1 \in Nat
  BY <1>2 DEF Objects, N, B
<1>4. ObjectFirst(Grp, B, k + 1) <= Grp.endNr
  <2>1. Grp.startNr + (k + 1) * B \in Nat
    BY <1>1, <1>3
  <2> QED
    BY <1>1, <2>1 DEF ObjectFirst, MinOf
<1> QED
  BY <1>2, <1>3, <1>4 DEF B

(* The time ObjectDueMS divides, written with the first sample of object k.*)
LEMMA DueNumerator ==
  ASSUME TypeOK, NEW k \in Objects
  PROVE  LET first == ObjectFirst(Grp, ct.sampleBatch, k)
             x == (first + ct.sampleBatch) * ct.sampleDur * 1000
         IN  /\ first \in Nat
             /\ x \in Nat
             /\ ObjectDueMS(ct, Grp.startNr, k) = x \div ct.timeScale
<1> DEFINE a == Grp.startNr
           B == ct.sampleBatch
           D == ct.sampleDur
           first == ObjectFirst(Grp, B, k)
<1>1. a \in Nat /\ B \in Nat \ {0} /\ D \in Nat \ {0}
  BY TrackFields, GrpBounds
<1>2. first = a + k * B /\ first \in Nat /\ k \in Nat
  BY ObjectBounds
<1>3. ObjectDueMS(ct, a, k) = ((a * D + (k + 1) * D * B) * 1000) \div ct.timeScale
  BY DEF ObjectDueMS
<1> HIDE DEF a, B, D, first
<1>4. (a * D + (k + 1) * D * B) * 1000 = (first + B) * D * 1000
  BY <1>1, <1>2
<1>5. (first + B) * D * 1000 \in Nat
  BY <1>1, <1>2
<1> QED
  BY <1>2, <1>3, <1>4, <1>5 DEF a, B, D, first

(* Objects are due when recorded, and less than a batch late.              *)
THEOREM ObjectsDue == Spec => []ObjectsDueInTime
<1>1. ASSUME TypeOK, NEW k \in Objects
      PROVE  LET end == ObjectFirst(Grp, ct.sampleBatch, k + 1) * ct.sampleDur * 1000
                 due == ObjectDueMS(ct, Grp.startNr, k)
             IN  /\ end < (due + 1) * ct.timeScale
                 /\ due * ct.timeScale < end + ct.sampleBatch * ct.sampleDur * 1000
  <2> DEFINE B == ct.sampleBatch
             D == ct.sampleDur
             T == ct.timeScale
             f == ObjectFirst(Grp, B, k)
             g == ObjectFirst(Grp, B, k + 1)
             x == (f + B) * D * 1000
             due == ObjectDueMS(ct, Grp.startNr, k)
  <2>1. B \in Nat \ {0} /\ D \in Nat \ {0} /\ T \in Nat \ {0}
    BY <1>1, TrackFields
  <2>2. f \in Nat /\ g \in Nat /\ f < g /\ g <= f + B
    BY <1>1, ObjectBounds
  <2>3. x \in Nat /\ due = x \div T
    BY <1>1, DueNumerator
  <2> HIDE DEF B, D, T, f, g, due
  <2>4. due \in Nat /\ due * T <= x /\ x < (due + 1) * T
    <3> HIDE DEF x
    <3> QED
      BY <2>1, <2>3, DivBracket
  <2> DEFINE E == D * 1000
  <2>5. E \in Nat \ {0} /\ x = (f + B) * E /\ g * D * 1000 = g * E
        /\ B * D * 1000 = B * E
    BY <2>1, <2>2
  <2> HIDE DEF E, x
  <2>6. g * E <= (f + B) * E
    BY <2>1, <2>2, <2>5, MulMono
  <2>7. (f + B) * E < g * E + B * E
    BY <2>1, <2>2, <2>5
  <2> QED
    BY <2>1, <2>2, <2>4, <2>5, <2>6, <2>7 DEF B, D, T, f, g, due
<1>2. ASSUME TypeOK PROVE ObjectsDueInTime
  BY <1>1, <1>2 DEF ObjectsDueInTime
<1> QED
  BY <1>2, TypeInvariant, PTL

(* A late partial batch never delays the next group.                       *)
THEOREM GroupsDue == Spec => []GroupsDueInOrder
<1>1. ASSUME TypeOK, NEW k \in Objects
      PROVE  ObjectDueMS(ct, Grp.startNr, k) <= ObjectDueMS(ct, Grp.endNr, 0)
  <2> DEFINE B == ct.sampleBatch
             D == ct.sampleDur
             T == ct.timeScale
             f == ObjectFirst(Grp, B, k)
             e == Grp.endNr
             x == (f + B) * D * 1000
             y == (e * D + (0 + 1) * D * B) * 1000
  <2>1. B \in Nat \ {0} /\ D \in Nat \ {0} /\ T \in Nat \ {0} /\ e \in Nat
    BY <1>1, TrackFields, GrpBounds
  <2>2. f \in Nat /\ f < e
    <3>1. f \in Nat /\ ObjectFirst(Grp, B, k + 1) \in Nat
          /\ f < ObjectFirst(Grp, B, k + 1) /\ ObjectFirst(Grp, B, k + 1) <= e
      BY <1>1, ObjectBounds
    <3> QED
      BY <2>1, <3>1
  <2>3. x \in Nat /\ ObjectDueMS(ct, Grp.startNr, k) = x \div T
    BY <1>1, DueNumerator
  <2>4. ObjectDueMS(ct, Grp.endNr, 0) = y \div T
    BY DEF ObjectDueMS
  <2> HIDE DEF B, D, T, f, e
  <2>5. x <= y /\ y \in Nat
    <3>1. y = (e + B) * (D * 1000) /\ x = (f + B) * (D * 1000)
      BY <2>1, <2>2
    <3>2. (f + B) * (D * 1000) <= (e + B) * (D * 1000)
      BY <2>1, <2>2, MulMono
    <3> QED
      BY <2>1, <2>2, <3>1, <3>2
  <2> HIDE DEF x, y
  <2> QED
    BY <2>1, <2>3, <2>4, <2>5, DivMono
<1>2. ASSUME TypeOK PROVE GroupsDueInOrder
  BY <1>1, <1>2 DEF GroupsDueInOrder
<1> QED
  BY <1>2, TypeInvariant, PTL

(* Objects are paced by the clock, within groups and between them.         *)
THEOREM Paced == Spec => []PacedByTheClock
<1>1. ObjectsDueInTime /\ GroupsDueInOrder => PacedByTheClock
  BY DEF PacedByTheClock
<1> QED
  BY <1>1, ObjectsDue, GroupsDue, PTL

(* Looping never underflows, never leaves the stored samples, and restarts *)
(* exactly at the loop periods.                                            *)
THEOREM LoopPlays == Spec => []LoopPlaysInOrder
<1>1. TypeOK => LoopPlaysInOrder
  BY TrackFields, PlaysOn DEF LoopPlaysInOrder, PlaysAt
<1> QED
  BY <1>1, TypeInvariant, PTL
-----------------------------------------------------------------------------
(* Subtitles: a group of G seconds from second A on, and cues of C ms       *)

Second == 1000

Cue(u, C) == [utcS |-> u, startMS |-> u * Second, endMS |-> u * Second + C]

Cues(A, G, C) == {Cue(u, C) : u \in A .. A + G - 1}

(* The rest of each second. *)
Gaps(A, G, C) ==
  {WvttGap(u * Second + C, (u + 1) * Second) : u \in {v \in A .. A + G - 1 : C < Second}}

LEMMA CueStep ==
  ASSUME NEW C \in 1 .. Second
  PROVE  CueFullS(C) = 1
BY DEF CueFullS, CeilDiv, Second

LEMMA SecondsOfGroup ==
  ASSUME NEW A \in Nat, NEW G \in Nat \ {0}, NEW C \in 1 .. Second
  PROVE  CueSeconds(A * Second, G * Second, C) = A .. A + G - 1
<1>1. (A * Second) \div Second = A /\ (A * Second + G * Second) \div Second = A + G
  BY DEF Second
<1>2. CueSeconds(A * Second, G * Second, C) =
        {u \in A .. A + G : (u - A) % 1 = 0 /\ u * Second # A * Second + G * Second}
  BY <1>1, CueStep DEF CueSeconds, Second
<1>3. \A u \in A .. A + G : (u - A) % 1 = 0
  OBVIOUS
<1>4. \A u \in A .. A + G : u * Second # A * Second + G * Second <=> u # A + G
  BY DEF Second
<1> DEFINE seconds == CueSeconds(A * Second, G * Second, C)
<1>5. \A u : u \in seconds <=> u \in A .. A + G /\ u # A + G
  <2>1. \A u : u \in seconds <=>
               /\ u \in A .. A + G
               /\ (u - A) % 1 = 0 /\ u * Second # A * Second + G * Second
    BY <1>2
  <2> HIDE DEF seconds
  <2> QED
    BY <1>3, <1>4, <2>1
<1> HIDE DEF seconds
<1>6. \A u : u \in seconds <=> u \in A .. A + G - 1
  BY <1>5
<1>7. seconds = A .. A + G - 1
  BY <1>6
<1> QED
  BY <1>7 DEF seconds

LEMMA CuesOfGroup ==
  ASSUME NEW A \in Nat, NEW G \in Nat \ {0}, NEW C \in 1 .. Second
  PROVE  CalcCueItvls(A * Second, G * Second, A * Second, C) = Cues(A, G, C)
<1>1. ASSUME NEW u \in A .. A + G - 1
      PROVE  CueItvl(u, A * Second, G * Second, A * Second, C) = Cue(u, C)
  BY DEF CueItvl, Cue, MinOf, Second
<1> DEFINE seconds == A .. A + G - 1
<1>2. CalcCueItvls(A * Second, G * Second, A * Second, C) =
        {CueItvl(u, A * Second, G * Second, A * Second, C) : u \in seconds}
  BY SecondsOfGroup DEF CalcCueItvls
<1>3. \A u \in seconds : CueItvl(u, A * Second, G * Second, A * Second, C) = Cue(u, C)
  BY <1>1
<1> HIDE DEF seconds
<1>4. {CueItvl(u, A * Second, G * Second, A * Second, C) : u \in seconds} =
        {Cue(u, C) : u \in seconds}
  BY <1>3
<1> QED
  BY <1>2, <1>4 DEF Cues, seconds

LEMMA StartsOfCues ==
  ASSUME NEW A, NEW G, NEW C
  PROVE  {c.startMS : c \in Cues(A, G, C)} = {u * Second : u \in A .. A + G - 1}
<1> DEFINE seconds == A .. A + G - 1
<1>1. \A u : Cue(u, C).startMS = u * Second
  BY DEF Cue
<1>2. Cues(A, G, C) = {Cue(u, C) : u \in seconds}
  BY DEF Cues
<1> HIDE DEF seconds
<1>3. {c.startMS : c \in Cues(A, G, C)} = {u * Second : u \in seconds}
  BY <1>1, <1>2, Zenon
<1> QED
  BY <1>3 DEF seconds

(* Where the sample before a cue, or before the end of the group, ends.     *)
LEMMA LastEnd ==
  ASSUME NEW A \in Nat, NEW G \in Nat \ {0}, NEW C \in 1 .. Second,
         NEW u \in A .. A + G
  PROVE  LET ends == {A * Second} \union {c.endMS : c \in Cues(A, G, C)}
         IN  (CHOOSE e \in ends : /\ e <= u * Second
                                  /\ \A d \in ends : d <= u * Second => d <= e)
               = IF u = A THEN A * Second ELSE (u - 1) * Second + C
<1> DEFINE ends == {A * Second} \union {c.endMS : c \in Cues(A, G, C)}
           last == IF u = A THEN A * Second ELSE (u - 1) * Second + C
           IsLast(e) == e <= u * Second /\ \A d \in ends : d <= u * Second => d <= e
<1>1. ends = {A * Second} \union {v * Second + C : v \in A .. A + G - 1}
  <2> DEFINE seconds == A .. A + G - 1
  <2>1. ends = {A * Second} \union {c.endMS : c \in {Cue(v, C) : v \in seconds}}
    BY DEF Cues
  <2>2. \A v \in seconds : Cue(v, C).endMS = v * Second + C
    BY DEF Cue
  <2> HIDE DEF seconds, ends
  <2>3. ends = {A * Second} \union {v * Second + C : v \in seconds}
    BY <2>1, <2>2
  <2> QED
    BY <2>3 DEF seconds
<1> HIDE DEF ends
<1>2. ends \subseteq Nat /\ last \in ends /\ last <= u * Second
  <2>1. ends \subseteq Nat
    BY <1>1 DEF Second
  <2>2. last \in ends
    <3>1. CASE u = A
      BY <1>1, <3>1
    <3>2. CASE u # A
      <4>1. u - 1 \in A .. A + G - 1 /\ last = (u - 1) * Second + C
        BY <3>2
      <4> HIDE DEF last
      <4> QED
        BY <1>1, <4>1
    <3> QED
      BY <3>1, <3>2
  <2>3. last <= u * Second
    BY DEF Second
  <2> QED
    BY <2>1, <2>2, <2>3
<1>3. ASSUME NEW d \in ends, d <= u * Second PROVE d <= last
  BY <1>1, <1>3 DEF Second
<1>4. ASSUME NEW e \in ends, IsLast(e) PROVE e = last
  <2>1. e <= last /\ last <= e
    BY <1>2, <1>3, <1>4
  <2>2. e \in Nat /\ last \in Nat
    BY <1>2
  <2> HIDE DEF last
  <2> QED
    BY <2>1, <2>2
<1>5. IsLast(last)
  BY <1>2, <1>3
<1> HIDE DEF last, IsLast
<1>6. (CHOOSE e \in ends : IsLast(e)) = last
  BY <1>2, <1>4, <1>5
<1> QED
  BY <1>6 DEF IsLast, ends, last

LEMMA SamplesOfGroup ==
  ASSUME NEW A \in Nat, NEW G \in Nat \ {0}, NEW C \in 1 .. Second
  PROVE  WvttSamples(A * Second, G * Second, C) = Cues(A, G, C) \union Gaps(A, G, C)
<1> DEFINE cues == CalcCueItvls(A * Second, G * Second, A * Second, C)
           ends == {A * Second} \union {c.endMS : c \in cues}
           starts == {c.startMS : c \in cues} \union {A * Second + G * Second}
           currEnd(s) == CHOOSE e \in ends : /\ e <= s
                                             /\ \A d \in ends : d <= s => d <= e
           late == {r \in starts : currEnd(r) < r}
           gaps == {WvttGap(currEnd(s), s) : s \in late}
<1>1. WvttSamples(A * Second, G * Second, C) = cues \union gaps
  BY DEF WvttSamples
<1>0. cues = Cues(A, G, C)
  BY CuesOfGroup
<1> HIDE DEF cues
<1>2. starts = {u * Second : u \in A .. A + G}
  <2>1. {c.startMS : c \in cues} = {u * Second : u \in A .. A + G - 1}
    BY <1>0, StartsOfCues
  <2>2. A .. A + G = (A .. A + G - 1) \union {A + G}
    OBVIOUS
  <2>3. A * Second + G * Second = (A + G) * Second
    BY DEF Second
  <2> DEFINE seconds == A .. A + G - 1
             end == A + G
  <2>4. starts = {u * Second : u \in seconds} \union {end * Second}
    BY <2>1, <2>3
  <2>5. A .. A + G = seconds \union {end}
    BY <2>2
  <2> HIDE DEF seconds, end, starts
  <2> QED
    BY <2>4, <2>5
<1>3. \A u \in A .. A + G :
        currEnd(u * Second) = IF u = A THEN A * Second ELSE (u - 1) * Second + C
  BY <1>0, LastEnd
<1> HIDE DEF cues, ends, starts, currEnd
<1>4. late = {(u + 1) * Second : u \in {v \in A .. A + G - 1 : C < Second}}
  <2>1. ASSUME NEW r \in late
        PROVE  r \in {(u + 1) * Second : u \in {v \in A .. A + G - 1 : C < Second}}
    <3>1. PICK w \in A .. A + G : r = w * Second
      BY <1>2
    <3>2. w # A /\ (w - 1) * Second + C < w * Second
      BY <1>3, <3>1 DEF Second
    <3>3. w - 1 \in A .. A + G - 1 /\ C < Second /\ r = ((w - 1) + 1) * Second
      BY <3>1, <3>2 DEF Second
    <3> QED
      BY <3>3
  <2>2. ASSUME NEW u \in A .. A + G - 1, C < Second
        PROVE  (u + 1) * Second \in late
    <3>1. u + 1 \in A .. A + G /\ u + 1 # A /\ (u + 1) - 1 = u
      OBVIOUS
    <3>2. currEnd((u + 1) * Second) = u * Second + C
      BY <1>3, <3>1
    <3>3. (u + 1) * Second \in starts
      BY <1>2, <3>1
    <3> QED
      BY <2>2, <3>2, <3>3 DEF Second
  <2> QED
    BY <2>1, <2>2
<1>5. \A u \in A .. A + G - 1 : currEnd((u + 1) * Second) = u * Second + C
  <2> SUFFICES ASSUME NEW u \in A .. A + G - 1
               PROVE  currEnd((u + 1) * Second) = u * Second + C
    OBVIOUS
  <2>1. u + 1 \in A .. A + G /\ u + 1 # A /\ (u + 1) - 1 = u
    OBVIOUS
  <2> QED
    BY <1>3, <2>1
<1> HIDE DEF late
<1>6. gaps = Gaps(A, G, C)
  BY <1>4, <1>5 DEF Gaps
<1> QED
  BY <1>0, <1>1, <1>6

(* The samples of a group follow on from its beginning to its end.          *)
Gap(u, C) == WvttGap(u * Second + C, (u + 1) * Second)

LEMMA SampleTimes ==
  ASSUME NEW u \in Nat, NEW C \in 1 .. Second
  PROVE  /\ Cue(u, C).utcS = u
         /\ Cue(u, C).startMS = u * Second /\ Cue(u, C).endMS = u * Second + C
         /\ Gap(u, C).utcS = NoText
         /\ Gap(u, C).startMS = u * Second + C /\ Gap(u, C).endMS = (u + 1) * Second
BY DEF Cue, Gap, WvttGap

LEMMA SampleSpan ==
  ASSUME NEW A \in Nat, NEW G \in Nat \ {0}, NEW C \in 1 .. Second,
         NEW s \in Cues(A, G, C) \union Gaps(A, G, C)
  PROVE  \E u \in A .. A + G - 1 : s = Cue(u, C) \/ (C < Second /\ s = Gap(u, C))
<1>1. CASE s \in Cues(A, G, C)
  BY <1>1 DEF Cues
<1>2. CASE s \in Gaps(A, G, C)
  BY <1>2 DEF Gaps, Gap
<1> QED
  BY <1>1, <1>2

LEMMA SampleIn ==
  ASSUME NEW A \in Nat, NEW G \in Nat \ {0}, NEW C \in 1 .. Second,
         NEW u \in A .. A + G - 1
  PROVE  /\ Cue(u, C) \in Cues(A, G, C)
         /\ C < Second => Gap(u, C) \in Gaps(A, G, C)
BY DEF Cues, Gaps, Gap

LEMMA GroupTiles ==
  ASSUME NEW A \in Nat, NEW G \in Nat \ {0}, NEW C \in 1 .. Second
  PROVE  Tiles(Cues(A, G, C) \union Gaps(A, G, C), A * Second, (A + G) * Second)
<1> DEFINE samples == Cues(A, G, C) \union Gaps(A, G, C)
           start == A * Second
           end == (A + G) * Second
<1>1. \A u \in A .. A + G - 1 :
        /\ Cue(u, C) \in samples
        /\ C < Second => Gap(u, C) \in samples
  BY SampleIn
<1>2. \A s \in samples : \E u \in A .. A + G - 1 :
        s = Cue(u, C) \/ (C < Second /\ s = Gap(u, C))
  BY SampleSpan
<1> HIDE DEF samples
<1>3. \A u \in A .. A + G - 1 :
        /\ Cue(u, C).startMS = u * Second /\ Cue(u, C).endMS = u * Second + C
        /\ Gap(u, C).startMS = u * Second + C /\ Gap(u, C).endMS = (u + 1) * Second
  <2>1. \A u \in A .. A + G - 1 : u \in Nat
    OBVIOUS
  <2> QED
    BY <2>1, SampleTimes
<1>4. \E s \in samples : s.startMS = start
  <2>1. A \in A .. A + G - 1
    OBVIOUS
  <2>2. Cue(A, C).startMS = start /\ Cue(A, C) \in samples
    BY <1>1, <1>3, <2>1
  <2> QED
    BY <2>2
<1>5. ASSUME NEW s \in samples
      PROVE  /\ s.startMS \in start .. s.endMS - 1
             /\ s.endMS = end \/ \E r \in samples : r.startMS = s.endMS
  <2>1. PICK u \in A .. A + G - 1 : s = Cue(u, C) \/ (C < Second /\ s = Gap(u, C))
    BY <1>2
  <2>2. u = A + G - 1 => (u + 1) * Second = end
    OBVIOUS
  <2>3. ASSUME u + 1 \in A .. A + G - 1
        PROVE  \E r \in samples : r.startMS = (u + 1) * Second
    <3>1. Cue(u + 1, C) \in samples /\ Cue(u + 1, C).startMS = (u + 1) * Second
      BY <1>1, <1>3, <2>3
    <3> QED
      BY <3>1
  <2>4. u = A + G - 1 \/ u + 1 \in A .. A + G - 1
    OBVIOUS
  <2>5. (u + 1) * Second = end \/ \E r \in samples : r.startMS = (u + 1) * Second
    BY <2>2, <2>3, <2>4
  <2>6. CASE s = Cue(u, C)
    <3>1. s.startMS = u * Second /\ s.endMS = u * Second + C
      BY <1>3, <2>6
    <3>2. s.startMS \in start .. s.endMS - 1
      BY <3>1 DEF Second
    <3>3. CASE C = Second
      <4>1. s.endMS = (u + 1) * Second
        BY <3>1, <3>3 DEF Second
      <4> QED
        BY <2>5, <3>2, <4>1
    <3>4. CASE C < Second
      <4>1. Gap(u, C) \in samples
        BY <1>1, <3>4
      <4>2. Gap(u, C).startMS = s.endMS
        BY <1>3, <3>1
      <4> QED
        BY <3>2, <4>1, <4>2
    <3> QED
      BY <3>3, <3>4 DEF Second
  <2>7. CASE C < Second /\ s = Gap(u, C)
    <3>1. s.startMS = u * Second + C /\ s.endMS = (u + 1) * Second
      BY <1>3, <2>7
    <3>2. s.startMS \in start .. s.endMS - 1
      BY <2>7, <3>1 DEF Second
    <3> QED
      BY <2>5, <3>1, <3>2
  <2> QED
    BY <2>1, <2>6, <2>7
<1>6. ASSUME NEW s \in samples, NEW r \in samples
      PROVE  r = s \/ r.endMS <= s.startMS \/ s.endMS <= r.startMS
  <2>1. PICK u \in A .. A + G - 1 : s = Cue(u, C) \/ (C < Second /\ s = Gap(u, C))
    BY <1>2
  <2>2. PICK v \in A .. A + G - 1 : r = Cue(v, C) \/ (C < Second /\ r = Gap(v, C))
    BY <1>2
  <2>3. \/ s.startMS = u * Second /\ s.endMS = u * Second + C
        \/ s.startMS = u * Second + C /\ s.endMS = (u + 1) * Second
    BY <1>3, <2>1
  <2>4. \/ r.startMS = v * Second /\ r.endMS = v * Second + C
        \/ r.startMS = v * Second + C /\ r.endMS = (v + 1) * Second
    BY <1>3, <2>2
  <2>5. CASE u # v
    BY <2>3, <2>4, <2>5 DEF Second
  <2>6. CASE u = v
    <3>1. CASE s = Cue(u, C) /\ r = Gap(u, C)
      <4>1. s.endMS <= r.startMS
        BY <1>3, <3>1 DEF Second
      <4> QED
        BY <4>1
    <3>2. CASE s = Gap(u, C) /\ r = Cue(u, C)
      <4>1. r.endMS <= s.startMS
        BY <1>3, <3>2 DEF Second
      <4> QED
        BY <4>1
    <3> QED
      BY <2>1, <2>2, <2>6, <3>1, <3>2
  <2> QED
    BY <2>5, <2>6
<1> QED
  BY <1>4, <1>5, <1>6 DEF Tiles, samples

LEMMA TextsOfGroup ==
  ASSUME NEW A \in Nat, NEW G \in Nat \ {0}, NEW C \in 1 .. Second
  PROVE  {s \in Cues(A, G, C) \union Gaps(A, G, C) : s.utcS # NoText} = Cues(A, G, C)
<1>1. ASSUME NEW s \in Cues(A, G, C) PROVE s.utcS # NoText
  BY DEF Cues, Cue, NoText
<1>2. ASSUME NEW s \in Gaps(A, G, C) PROVE s.utcS = NoText
  BY DEF Gaps, WvttGap
<1> QED
  BY <1>1, <1>2

(* The times of a document, read back.                                      *)
LEMMA TTMLTime ==
  ASSUME NEW ms \in Nat
  PROVE  Millis(MsToTTMLTime(ms)) = ms
<1> DEFINE t == MsToTTMLTime(ms)
           h == ms \div 3600000
           rh == ms % 3600000
           m == rh \div 60000
           rm == ms % 60000
           s == rm \div 1000
           rs == ms % 1000
<1>1. t.hours = h /\ t.minutes = m /\ t.seconds = s /\ t.millis = rs
  BY SMT DEF MsToTTMLTime
<1>2. h \in Nat /\ rh \in Nat /\ rh < 3600000 /\ ms = 3600000 * h + rh
  BY DivMod, SMT
<1>3. m \in Nat /\ rm \in Nat /\ rm < 60000 /\ rh = 60000 * m + rm
  <2>1. rm = rh % 60000
    <3>1. ms = 60000 * (60 * h) + rh
      BY <1>2, SMT
    <3> HIDE DEF h, rh
    <3> QED
      BY <1>2, <3>1, SMT
  <2> HIDE DEF rh, rm
  <2> QED
    BY <1>2, <2>1, DivMod, SMT
<1>4. s \in Nat /\ rs \in Nat /\ rm = 1000 * s + rs
  BY SMT
<1> HIDE DEF t, h, rh, m, rm, s, rs
<1>5. ((h * 60 + m) * 60 + s) * 1000 + rs = ms
  BY <1>2, <1>3, <1>4, SMT
<1>6. Millis(t) = ((h * 60 + m) * 60 + s) * 1000 + rs
  BY <1>1, SMT DEF Millis
<1> QED
  BY <1>5, <1>6, SMT DEF t

LEMMA ShownInGroup ==
  ASSUME NEW A \in Nat, NEW G \in Nat \ {0}, NEW C \in 1 .. Second
  PROVE  Shown(StppCues(A * Second, G * Second, C)) = Cues(A, G, C)
<1> DEFINE Doc(c) == [utcS |-> c.utcS, begin |-> MsToTTMLTime(c.startMS),
                      end |-> MsToTTMLTime(c.endMS)]
           Read(d) == [utcS |-> d.utcS, startMS |-> Millis(d.begin), endMS |-> Millis(d.end)]
<1>1. StppCues(A * Second, G * Second, C) = {Doc(c) : c \in Cues(A, G, C)}
  BY CuesOfGroup DEF StppCues
<1>2. ASSUME NEW c \in Cues(A, G, C) PROVE Read(Doc(c)) = c
  <2>1. PICK u \in A .. A + G - 1 : c = Cue(u, C)
    BY DEF Cues
  <2>2. u * Second \in Nat /\ u * Second + C \in Nat
    BY DEF Second
  <2>3. Read(Doc(c)) = [utcS |-> c.utcS, startMS |-> Millis(MsToTTMLTime(c.startMS)),
                        endMS |-> Millis(MsToTTMLTime(c.endMS))]
    OBVIOUS
  <2>4. c.startMS = u * Second /\ c.endMS = u * Second + C /\ c.utcS = u
    BY <2>1, SampleTimes
  <2>5. Millis(MsToTTMLTime(c.startMS)) = u * Second
        /\ Millis(MsToTTMLTime(c.endMS)) = u * Second + C
    BY <2>2, <2>4, TTMLTime
  <2> QED
    BY <2>1, <2>3, <2>4, <2>5 DEF Cue
<1>3. Shown(StppCues(A * Second, G * Second, C)) =
        {Read(d) : d \in {Doc(c) : c \in Cues(A, G, C)}}
  BY <1>1 DEF Shown
<1> HIDE DEF Doc, Read
<1> QED
  BY <1>2, <1>3

(* A group begins and ends with a second.                                   *)
LEMMA GroupInSeconds ==
  ASSUME NEW l \in Layouts, NEW n \in Nat
  PROVE  \E A \in Nat, G \in Nat \ {0} :
           /\ l.cueDurMS \in 1 .. Second
           /\ l.groupDurMS = G * Second
           /\ n * l.groupDurMS = A * Second
           /\ (n + 1) * l.groupDurMS = (A + G) * Second
           /\ (n * l.groupDurMS) \div Second = A
           /\ ((n + 1) * l.groupDurMS) \div Second = A + G
<1>1. /\ l.groupDurMS \in Nat \ {0} /\ l.cueDurMS \in 1 .. 1000
      /\ l.groupDurMS % 1000 = 0
  BY LayoutsAssumption
<1> DEFINE d == l.groupDurMS
           G == d \div 1000
           A == n * G
<1>2. G \in Nat \ {0} /\ d = G * 1000
  BY <1>1, SMT
<1> HIDE DEF d, G
<1>3. A \in Nat /\ n * d = A * 1000 /\ (n + 1) * d = (A + G) * 1000
  BY <1>2, SMT
<1> HIDE DEF A
<1>4. (A * 1000) \div 1000 = A /\ ((A + G) * 1000) \div 1000 = A + G
  BY <1>2, <1>3, SMT
<1>5. /\ l.cueDurMS \in 1 .. Second /\ d = G * Second
      /\ n * d = A * Second /\ (n + 1) * d = (A + G) * Second
  BY <1>1, <1>2, <1>3, SMT DEF Second
<1>6. (n * d) \div Second = A /\ ((n + 1) * d) \div Second = A + G
  BY <1>3, <1>4, SMT DEF Second
<1> QED
  BY <1>2, <1>3, <1>5, <1>6, SMT DEF d

(* Whatever whole number of seconds a group has and however long, up to a   *)
(* second, a cue is: both subtitle formats tell every second of the group   *)
(* once, at its beginning, and the samples tile the group (subtitle.go:157  *)
(* to 361).                                                                 *)
THEOREM SubtitlesTellTheTime == Spec => []CuesTellTheTime
<1>1. ASSUME TypeOK PROVE CuesTellTheTime
  <2> SUFFICES ASSUME NEW l \in Layouts
               PROVE  LET group == GenSubtitleGroup(nr, l)
                          start == nr * l.groupDurMS
                          end == (nr + 1) * l.groupDurMS
                          told == {[utcS |-> u, startMS |-> u * 1000,
                                    endMS |-> u * 1000 + l.cueDurMS] :
                                     u \in start \div 1000 .. end \div 1000 - 1}
                      IN  /\ Tiles(group.wvtt, start, end)
                          /\ {s \in group.wvtt : s.utcS # NoText} = told
                          /\ Shown(group.stpp) = told
    BY SMT DEF CuesTellTheTime
  <2>1. nr \in Nat
    BY <1>1, SMT DEF TypeOK
  <2> DEFINE C == l.cueDurMS
             d == l.groupDurMS
             group == GenSubtitleGroup(nr, l)
             start == nr * d
             end == (nr + 1) * d
             told == {[utcS |-> u, startMS |-> u * 1000, endMS |-> u * 1000 + C] :
                        u \in start \div 1000 .. end \div 1000 - 1}
  <2>2. PICK A \in Nat, G \in Nat \ {0} :
          /\ C \in 1 .. Second /\ d = G * Second
          /\ start = A * Second /\ end = (A + G) * Second
          /\ start \div Second = A /\ end \div Second = A + G
    BY <2>1, GroupInSeconds
  <2>3. group.wvtt = WvttSamples(start, d, C) /\ group.stpp = StppCues(start, d, C)
    BY SMT DEF GenSubtitleGroup
  <2>4. told = Cues(A, G, C)
    BY <2>2, SMT DEF Cues, Cue, Second
  <2> HIDE DEF C, d, group, start, end, told
  <2>5. group.wvtt = Cues(A, G, C) \union Gaps(A, G, C)
    BY <2>2, <2>3, SamplesOfGroup
  <2>6. Shown(group.stpp) = told
    BY <2>2, <2>3, <2>4, ShownInGroup
  <2>7. Tiles(group.wvtt, start, end)
    BY <2>2, <2>5, GroupTiles
  <2>8. {s \in group.wvtt : s.utcS # NoText} = told
    BY <2>2, <2>4, <2>5, TextsOfGroup
  <2> QED
    BY <2>6, <2>7, <2>8, SMT DEF C, d, group, start, end, told
<1> QED
  BY <1>1, TypeInvariant, PTL
=============================================================================
