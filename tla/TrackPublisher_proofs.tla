----------------------- MODULE TrackPublisher_proofs -----------------------
(***************************************************************************)
(* Proofs about TrackPublisher, for every set of subscriptions and tracks. *)
(***************************************************************************)
EXTENDS TrackPublisher, GroupTiming_proofs, SequenceTheorems

Strm == [group : Nat, objects : Nat, fin : BOOLEAN]

-----------------------------------------------------------------------------
(* Layout.                                                                 *)

LEMMA TrackFields ==
  ASSUME NEW t \in Tracks
  PROVE  /\ t.timeScale \in Nat \ {0} /\ t.sampleDur \in Nat \ {0}
         /\ t.sampleBatch \in Nat \ {0} /\ t.gopLength \in Nat
         /\ t.packaging \in Packagings
         /\ Batch(t) \in Nat \ {0}
  BY TracksAssumption DEF LoadedTrack, Batch

LEMMA GroupFirstMono ==
  ASSUME NEW t \in Tracks, NEW g \in Nat
  PROVE  /\ GroupFirst(t, g) \in Nat
         /\ GroupFirst(t, g + 1) \in Nat
         /\ GroupFirst(t, g) <= GroupFirst(t, g + 1)
<1> USE TrackFields
<1>0. g + 1 \in Nat
  OBVIOUS
<1>1. CASE t.packaging = "moqmiVideo"
  <2>1. g * t.gopLength \in Nat /\ (g + 1) * t.gopLength = g * t.gopLength + t.gopLength
    OBVIOUS
  <2> QED
    BY <1>1, <2>1 DEF GroupFirst
<1>2. CASE t.packaging = "moqmiAudio"
  BY <1>2 DEF GroupFirst
<1>3. CASE t.packaging \notin {"moqmiVideo", "moqmiAudio"}
  BY <1>0, <1>3, GroupStart, GroupStartMono DEF GroupFirst
<1> QED
  BY <1>1, <1>2, <1>3

(* Within a group, objects take the samples in order, in chunks of at most *)
(* a batch, and the end of a group is the beginning of the next.           *)
LEMMA Positions ==
  ASSUME NEW t \in Tracks, NEW g \in Nat
  PROVE  /\ GroupObjects(t, g) \in Nat
         /\ \A k \in Nat : Position(t, g, k) \in Nat
         /\ Position(t, g, 0) = GroupFirst(t, g)
         /\ Position(t, g, GroupObjects(t, g)) = GroupFirst(t, g + 1)
         /\ \A k \in 0 .. GroupObjects(t, g) - 1 :
              /\ Position(t, g, k) = GroupFirst(t, g) + k * Batch(t)
              /\ Position(t, g, k) < Position(t, g, k + 1)
              /\ Position(t, g, k + 1) <= Position(t, g, k) + Batch(t)
<1> DEFINE grp == Group(t, g)
           B == Batch(t)
<1>1. grp.startNr = GroupFirst(t, g) /\ grp.endNr = GroupFirst(t, g + 1)
  BY DEF Group
<1>2. grp.startNr \in Nat /\ grp.endNr \in Nat /\ grp.startNr <= grp.endNr
  BY <1>1, GroupFirstMono
<1>3. B \in Nat \ {0}
  BY TrackFields
<1> HIDE DEF grp, B
<1> QED
  BY <1>1, <1>2, <1>3, ObjectStrides DEF GroupObjects, Position, grp, B

LEMMA StartGroupType ==
  ASSUME NEW t \in Tracks, NEW now \in Nat, Playable(t)
  PROVE  StartGroup(t, now) \in Nat
<1> USE TrackFields
<1>1. CASE t.packaging = "moqmiVideo"
  <2>1. t.gopLength * t.sampleDur * 1000 \in Nat
    OBVIOUS
  <2>2. GopDurMS(t) \in Nat \ {0}
    BY <2>1, DivBracket DEF GopDurMS
  <2>3. now \div GopDurMS(t) \in Nat
    BY <2>2, DivBracket
  <2> QED
    BY <1>1, <2>3 DEF StartGroup
<1>2. CASE t.packaging = "moqmiAudio"
  <2>1. now * t.timeScale \in Nat
    OBVIOUS
  <2>2. (now * t.timeScale) \div 1000 \in Nat
    BY <2>1, DivBracket
  <2> QED
    BY <1>2, <2>2, CeilDivBounds DEF StartGroup
<1>3. CASE t.packaging \notin {"moqmiVideo", "moqmiAudio"}
  <2>1. now \div MoqGroupDurMS \in Nat
    BY DEF MoqGroupDurMS
  <2> QED
    BY <1>3, <2>1 DEF StartGroup, CurrMoQGroupNr
<1> QED
  BY <1>1, <1>2, <1>3

-----------------------------------------------------------------------------
(* The inductive invariant.  It adds to the safety properties where the    *)
(* goroutine is: whether its newest stream is in progress, and that it     *)
(* then agrees with the goroutine's own counters.                          *)

Finished(s, i) ==
  /\ streams[s][i].fin
  /\ streams[s][i].objects = GroupObjects(track[s], streams[s][i].group)

Audio(s) == track[s].packaging = "moqmiAudio"

InGroup(s) == pc[s] \in {"object", "write", "close"} \/ (pc[s] = "sleep" /\ ~Audio(s))

BetweenGroups(s) == pc[s] \in {"top", "open"} \/ (pc[s] = "sleep" /\ Audio(s))

StreamsInv(s) ==
  LET n == Len(streams[s])
  IN  /\ \A i \in 1 .. n - 1 : /\ Finished(s, i)
                               /\ streams[s][i + 1].group = streams[s][i].group + 1
      /\ InGroup(s) => /\ n > 0
                       /\ Current(s) = [group |-> group[s], objects |-> object[s],
                                        fin |-> FALSE]
      /\ BetweenGroups(s) /\ n > 0 => /\ Finished(s, n)
                                      /\ group[s] = Current(s).group + 1
      /\ pc[s] = "idle" => n = 0
      /\ pc[s] = "done" /\ n > 0 => \/ ~Current(s).fin
                                    \/ Finished(s, n)
                                    \/ track[s].packaging \in {"loc", "moqmiAudio"}

CountersInv(s) ==
  /\ object[s] <= GroupObjects(track[s], group[s])
  /\ BetweenGroups(s) => object[s] = 0
  /\ pc[s] = "idle" => group[s] = 0 /\ object[s] = 0
  /\ pc[s] = "close" \/ (pc[s] = "object" /\ Audio(s))
       => object[s] = GroupObjects(track[s], group[s])
  /\ pc[s] \in {"sleep", "write"} => object[s] < GroupObjects(track[s], group[s])
  /\ pc[s] = "write" => clock >= Due(s)
  /\ pc[s] = "open" /\ Audio(s) => clock >= Due(s)
  /\ Live(s) /\ track[s].packaging = "moqmiVideo"
       => seqID[s] = Position(track[s], group[s], object[s])
  /\ Live(s) /\ Audio(s) => seqID[s] = group[s]

LateInv(s) ==
  /\ late[s] <= 1
  /\ late[s] = 1 => ctxDone /\ pc[s] \in {"object", "close", "top", "done"}

SubInv(s) == StreamsInv(s) /\ CountersInv(s) /\ LateInv(s)

IInv == TypeOK /\ \A s \in Subs : SubInv(s)

LEMMA DueType ==
  ASSUME NEW t \in Tracks, NEW g \in Nat, NEW k \in Nat
  PROVE  DueMS(t, g, k) \in Nat
<1> USE TrackFields
<1>1. GroupFirst(t, g) \in Nat
  BY GroupFirstMono
<1>2. CASE Batched(t)
  <2> DEFINE x == (GroupFirst(t, g) * t.sampleDur + (k + 1) * t.sampleDur * t.sampleBatch) * 1000
  <2>1. x \in Nat
    BY <1>1
  <2>0. t.packaging # "subtitle"
    BY <1>2 DEF Batched
  <2>2. DueMS(t, g, k) = ObjectDueMS(t, GroupFirst(t, g), k)
    BY <1>2, <2>0 DEF DueMS
  <2>3. DueMS(t, g, k) = x \div t.timeScale
    BY <2>2 DEF ObjectDueMS
  <2> HIDE DEF x
  <2> QED
    BY <2>1, <2>3, DivBracket
<1>3. CASE t.packaging = "subtitle"
  <2>1. ~Batched(t)
    BY <1>3 DEF Batched
  <2>2. DueMS(t, g, k) = g * MoqGroupDurMS
    BY <1>3, <2>1 DEF DueMS
  <2> QED
    BY <2>2 DEF MoqGroupDurMS
<1>4. CASE ~Batched(t) /\ t.packaging # "subtitle"
  <2> DEFINE x == (GroupFirst(t, g) + k) * t.sampleDur * 1000
  <2>1. x \in Nat
    BY <1>1
  <2>2. DueMS(t, g, k) = SampleTimeMS(t, GroupFirst(t, g) + k)
    BY <1>4 DEF DueMS
  <2>3. DueMS(t, g, k) = x \div t.timeScale
    BY <2>2 DEF SampleTimeMS
  <2> HIDE DEF x
  <2> QED
    BY <2>1, <2>3, DivBracket
<1> QED
  BY <1>2, <1>3, <1>4

-----------------------------------------------------------------------------
(* Changes to a sequence of streams.                                       *)

LEMMA ReplaceLastProperties ==
  ASSUME NEW seq \in Seq(Strm), Len(seq) > 0, NEW st \in Strm
  PROVE  /\ ReplaceLast(seq, st) \in Seq(Strm)
         /\ Len(ReplaceLast(seq, st)) = Len(seq)
         /\ \A i \in 1 .. Len(seq) - 1 : ReplaceLast(seq, st)[i] = seq[i]
         /\ ReplaceLast(seq, st)[Len(seq)] = st
<1>1. Len(seq) \in 1 .. Len(seq) /\ Len(seq) \in Nat
  BY LenProperties
<1> QED
  BY <1>1, ExceptSeq DEF ReplaceLast

LEMMA StreamEquality ==
  ASSUME NEW a \in Strm, NEW b \in Strm,
         a.group = b.group, a.objects = b.objects, a.fin = b.fin
  PROVE  a = b
  BY DEF Strm

LEMMA StreamUpdates ==
  ASSUME NEW g \in Nat, NEW k \in Nat,
         NEW st, st = [group |-> g, objects |-> k, fin |-> FALSE]
  PROVE  /\ [st EXCEPT !.fin = TRUE] = [group |-> g, objects |-> k, fin |-> TRUE]
         /\ [st EXCEPT !.fin = TRUE] \in Strm
         /\ [st EXCEPT !.objects = @ + 1] = [group |-> g, objects |-> k + 1, fin |-> FALSE]
         /\ [st EXCEPT !.objects = @ + 1] \in Strm
<1> DEFINE a == [st EXCEPT !.fin = TRUE]
           b == [st EXCEPT !.objects = @ + 1]
           a1 == [group |-> g, objects |-> k, fin |-> TRUE]
           b1 == [group |-> g, objects |-> k + 1, fin |-> FALSE]
<1>1. st \in Strm /\ a1 \in Strm /\ b1 \in Strm
  BY DEF Strm
<1>2. a \in Strm /\ a.group = a1.group /\ a.objects = a1.objects /\ a.fin = a1.fin
  BY <1>1 DEF Strm
<1>3. b \in Strm /\ b.group = b1.group /\ b.objects = b1.objects /\ b.fin = b1.fin
  BY <1>1 DEF Strm
<1> HIDE DEF a, b, a1, b1
<1>4. a = a1 /\ b = b1
  BY <1>1, <1>2, <1>3, StreamEquality
<1> QED
  BY <1>1, <1>4 DEF a, b, a1, b1

-----------------------------------------------------------------------------
(* What a step leaves alone.                                               *)

SameLocals(s) ==
  /\ track'[s] = track[s]
  /\ pc'[s] = pc[s]
  /\ group'[s] = group[s]
  /\ object'[s] = object[s]
  /\ seqID'[s] = seqID[s]
  /\ streams'[s] = streams[s]
  /\ late'[s] = late[s]

(* The passing of time and cancellation cannot break the invariant of a    *)
(* goroutine that does not move.                                           *)
LEMMA Frame ==
  ASSUME TypeOK, NEW s \in Subs, SubInv(s), SameLocals(s),
         clock' \in Nat, clock' >= clock, ctxDone => ctxDone'
  PROVE  SubInv(s)'
<1>1. StreamsInv(s)'
  BY DEF SubInv, SameLocals, StreamsInv, InGroup, BetweenGroups, Finished, Current, Audio
<1>2. CountersInv(s)'
  <2>1. Due(s) \in Nat /\ clock \in Nat
    BY DueType DEF TypeOK, Due
  <2>2. Due(s)' = Due(s)
    BY DEF SameLocals, Due
  <2>3. clock >= Due(s) => clock' >= Due(s)'
    BY <2>1, <2>2
  <2> QED
    BY <2>3 DEF SubInv, SameLocals, CountersInv, BetweenGroups, Audio, Live
<1>3. LateInv(s)'
  BY DEF SubInv, SameLocals, LateInv
<1> QED
  BY <1>1, <1>2, <1>3 DEF SubInv

LEMMA OthersUntouched ==
  ASSUME TypeOK, NEW s \in Subs, Subscribe(s) \/ Step(s)
  PROVE  /\ UNCHANGED <<clock, ctxDone, gone, track>>
         /\ \A r \in Subs \ {s} : SameLocals(r)
<1> USE DEF TypeOK, SameLocals, Goto, GiveUp, EndStream
<1>1. CASE Subscribe(s)
  BY <1>1 DEF Subscribe
<1>2. CASE LoopTop(s)
  BY <1>2 DEF LoopTop
<1>3. CASE OpenSubgroup(s)
  BY <1>3 DEF OpenSubgroup
<1>4. CASE NextObject(s)
  BY <1>4 DEF NextObject
<1>5. CASE TimerFires(s)
  BY <1>5 DEF TimerFires
<1>6. CASE SleepCancelled(s)
  BY <1>6 DEF SleepCancelled
<1>7. CASE WriteObject(s)
  BY <1>7 DEF WriteObject
<1>8. CASE CloseSubgroup(s)
  BY <1>8 DEF CloseSubgroup
<1> QED
  BY <1>1, <1>2, <1>3, <1>4, <1>5, <1>6, <1>7, <1>8 DEF Step

-----------------------------------------------------------------------------
(* Each step of a goroutine preserves its type and its invariant.          *)

LEMMA SubTypes ==
  ASSUME TypeOK, NEW s \in Subs
  PROVE  /\ track[s] \in Tracks /\ pc[s] \in PCs
         /\ group[s] \in Nat /\ object[s] \in Nat /\ seqID[s] \in Nat /\ late[s] \in Nat
         /\ streams[s] \in Seq(Strm) /\ Len(streams[s]) \in Nat
         /\ \A i \in 1 .. Len(streams[s]) : streams[s][i] \in Strm
         /\ clock \in Nat /\ ctxDone \in BOOLEAN /\ gone[s] \in BOOLEAN
         /\ GroupObjects(track[s], group[s]) \in Nat
         /\ Due(s) \in Nat
<1>1. /\ track[s] \in Tracks /\ pc[s] \in PCs
      /\ group[s] \in Nat /\ object[s] \in Nat /\ seqID[s] \in Nat /\ late[s] \in Nat
      /\ clock \in Nat /\ ctxDone \in BOOLEAN /\ gone[s] \in BOOLEAN
  BY DEF TypeOK
<1>2. streams[s] \in Seq(Strm)
  BY DEF TypeOK, Strm
<1>3. Len(streams[s]) \in Nat /\ \A i \in 1 .. Len(streams[s]) : streams[s][i] \in Strm
  BY <1>2, LenProperties, ElementOfSeq
<1>4. GroupObjects(track[s], group[s]) \in Nat
  BY <1>1, Positions
<1>5. Due(s) \in Nat
  BY <1>1, DueType DEF Due
<1> QED
  BY <1>1, <1>2, <1>3, <1>4, <1>5

LEMMA SubscribeInv ==
  ASSUME IInv, NEW s \in Subs, Subscribe(s)
  PROVE  TypeOK' /\ SubInv(s)'
<1> USE DEF Subscribe, Goto
<1>1. TypeOK /\ SubInv(s)
  BY DEF IInv
<1>2. ASSUME Playable(track[s]), pc' = [pc EXCEPT ![s] = "top"],
             group' = [group EXCEPT ![s] = StartGroup(track[s], clock)],
             seqID' = [seqID EXCEPT ![s] = GroupFirst(track[s], group'[s])]
      PROVE  TypeOK' /\ SubInv(s)'
  <2> DEFINE g == StartGroup(track[s], clock)
  <2>1. g \in Nat
    BY <1>1, <1>2, SubTypes, StartGroupType
  <2>2. GroupFirst(track[s], g) \in Nat /\ Position(track[s], g, 0) = GroupFirst(track[s], g)
        /\ GroupObjects(track[s], g) \in Nat
    BY <1>1, <2>1, SubTypes, GroupFirstMono, Positions
  <2> HIDE DEF g
  <2>3. /\ pc' = [pc EXCEPT ![s] = "top"] /\ group' = [group EXCEPT ![s] = g]
        /\ seqID' = [seqID EXCEPT ![s] = GroupFirst(track[s], g)]
    BY <1>1, <1>2 DEF g, TypeOK
  <2>4. TypeOK'
    BY <1>1, <2>1, <2>2, <2>3 DEF TypeOK, PCs
  <2>5. StreamsInv(s)'
    BY <1>1, <2>3 DEF TypeOK, SubInv, StreamsInv, InGroup, BetweenGroups
  <2>6. CountersInv(s)'
    <3>1. track[s].packaging = "moqmiAudio" => GroupFirst(track[s], g) = g
      BY DEF GroupFirst
    <3> QED
      BY <1>1, <2>1, <2>2, <2>3, <3>1
         DEF TypeOK, SubInv, CountersInv, BetweenGroups, Audio
  <2>7. LateInv(s)'
    BY <1>1, <2>3 DEF TypeOK, SubInv, LateInv
  <2> QED
    BY <2>4, <2>5, <2>6, <2>7 DEF SubInv
<1>3. ASSUME pc' = [pc EXCEPT ![s] = "done"], UNCHANGED <<group, seqID>>
      PROVE  TypeOK' /\ SubInv(s)'
  <2>1. TypeOK'
    BY <1>1, <1>3 DEF TypeOK, PCs
  <2>2. SubInv(s)'
    BY <1>1, <1>3 DEF TypeOK, SubInv, StreamsInv, CountersInv, LateInv, InGroup,
                      BetweenGroups, Live
  <2> QED
    BY <2>1, <2>2
<1> QED
  BY <1>2, <1>3

LEMMA AudioGroup ==
  ASSUME TypeOK, NEW s \in Subs, Audio(s)
  PROVE  GroupObjects(track[s], group[s]) = 1
<1>1. Group(track[s], group[s]) = [startNr |-> group[s], endNr |-> group[s] + 1]
  BY DEF Audio, Group, GroupFirst
<1>2. Batch(track[s]) = 1
  BY DEF Audio, Batch, Batched
<1> QED
  BY <1>1, <1>2, SubTypes DEF GroupObjects, NrObjects, CeilDiv

(* LoopTop and TimerFires only move the goroutine.                         *)
LEMMA LoopTopInv ==
  ASSUME IInv, NEW s \in Subs, LoopTop(s)
  PROVE  TypeOK' /\ SubInv(s)'
<1> USE DEF LoopTop, Goto
<1>1. TypeOK /\ SubInv(s)
  BY DEF IInv
<1>2. TypeOK'
  BY <1>1 DEF TypeOK, PCs
<1>3. StreamsInv(s)'
  BY <1>1 DEF TypeOK, SubInv, StreamsInv, InGroup, BetweenGroups, Audio, Finished, Current
<1>4. CountersInv(s)'
  <2>1. Due(s)' = Due(s)
    BY DEF Due
  <2>2. Audio(s) => GroupObjects(track[s], group[s]) = 1
    BY <1>1, AudioGroup
  <2> QED
    BY <1>1, <2>1, <2>2, SubTypes
       DEF TypeOK, SubInv, CountersInv, BetweenGroups, Audio, Live
<1>5. LateInv(s)'
  BY <1>1, SubTypes DEF TypeOK, SubInv, LateInv
<1> QED
  BY <1>2, <1>3, <1>4, <1>5 DEF SubInv

LEMMA TimerFiresInv ==
  ASSUME IInv, NEW s \in Subs, TimerFires(s)
  PROVE  TypeOK' /\ SubInv(s)'
<1> USE DEF TimerFires, Goto
<1>1. TypeOK /\ SubInv(s)
  BY DEF IInv
<1>2. TypeOK'
  BY <1>1 DEF TypeOK, PCs
<1>3. StreamsInv(s)'
  BY <1>1 DEF TypeOK, SubInv, StreamsInv, InGroup, BetweenGroups, Audio, Finished, Current
<1>4. CountersInv(s)'
  <2>1. Due(s)' = Due(s)
    BY DEF Due
  <2> QED
    BY <1>1, <2>1, SubTypes DEF TypeOK, SubInv, CountersInv, BetweenGroups, Audio, Live
<1>5. LateInv(s)'
  BY <1>1, SubTypes DEF TypeOK, SubInv, LateInv
<1> QED
  BY <1>2, <1>3, <1>4, <1>5 DEF SubInv

LEMMA OpenSubgroupInv ==
  ASSUME IInv, NEW s \in Subs, OpenSubgroup(s)
  PROVE  TypeOK' /\ SubInv(s)'
<1> DEFINE st == [group |-> group[s], objects |-> 0, fin |-> FALSE]
           n == Len(streams[s])
           opened == Append(streams[s], st)
<1>1. TypeOK /\ SubInv(s) /\ pc[s] = "open"
  BY DEF IInv, OpenSubgroup
<1>2. /\ st \in Strm /\ n \in Nat
      /\ opened \in Seq(Strm) /\ Len(opened) = n + 1
      /\ \A i \in 1 .. n : opened[i] = streams[s][i]
      /\ opened[n + 1] = st
  BY <1>1, SubTypes, AppendProperties DEF Strm
<1>3. UNCHANGED <<clock, ctxDone, gone, track, group, object, seqID, late>>
  BY DEF OpenSubgroup
<1>4. \/ /\ streams' = [streams EXCEPT ![s] = opened]
         /\ pc' = [pc EXCEPT ![s] = IF Audio(s) THEN "write" ELSE "object"]
      \/ /\ streams' = [streams EXCEPT ![s] = opened]
         /\ pc' = [pc EXCEPT ![s] = "done"]
      \/ /\ streams' = streams
         /\ pc' = [pc EXCEPT ![s] = "done"]
  BY DEF OpenSubgroup, Goto, Audio
<1>5. Due(s)' = Due(s)
  BY <1>3 DEF Due
<1> HIDE DEF opened, st
<1>6. CASE streams' = [streams EXCEPT ![s] = opened]
  <2>1. streams'[s] = opened
    BY <1>1, <1>6 DEF TypeOK
  <2>2. TypeOK'
    BY <1>1, <1>2, <1>3, <1>4, <1>6 DEF TypeOK, PCs, Strm
  <2>3. pc'[s] \in {"write", "object", "done"} /\ (pc'[s] = "write" => Audio(s))
        /\ (pc'[s] = "object" => ~Audio(s))
    BY <1>1, <1>4 DEF TypeOK
  <2>4. StreamsInv(s)'
    <3>1. \A i \in 1 .. n : Finished(s, i)
      BY <1>1, <1>2 DEF SubInv, StreamsInv, BetweenGroups
    <3>2. \A i \in 1 .. n - 1 : streams[s][i + 1].group = streams[s][i].group + 1
      BY <1>1 DEF SubInv, StreamsInv
    <3>3. n > 0 => group[s] = streams[s][n].group + 1
      BY <1>1 DEF SubInv, StreamsInv, BetweenGroups, Current
    <3>4. \A i \in 1 .. n : Finished(s, i)'
      BY <1>2, <1>3, <2>1, <3>1 DEF Finished
    <3>5. \A i \in 1 .. n : (streams'[s][i + 1]).group = (streams'[s][i]).group + 1
      BY <1>2, <2>1, <3>2, <3>3 DEF st
    <3>6. object[s] = 0
      BY <1>1 DEF SubInv, CountersInv, BetweenGroups
    <3> QED
      BY <1>2, <1>3, <2>1, <2>3, <3>4, <3>5, <3>6
         DEF StreamsInv, BetweenGroups, InGroup, Current, st, Audio
  <2>5. CountersInv(s)'
    BY <1>1, <1>3, <1>5, <2>3, AudioGroup, SubTypes
       DEF SubInv, CountersInv, BetweenGroups, Audio, Live
  <2>6. LateInv(s)'
    BY <1>1, <1>3, <2>3, SubTypes DEF SubInv, LateInv
  <2> QED
    BY <2>2, <2>4, <2>5, <2>6 DEF SubInv
<1>7. CASE streams' = streams /\ pc' = [pc EXCEPT ![s] = "done"]
  <2>1. TypeOK'
    BY <1>1, <1>3, <1>7 DEF TypeOK, PCs
  <2>2. StreamsInv(s)'
    BY <1>1, <1>3, <1>7 DEF TypeOK, SubInv, StreamsInv, BetweenGroups, InGroup, Current, Finished
  <2>3. CountersInv(s)' /\ LateInv(s)'
    BY <1>1, <1>3, <1>7 DEF TypeOK, SubInv, CountersInv, LateInv, BetweenGroups, Audio, Live
  <2> QED
    BY <2>1, <2>2, <2>3 DEF SubInv
<1> QED
  BY <1>4, <1>6, <1>7

(* A goroutine that gives up inside a group.                               *)
LEMMA GiveUpInv ==
  ASSUME IInv, NEW s \in Subs, InGroup(s), GiveUp(s),
         UNCHANGED <<clock, ctxDone, gone, track, group, object, seqID, late>>
  PROVE  TypeOK' /\ SubInv(s)'
<1> DEFINE n == Len(streams[s])
           st == [Current(s) EXCEPT !.fin = TRUE]
           ended == ReplaceLast(streams[s], st)
<1>1. TypeOK /\ SubInv(s)
  BY DEF IInv
<1>2. n \in Nat /\ n > 0 /\ Current(s) \in Strm
  BY <1>1, SubTypes DEF SubInv, StreamsInv, Current
<1>3. st \in Strm
  BY <1>2 DEF Strm
<1>4. /\ ended \in Seq(Strm) /\ Len(ended) = n
      /\ \A i \in 1 .. n - 1 : ended[i] = streams[s][i]
      /\ ended[n] = st /\ st.group = Current(s).group
  <2> HIDE DEF st
  <2>1. ended \in Seq(Strm) /\ Len(ended) = n
        /\ (\A i \in 1 .. n - 1 : ended[i] = streams[s][i]) /\ ended[n] = st
    BY <1>1, <1>2, <1>3, SubTypes, ReplaceLastProperties
  <2> QED
    BY <1>2, <2>1 DEF st, Strm
<1>5. pc' = [pc EXCEPT ![s] = "done"]
  BY DEF GiveUp, Goto
<1>6. \/ /\ track[s].packaging \in {"loc", "moqmiAudio"}
         /\ streams' = [streams EXCEPT ![s] = ended]
      \/ streams' = streams
  BY DEF GiveUp, EndStream
<1> HIDE DEF ended, st
<1>7. TypeOK'
  BY <1>1, <1>4, <1>5, <1>6 DEF TypeOK, PCs, Strm
<1>8. StreamsInv(s)'
  <2>1. CASE streams' = streams
    BY <1>1, <1>2, <1>5, <2>1 DEF TypeOK, SubInv, StreamsInv, BetweenGroups, InGroup,
                                   Current, Finished
  <2>2. CASE /\ track[s].packaging \in {"loc", "moqmiAudio"}
             /\ streams' = [streams EXCEPT ![s] = ended]
    <3>1. streams'[s] = ended
      BY <1>1, <2>2 DEF TypeOK
    <3>2. \A i \in 1 .. n - 1 : Finished(s, i)'
      BY <1>1, <1>4, <3>1 DEF SubInv, StreamsInv, Finished
    <3>3. \A i \in 1 .. n - 1 : (streams'[s][i + 1]).group = (streams'[s][i]).group + 1
      BY <1>1, <1>2, <1>4, <3>1 DEF SubInv, StreamsInv, Current
    <3> QED
      BY <1>1, <1>2, <1>4, <1>5, <2>2, <3>1, <3>2, <3>3
         DEF TypeOK, StreamsInv, BetweenGroups, InGroup
  <2> QED
    BY <1>6, <2>1, <2>2
<1>9. CountersInv(s)' /\ LateInv(s)'
  BY <1>1, <1>5 DEF TypeOK, SubInv, CountersInv, LateInv, BetweenGroups, Audio, Live
<1> QED
  BY <1>7, <1>8, <1>9 DEF SubInv

LEMMA NextObjectInv ==
  ASSUME IInv, NEW s \in Subs, NextObject(s)
  PROVE  TypeOK' /\ SubInv(s)'
<1>1. /\ TypeOK /\ SubInv(s) /\ pc[s] = "object" /\ InGroup(s)
      /\ UNCHANGED <<clock, ctxDone, gone, track, group, object, seqID, late>>
  BY DEF IInv, NextObject, InGroup
<1>2. CASE GiveUp(s)
  BY <1>1, <1>2, GiveUpInv
<1>3. ASSUME streams' = streams,
             \/ /\ object[s] = GroupObjects(track[s], group[s])
                /\ pc' = [pc EXCEPT ![s] = "close"]
             \/ /\ object[s] # GroupObjects(track[s], group[s])
                /\ ~ctxDone
                /\ pc' = [pc EXCEPT ![s] = IF clock < Due(s) THEN "sleep" ELSE "write"]
      PROVE  TypeOK' /\ SubInv(s)'
  <2>1. TypeOK'
    BY <1>1, <1>3 DEF TypeOK, PCs
  <2>2. ~Audio(s) \/ pc'[s] # "sleep"
    BY <1>1, <1>3 DEF TypeOK, SubInv, CountersInv
  <2>3. StreamsInv(s)'
    BY <1>1, <1>3, <2>2 DEF TypeOK, SubInv, StreamsInv, BetweenGroups, InGroup, Current,
                             Finished, Audio
  <2>4. Due(s)' = Due(s)
    BY <1>1 DEF Due
  <2>5. CountersInv(s)'
    BY <1>1, <1>3, <2>2, <2>4, SubTypes DEF TypeOK, SubInv, CountersInv, BetweenGroups, Audio, Live
  <2>6. LateInv(s)'
    BY <1>1, <1>3, SubTypes DEF TypeOK, SubInv, LateInv
  <2> QED
    BY <2>1, <2>3, <2>5, <2>6 DEF SubInv
<1> QED
  BY <1>2, <1>3 DEF NextObject, Goto
LEMMA SleepCancelledInv ==
  ASSUME IInv, NEW s \in Subs, SleepCancelled(s)
  PROVE  TypeOK' /\ SubInv(s)'
<1>1. /\ TypeOK /\ SubInv(s) /\ pc[s] = "sleep"
      /\ UNCHANGED <<clock, ctxDone, gone, track, group, object, seqID, late>>
  BY DEF IInv, SleepCancelled
<1>2. CASE ~Audio(s)
  BY <1>1, <1>2, GiveUpInv DEF SleepCancelled, InGroup, Audio
<1>3. CASE Audio(s)
  <2>1. streams' = streams /\ pc' = [pc EXCEPT ![s] = "done"]
    BY <1>3 DEF SleepCancelled, Goto, Audio
  <2>2. TypeOK'
    BY <1>1, <2>1 DEF TypeOK, PCs
  <2>3. StreamsInv(s)'
    BY <1>1, <1>3, <2>1 DEF TypeOK, SubInv, StreamsInv, BetweenGroups, InGroup, Current, Finished
  <2>4. CountersInv(s)' /\ LateInv(s)'
    BY <1>1, <2>1 DEF TypeOK, SubInv, CountersInv, LateInv, BetweenGroups, Audio, Live
  <2> QED
    BY <2>2, <2>3, <2>4 DEF SubInv
<1> QED
  BY <1>2, <1>3

LEMMA WriteObjectInv ==
  ASSUME IInv, NEW s \in Subs, WriteObject(s)
  PROVE  TypeOK' /\ SubInv(s)'
<1> DEFINE n == Len(streams[s])
           st == [Current(s) EXCEPT !.objects = @ + 1]
           written == ReplaceLast(streams[s], st)
           k == object[s]
<1>1. /\ TypeOK /\ SubInv(s) /\ pc[s] = "write" /\ InGroup(s)
      /\ UNCHANGED <<clock, ctxDone, gone, track, group>>
  BY DEF IInv, WriteObject, InGroup
<1>2. CASE GiveUp(s) /\ UNCHANGED <<object, seqID, late>>
  BY <1>1, <1>2, GiveUpInv
<1>3. ASSUME streams' = [streams EXCEPT ![s] = written],
             object' = [object EXCEPT ![s] = k + 1],
             seqID' = [seqID EXCEPT ![s] =
                         IF track[s].packaging = "moqmiVideo" THEN @ + 1 ELSE @],
             late' = [late EXCEPT ![s] = IF ctxDone THEN @ + 1 ELSE @],
             pc' = [pc EXCEPT ![s] = "object"]
      PROVE  TypeOK' /\ SubInv(s)'
  <2>1. /\ n \in Nat /\ n > 0
        /\ Current(s) = [group |-> group[s], objects |-> k, fin |-> FALSE]
        /\ k \in Nat /\ group[s] \in Nat
    BY <1>1, SubTypes DEF SubInv, StreamsInv
  <2>2. st = [group |-> group[s], objects |-> k + 1, fin |-> FALSE] /\ st \in Strm
    BY <2>1, StreamUpdates
  <2>3. /\ written \in Seq(Strm) /\ Len(written) = n
        /\ \A i \in 1 .. n - 1 : written[i] = streams[s][i]
        /\ written[n] = st
    <3> HIDE DEF st
    <3> QED
      BY <1>1, <2>1, <2>2, SubTypes, ReplaceLastProperties
  <2> HIDE DEF written, st
  <2>4. /\ streams'[s] = written /\ object'[s] = k + 1 /\ pc'[s] = "object"
        /\ late'[s] = IF ctxDone THEN late[s] + 1 ELSE late[s]
        /\ seqID'[s] = IF track[s].packaging = "moqmiVideo" THEN seqID[s] + 1 ELSE seqID[s]
        /\ group'[s] = group[s] /\ track' = track
    BY <1>1, <1>3 DEF TypeOK
  <2>5. TypeOK'
    <3>1. pc' \in [Subs -> PCs] /\ object' \in [Subs -> Nat]
      BY <1>1, <1>3, <2>1 DEF TypeOK, PCs
    <3>3. seqID' \in [Subs -> Nat]
      BY <1>1, <1>3 DEF TypeOK
    <3>4. late' \in [Subs -> Nat]
      BY <1>1, <1>3 DEF TypeOK
    <3>2. streams' \in [Subs -> Seq([group : Nat, objects : Nat, fin : BOOLEAN])]
      BY <1>1, <1>3, <2>3 DEF TypeOK, Strm
    <3> QED
      BY <1>1, <3>1, <3>2, <3>3, <3>4 DEF TypeOK
  <2>6. StreamsInv(s)'
    <3>1. \A i \in 1 .. n - 1 : Finished(s, i)'
      BY <1>1, <2>3, <2>4 DEF SubInv, StreamsInv, Finished
    <3>2. \A i \in 1 .. n - 1 : (streams'[s][i + 1]).group = (streams'[s][i]).group + 1
      BY <1>1, <2>1, <2>2, <2>3, <2>4 DEF SubInv, StreamsInv, Current
    <3> QED
      BY <2>1, <2>2, <2>3, <2>4, <3>1, <3>2
         DEF StreamsInv, BetweenGroups, InGroup, Current
  <2>7. CountersInv(s)'
    <3>1. k < GroupObjects(track[s], group[s])
      BY <1>1 DEF SubInv, CountersInv
    <3>2. k + 1 <= GroupObjects(track[s], group[s])
          /\ (Audio(s) => k + 1 = GroupObjects(track[s], group[s]))
      BY <1>1, <2>1, <3>1, SubTypes, AudioGroup
    <3>3. track[s].packaging = "moqmiVideo"
             => Position(track[s], group[s], k + 1) = Position(track[s], group[s], k) + 1
      <4> DEFINE p(i) == Position(track[s], group[s], i)
      <4>1. CASE track[s].packaging = "moqmiVideo"
        <5>1. Batch(track[s]) = 1
          BY <4>1 DEF Batch, Batched
        <5>2. p(k) \in Nat /\ p(k + 1) \in Nat /\ p(k) < p(k + 1) /\ p(k + 1) <= p(k) + 1
          <6>1. k \in 0 .. GroupObjects(track[s], group[s]) - 1 /\ k + 1 \in Nat
            BY <1>1, <2>1, <3>1, SubTypes
          <6> QED
            BY <1>1, <2>1, <5>1, <6>1, SubTypes, Positions
        <5> HIDE DEF p
        <5> QED
          BY <5>2 DEF p
      <4> QED
        BY <4>1
    <3>4. track[s].packaging = "moqmiVideo" => seqID[s] = Position(track[s], group[s], k)
      BY <1>1 DEF SubInv, CountersInv, Live
    <3>5. Audio(s) => seqID[s] = group[s]
      BY <1>1 DEF SubInv, CountersInv, Live
    <3> QED
      BY <2>1, <2>4, <3>2, <3>3, <3>4, <3>5 DEF CountersInv, BetweenGroups, Audio
  <2>8. LateInv(s)'
    BY <1>1, <2>4, SubTypes DEF SubInv, LateInv
  <2> QED
    BY <2>5, <2>6, <2>7, <2>8 DEF SubInv
<1> QED
  BY <1>2, <1>3 DEF WriteObject, Goto

LEMMA CloseSubgroupInv ==
  ASSUME IInv, NEW s \in Subs, CloseSubgroup(s)
  PROVE  TypeOK' /\ SubInv(s)'
<1> DEFINE n == Len(streams[s])
           st == [Current(s) EXCEPT !.fin = TRUE]
           ended == ReplaceLast(streams[s], st)
           g == group[s]
<1>1. /\ TypeOK /\ SubInv(s) /\ pc[s] = "close" /\ InGroup(s)
      /\ UNCHANGED <<clock, ctxDone, gone, track, late>>
  BY DEF IInv, CloseSubgroup, InGroup
<1>2. ASSUME pc' = [pc EXCEPT ![s] = "done"], UNCHANGED <<group, object, seqID, streams>>
      PROVE  TypeOK' /\ SubInv(s)'
  <2>1. TypeOK'
    BY <1>1, <1>2 DEF TypeOK, PCs
  <2>2. StreamsInv(s)'
    BY <1>1, <1>2 DEF TypeOK, SubInv, StreamsInv, BetweenGroups, InGroup, Current, Finished
  <2>3. CountersInv(s)' /\ LateInv(s)'
    BY <1>1, <1>2 DEF TypeOK, SubInv, CountersInv, LateInv, BetweenGroups, Audio, Live
  <2> QED
    BY <2>1, <2>2, <2>3 DEF SubInv
<1>3. ASSUME streams' = [streams EXCEPT ![s] = ended],
             group' = [group EXCEPT ![s] = g + 1],
             object' = [object EXCEPT ![s] = 0],
             seqID' = [seqID EXCEPT ![s] = IF Audio(s) THEN @ + 1 ELSE @],
             pc' = [pc EXCEPT ![s] = "top"]
      PROVE  TypeOK' /\ SubInv(s)'
  <2>1. /\ n \in Nat /\ n > 0 /\ g \in Nat /\ object[s] \in Nat
        /\ Current(s) = [group |-> g, objects |-> object[s], fin |-> FALSE]
        /\ object[s] = GroupObjects(track[s], g)
    BY <1>1, SubTypes DEF SubInv, StreamsInv, CountersInv
  <2>2. st = [group |-> g, objects |-> object[s], fin |-> TRUE] /\ st \in Strm
    BY <2>1, StreamUpdates
  <2>3. /\ ended \in Seq(Strm) /\ Len(ended) = n
        /\ \A i \in 1 .. n - 1 : ended[i] = streams[s][i]
        /\ ended[n] = st
    <3> HIDE DEF st
    <3> QED
      BY <1>1, <2>1, <2>2, SubTypes, ReplaceLastProperties
  <2> HIDE DEF ended, st
  <2>4. /\ streams'[s] = ended /\ object'[s] = 0 /\ pc'[s] = "top" /\ late' = late
        /\ seqID'[s] = IF Audio(s) THEN seqID[s] + 1 ELSE seqID[s]
        /\ group'[s] = g + 1 /\ track' = track
    BY <1>1, <1>3 DEF TypeOK
  <2>5. TypeOK'
    <3>1. pc' \in [Subs -> PCs] /\ object' \in [Subs -> Nat] /\ seqID' \in [Subs -> Nat]
          /\ group' \in [Subs -> Nat]
      BY <1>1, <1>3, <2>1 DEF TypeOK, PCs
    <3>2. streams' \in [Subs -> Seq([group : Nat, objects : Nat, fin : BOOLEAN])]
      BY <1>1, <1>3, <2>3 DEF TypeOK, Strm
    <3> QED
      BY <1>1, <3>1, <3>2 DEF TypeOK
  <2>6. StreamsInv(s)'
    <3>1. \A i \in 1 .. n - 1 : Finished(s, i)'
      BY <1>1, <2>3, <2>4 DEF SubInv, StreamsInv, Finished
    <3>2. Finished(s, n)'
      BY <2>1, <2>2, <2>3, <2>4 DEF Finished
    <3>0. ended[n].group = streams[s][n].group
      BY <2>1, <2>2, <2>3 DEF Current
    <3>3. \A i \in 1 .. n - 1 : (streams'[s][i + 1]).group = (streams'[s][i]).group + 1
      <4>1. \A i \in 1 .. n - 1 : streams[s][i + 1].group = streams[s][i].group + 1
        BY <1>1 DEF SubInv, StreamsInv
      <4>2. \A i \in 1 .. n : ended[i].group = streams[s][i].group
        BY <2>1, <2>3, <3>0
      <4> QED
        BY <2>1, <2>4, <4>1, <4>2
    <3> QED
      BY <2>1, <2>2, <2>3, <2>4, <3>1, <3>2, <3>3
         DEF StreamsInv, BetweenGroups, InGroup, Current
  <2>7. CountersInv(s)'
    <3>1. GroupObjects(track[s], g + 1) \in Nat
          /\ Position(track[s], g + 1, 0) = GroupFirst(track[s], g + 1)
          /\ Position(track[s], g, GroupObjects(track[s], g)) = GroupFirst(track[s], g + 1)
      <4>1. g + 1 \in Nat /\ track[s] \in Tracks
        BY <1>1, <2>1, SubTypes
      <4> QED
        BY <2>1, <4>1, Positions
    <3>2. track[s].packaging = "moqmiVideo" => seqID[s] = Position(track[s], g, object[s])
      BY <1>1 DEF SubInv, CountersInv, Live
    <3>3. Audio(s) => seqID[s] = g
      BY <1>1 DEF SubInv, CountersInv, Live
    <3> QED
      BY <2>1, <2>4, <3>1, <3>2, <3>3 DEF CountersInv, BetweenGroups, Audio, Live
  <2>8. LateInv(s)'
    BY <1>1, <2>4 DEF SubInv, LateInv
  <2> QED
    BY <2>5, <2>6, <2>7, <2>8 DEF SubInv
<1>4. \/ /\ EndStream(s)
         /\ group' = [group EXCEPT ![s] = g + 1]
         /\ object' = [object EXCEPT ![s] = 0]
         /\ seqID' = [seqID EXCEPT ![s] = IF Audio(s) THEN @ + 1 ELSE @]
         /\ Goto(s, "top")
      \/ Goto(s, "done") /\ UNCHANGED <<group, object, seqID, streams>>
  <2> HIDE DEF g
  <2> QED
    BY DEF CloseSubgroup, Audio, g
<1> QED
  BY <1>2, <1>3, <1>4 DEF Goto, EndStream

-----------------------------------------------------------------------------
(* The invariant of the whole publisher.                                   *)

LEMMA InitInv == Init => IInv
<1> SUFFICES ASSUME Init PROVE IInv
  OBVIOUS
<1>1. TypeOK
  <2>1. streams \in [Subs -> Seq(Strm)]
    BY EmptySeq DEF Init
  <2> QED
    BY <2>1, ClockAssumption DEF Init, TypeOK, PCs, Strm
<1>2. ASSUME NEW s \in Subs PROVE SubInv(s)
  <2>1. GroupObjects(track[s], 0) \in Nat
    BY Positions DEF Init
  <2>2. Len(<< >>) = 0
    OBVIOUS
  <2>3. /\ pc[s] = "idle" /\ group[s] = 0 /\ object[s] = 0 /\ late[s] = 0
        /\ streams[s] = << >>
    BY DEF Init
  <2>4. StreamsInv(s)
    BY <2>2, <2>3 DEF StreamsInv, InGroup, BetweenGroups
  <2>5. CountersInv(s) /\ LateInv(s)
    BY <2>1, <2>3 DEF CountersInv, LateInv, BetweenGroups, Live
  <2> QED
    BY <2>4, <2>5 DEF SubInv
<1> QED
  BY <1>1, <1>2 DEF IInv

LEMMA GoroutineInv ==
  ASSUME IInv, NEW s \in Subs, Subscribe(s) \/ Step(s)
  PROVE  IInv'
<1>1. TypeOK' /\ SubInv(s)'
  BY SubscribeInv, LoopTopInv, OpenSubgroupInv, NextObjectInv, TimerFiresInv,
     SleepCancelledInv, WriteObjectInv, CloseSubgroupInv DEF Step
<1>2. ASSUME NEW r \in Subs \ {s} PROVE SubInv(r)'
  <2>1. TypeOK /\ SubInv(r)
    BY DEF IInv
  <2>2. SameLocals(r) /\ clock' = clock /\ ctxDone' = ctxDone
    BY <2>1, OthersUntouched
  <2>3. clock \in Nat
    BY <2>1 DEF TypeOK
  <2> QED
    BY <2>1, <2>2, <2>3, Frame
<1> QED
  BY <1>1, <1>2 DEF IInv

LEMMA NextInv == IInv /\ [Next]_vars => IInv'
<1> SUFFICES ASSUME IInv, [Next]_vars PROVE IInv'
  OBVIOUS
<1>1. TypeOK /\ clock \in Nat
  BY DEF IInv, TypeOK
<1>2. ASSUME UNCHANGED <<track, subVars>>, clock' \in Nat, clock' >= clock,
             ctxDone => ctxDone', ctxDone' \in BOOLEAN, gone' \in [Subs -> BOOLEAN]
      PROVE  IInv'
  <2>1. TypeOK'
    BY <1>1, <1>2 DEF TypeOK, subVars
  <2>2. ASSUME NEW s \in Subs PROVE SubInv(s)'
    <3>1. SameLocals(s)
      BY <1>2 DEF SameLocals, subVars
    <3> QED
      BY <1>2, <3>1, Frame DEF IInv
  <2> QED
    BY <2>1, <2>2 DEF IInv
<1>3. CASE Tick
  <2>1. PICK d \in Ticks : clock' = clock + d
    BY <1>3 DEF Tick
  <2>2. clock' \in Nat /\ clock' >= clock
    BY <1>1, <2>1, ClockAssumption
  <2> QED
    BY <1>1, <1>2, <1>3, <2>2 DEF Tick, TypeOK
<1>4. CASE Cancel
  BY <1>1, <1>2, <1>4 DEF Cancel, TypeOK
<1>5. CASE \E s \in Subs : PeerGone(s)
  BY <1>1, <1>2, <1>5 DEF PeerGone, TypeOK
<1>6. CASE \E s \in Subs : Subscribe(s) \/ Step(s)
  BY <1>6, GoroutineInv
<1>7. CASE UNCHANGED vars
  BY <1>1, <1>2, <1>7 DEF vars, TypeOK
<1> QED
  BY <1>3, <1>4, <1>5, <1>6, <1>7 DEF Next

THEOREM Invariance == Spec => []IInv
BY InitInv, NextInv, PTL DEF Spec

(* Type correctness. *)
THEOREM TypeCorrect == Spec => []TypeOK
<1>1. IInv => TypeOK
  BY DEF IInv
<1> QED
  BY <1>1, Invariance, PTL

(* Streams carry consecutive groups, one after the other, none skipped and *)
(* none opened before the one before it is complete and ended.             *)
THEOREM GroupsFollow == Spec => []GroupsFollowOn
<1>1. IInv => GroupsFollowOn
  BY DEF IInv, SubInv, StreamsInv, Finished, GroupsFollowOn
<1> QED
  BY <1>1, Invariance, PTL

(* A stream ended before its group is complete is the last stream of a LOC *)
(* or moq-mi audio goroutine that has given up.                            *)
THEOREM FinIsComplete == Spec => []FinMeansComplete
<1>1. ASSUME IInv, NEW s \in Subs, NEW i \in DOMAIN streams[s],
             streams[s][i].fin,
             streams[s][i].objects # GroupObjects(track[s], streams[s][i].group)
      PROVE  /\ track[s].packaging \in {"loc", "moqmiAudio"}
             /\ pc[s] = "done"
             /\ i = Len(streams[s])
  <2> DEFINE n == Len(streams[s])
  <2>1. TypeOK /\ SubInv(s) /\ StreamsInv(s)
    BY <1>1 DEF IInv, SubInv
  <2>2. n \in Nat /\ i \in 1 .. n /\ pc[s] \in PCs
    BY <1>1, <2>1, SubTypes, LenProperties
  <2>3. ~Finished(s, i)
    BY <1>1 DEF Finished
  <2>4. i = n
    BY <2>1, <2>2, <2>3 DEF StreamsInv
  <2>5. Current(s).fin /\ n > 0
    BY <1>1, <2>2, <2>4 DEF Current
  <2>6. ~InGroup(s)
    BY <2>1, <2>5 DEF StreamsInv
  <2>7. ~BetweenGroups(s) /\ pc[s] # "idle"
    BY <2>1, <2>3, <2>4, <2>5, <2>2 DEF StreamsInv
  <2>8. pc[s] = "done"
    BY <2>2, <2>6, <2>7 DEF PCs, InGroup, BetweenGroups
  <2> QED
    BY <2>1, <2>3, <2>4, <2>5, <2>8 DEF StreamsInv
<1>2. IInv => FinMeansComplete
  BY <1>1 DEF FinMeansComplete
<1> QED
  BY <1>2, Invariance, PTL

(* At most one object is written after the context was cancelled.          *)
THEOREM OneLateObject == Spec => []AtMostOneLateObject
<1>1. IInv => AtMostOneLateObject
  BY DEF IInv, SubInv, LateInv, AtMostOneLateObject
<1> QED
  BY <1>1, Invariance, PTL

(* moq-mi's running counter is the number of the sample being written.     *)
THEOREM SeqIDsName == Spec => []SeqIDNamesSample
<1>1. ASSUME IInv, NEW s \in Subs, pc[s] = "write",
             track[s].packaging \in {"moqmiVideo", "moqmiAudio"}
      PROVE  seqID[s] = Position(track[s], group[s], object[s])
  <2>1. TypeOK /\ CountersInv(s)
    BY <1>1 DEF IInv, SubInv
  <2>2. CASE ~Audio(s)
    BY <1>1, <2>1, <2>2 DEF CountersInv, Audio, Live
  <2>3. CASE Audio(s)
    <3>1. object[s] = 0
      BY <1>1, <2>1, <2>3, AudioGroup, SubTypes DEF CountersInv
    <3>2. Position(track[s], group[s], 0) = group[s]
      BY <2>1, <2>3, SubTypes, Positions DEF GroupFirst, Audio
    <3> QED
      BY <1>1, <2>1, <2>3, <3>1, <3>2 DEF CountersInv, Live
  <2> QED
    BY <2>2, <2>3
<1>2. IInv => SeqIDNamesSample
  BY <1>1 DEF SeqIDNamesSample
<1> QED
  BY <1>2, Invariance, PTL
-----------------------------------------------------------------------------
(* The refinement: every step of the publisher maps to a step of the       *)
(* abstract delivery of LiveTrack or leaves it unchanged.                  *)

(* Media time and the wall clock.                                          *)

LEMMA DivLess ==
  ASSUME NEW a \in Nat, NEW b \in Nat \ {0}, NEW c \in Nat, a < c * b
  PROVE  a \div b < c
<1>1. a \div b \in Nat /\ (a \div b) * b <= a
  BY DivBracket
<1> DEFINE q == a \div b
<1> HIDE DEF q
<1>2. q \in Nat /\ q * b <= a
  BY <1>1 DEF q
<1>3. q * b < c * b
  BY <1>2
<1>4. q < c
  BY <1>2, <1>3, MulLess
<1> QED
  BY <1>4 DEF q

(* The first sample of a new subscription has not begun before it joined.  *)
LEMMA JoinBound ==
  ASSUME NEW t \in Tracks, NEW now \in Nat, Playable(t)
  PROVE  GroupFirst(t, StartGroup(t, now)) * t.sampleDur >= (now * t.timeScale) \div 1000
<1> DEFINE x == (now * t.timeScale) \div 1000
<1>1. now * t.timeScale \in Nat
  BY TrackFields
<1>2. x \in Nat
  BY <1>1, DivBracket
<1>3. CASE t.packaging = "moqmiVideo"
  <2> DEFINE u == t.gopLength * t.sampleDur * 1000
             D == u \div t.timeScale
             q == now \div D
             ts == t.timeScale
             m == t.gopLength * t.sampleDur
  <2>1. u \in Nat /\ u >= t.timeScale /\ m \in Nat /\ u = m * 1000
    BY <1>3, TrackFields, TracksAssumption DEF Playable, LoadedTrack
  <2>2. D \in Nat /\ D * ts <= u /\ u < (D + 1) * ts
    <3> HIDE DEF u
    <3> QED
      BY <2>1, DivBracket, TrackFields
  <2>3. D # 0 /\ GopDurMS(t) = D
    <3>1. D # 0
      <4> HIDE DEF u, D, ts
      <4>1. ts \in Nat
        BY TrackFields DEF ts
      <4> QED
        BY <2>1, <2>2, <4>1 DEF ts
    <3> QED
      BY <3>1 DEF GopDurMS
  <2>4. q \in Nat /\ now < (q + 1) * D
    <3> HIDE DEF D
    <3> QED
      BY <2>2, <2>3, DivBracket
  <2>5. StartGroup(t, now) = q + 1 /\ GroupFirst(t, q + 1) = (q + 1) * t.gopLength
    BY <1>3, <2>3 DEF StartGroup, GroupFirst
  <2>6. ts \in Nat \ {0} /\ t.sampleDur \in Nat /\ t.gopLength \in Nat
    BY TrackFields
  <2> HIDE DEF u, D, q, ts, m
  <2>7. now * ts < ((q + 1) * D) * ts
    BY <2>2, <2>4, <2>6
  <2>8. ((q + 1) * D) * ts <= (q + 1) * u
    <3>1. (q + 1) * (D * ts) <= (q + 1) * u
      BY <2>1, <2>2, <2>4, <2>6
    <3> QED
      BY <2>2, <2>4, <2>6, <3>1
  <2>9. now * ts < ((q + 1) * m) * 1000
    BY <2>1, <2>2, <2>4, <2>6, <2>7, <2>8
  <2>10. x < (q + 1) * m
    <3>1. (q + 1) * m \in Nat /\ now * ts \in Nat
      BY <2>1, <2>4, <2>6
    <3> QED
      BY <2>9, <3>1, DivLess DEF ts
  <2>11. ((q + 1) * t.gopLength) * t.sampleDur = (q + 1) * m
    BY <2>4, <2>6 DEF m
  <2> QED
    BY <1>2, <2>1, <2>4, <2>5, <2>10, <2>11
<1>4. CASE t.packaging = "moqmiAudio"
  <2>1. StartGroup(t, now) = CeilDiv(x, t.sampleDur)
    BY <1>4 DEF StartGroup
  <2>2. GroupFirst(t, StartGroup(t, now)) = CeilDiv(x, t.sampleDur)
    BY <1>4, <2>1 DEF GroupFirst
  <2>3. t.sampleDur \in Nat \ {0}
    BY TrackFields
  <2> HIDE DEF x
  <2>4. CeilDiv(x, t.sampleDur) * t.sampleDur >= x
    BY <1>2, <2>3, CeilDivBounds
  <2> QED
    BY <2>2, <2>4 DEF x
<1>5. CASE t.packaging \notin {"moqmiVideo", "moqmiAudio"}
  <2> DEFINE g == now \div 1000 + 1
             ts == t.timeScale
  <2>1. g \in Nat /\ now < g * 1000
    BY DivBracket
  <2>2. StartGroup(t, now) = g /\ GroupFirst(t, g) = GroupStartNr(t, g, MoqGroupDurMS)
    BY <1>5 DEF StartGroup, GroupFirst, CurrMoQGroupNr, MoqGroupDurMS
  <2>3. ts \in Nat \ {0} /\ t.sampleDur \in Nat \ {0}
    BY TrackFields
  <2> HIDE DEF g, ts
  <2>4. GroupFirst(t, g) = CeilDiv(g * ts, t.sampleDur)
    BY <2>1, <2>2, <2>3, GroupStart DEF ts
  <2>5. g * ts \in Nat
    BY <2>1, <2>3
  <2>6. CeilDiv(g * ts, t.sampleDur) * t.sampleDur >= g * ts
    BY <2>3, <2>5, CeilDivBounds
  <2>7. now * ts < (g * ts) * 1000
    <3>1. now * ts < (g * 1000) * ts
      BY <2>1, <2>3
    <3> QED
      BY <2>1, <2>3, <3>1
  <2>8. x < g * ts
    <3>1. now * ts \in Nat
      BY <2>3
    <3> QED
      BY <2>5, <2>7, <3>1, DivLess DEF ts
  <2>9. CeilDiv(g * ts, t.sampleDur) \in Nat
    BY <2>3, <2>5, CeilDivBounds
  <2> HIDE DEF x
  <2>10. CeilDiv(g * ts, t.sampleDur) * t.sampleDur \in Nat
    BY <2>3, <2>9
  <2>11. CeilDiv(g * ts, t.sampleDur) * t.sampleDur >= x
    BY <1>2, <2>5, <2>6, <2>8, <2>10
  <2> QED
    BY <2>2, <2>4, <2>11 DEF x
<1> QED
  BY <1>3, <1>4, <1>5

(* The media time an object waits for: the end of a batch, or the start of *)
(* its sample.                                                             *)
PacedSample(t, g, k) == IF Batched(t) THEN Position(t, g, k + 1) ELSE Position(t, g, k)

(* An object that is due holds no media the wall clock has not reached.    *)
LEMMA DueReached ==
  ASSUME NEW t \in Tracks, NEW g \in Nat, NEW k \in 0 .. GroupObjects(t, g) - 1,
         NEW now \in Nat, DueMS(t, g, k) <= now
  PROVE  PacedSample(t, g, k) * t.sampleDur * 1000 < (now + 1) * t.timeScale
<1> DEFINE first == GroupFirst(t, g)
           dur == t.sampleDur
           ts == t.timeScale
           p == PacedSample(t, g, k)
<1>1. first \in Nat /\ dur \in Nat \ {0} /\ ts \in Nat \ {0} /\ k \in Nat /\ Batch(t) \in Nat \ {0}
  BY GroupFirstMono, TrackFields, Positions
<1>2. /\ Position(t, g, k) = first + k * Batch(t)
      /\ Position(t, g, k + 1) <= first + k * Batch(t) + Batch(t)
      /\ Position(t, g, k + 1) \in Nat
  <2>1. k + 1 \in Nat
    BY <1>1
  <2> QED
    BY <2>1, Positions
<1>3. ASSUME NEW x \in Nat, x \div ts <= now PROVE x < (now + 1) * ts
  <2> DEFINE d == x \div ts
  <2>1. d \in Nat /\ x < (d + 1) * ts /\ d <= now
    BY <1>1, <1>3, DivBracket
  <2> HIDE DEF d
  <2>2. (d + 1) * ts <= (now + 1) * ts
    BY <1>1, <2>1, MulMono
  <2>3. (d + 1) * ts \in Nat /\ (now + 1) * ts \in Nat
    BY <1>1, <2>1
  <2> QED
    BY <2>1, <2>2, <2>3
<1>4. CASE Batched(t)
  <2> DEFINE e == first + k * Batch(t) + Batch(t)
             x == (first * dur + (k + 1) * dur * Batch(t)) * 1000
  <2>1. Batch(t) = t.sampleBatch /\ t.packaging # "subtitle"
    BY <1>4 DEF Batch, Batched
  <2>2. DueMS(t, g, k) = x \div ts
    BY <1>4, <2>1 DEF DueMS, ObjectDueMS
  <2>3. x \in Nat
    BY <1>1
  <2>4. x < (now + 1) * ts
    <3> HIDE DEF x, ts
    <3> QED
      BY <1>3, <2>2, <2>3
  <2>5. x = (e * dur) * 1000 /\ e \in Nat
    BY <1>1
  <2>6. p = Position(t, g, k + 1) /\ p <= e /\ p \in Nat
    BY <1>2, <1>4 DEF PacedSample
  <2> HIDE DEF x, e, p, dur
  <2>7. p * dur <= e * dur
    BY <1>1, <2>5, <2>6, MulMono
  <2>8. p * dur \in Nat /\ e * dur \in Nat
    BY <1>1, <2>5, <2>6
  <2>9. p * dur * 1000 <= x
    BY <2>5, <2>7, <2>8
  <2>10. (now + 1) * ts \in Nat
    BY <1>1
  <2> QED
    BY <2>3, <2>4, <2>8, <2>9, <2>10 DEF p, dur
<1>5. CASE t.packaging = "subtitle"
  <2>1. ~Batched(t) /\ Batch(t) = 1
    BY <1>5 DEF Batched, Batch
  <2>2. ts = 1000 /\ dur = 1000
    BY <1>5, TracksAssumption DEF LoadedTrack, MoqGroupDurMS
  <2>3. \A n \in Nat : GroupFirst(t, n) = n
    <3> TAKE n \in Nat
    <3>1. GroupFirst(t, n) = CeilDiv(n * 1000, 1000)
      BY <1>1, <1>5, <2>2, GroupStart DEF GroupFirst
    <3>2. n * 1000 \in Nat /\ n * 1000 < n * 1000 + 1000
      OBVIOUS
    <3> QED
      BY <3>1, <3>2, CeilDivUnique
  <2>4. k = 0
    <3>1. g + 1 \in Nat /\ (g + 1) - g = 1
      OBVIOUS
    <3>2. GroupObjects(t, g) = CeilDiv(1, 1)
      BY <2>1, <2>3, <3>1 DEF GroupObjects, NrObjects, Group
    <3> QED
      BY <1>1, <3>2 DEF CeilDiv
  <2>5. p = g
    BY <2>1, <2>3, <2>4, Positions DEF PacedSample
  <2>6. g * 1000 <= now
    BY <1>5, <2>1 DEF DueMS, MoqGroupDurMS
  <2> HIDE DEF p
  <2> QED
    BY <2>2, <2>5, <2>6 DEF p
<1>6. CASE ~Batched(t) /\ t.packaging # "subtitle"
  <2> DEFINE x == (first + k) * dur * 1000
  <2>1. p = first + k
    BY <1>1, <1>2, <1>6 DEF PacedSample, Batch
  <2>2. x \in Nat
    BY <1>1
  <2>3. DueMS(t, g, k) = x \div ts
    BY <1>6 DEF DueMS, SampleTimeMS
  <2>4. x < (now + 1) * ts
    <3> HIDE DEF x, ts
    <3> QED
      BY <1>3, <2>2, <2>3
  <2> QED
    BY <2>1, <2>4
<1> QED
  BY <1>4, <1>5, <1>6

-----------------------------------------------------------------------------
(* The refinement.                                                         *)

Media(s) == [timeScale |-> track[s].timeScale, sampleDur |-> track[s].sampleDur,
             chunk |-> Batch(track[s]),
             pacedBy |-> IF Batched(track[s]) THEN "end" ELSE "start"]

Status(s) == IF pc[s] = "idle" THEN "idle" ELSE IF pc[s] = "done" THEN "stopped" ELSE "live"

NextSample(s) == IF pc[s] = "idle" THEN 0 ELSE Position(track[s], group[s], object[s])

absMedia == [s \in Subs |-> Media(s)]
absStatus == [s \in Subs |-> Status(s)]
absNext == [s \in Subs |-> NextSample(s)]

(* Steps of LiveTrack, over the abstract state.                            *)
LEMMA AbsUnchanged ==
  ASSUME NEW s \in Subs, \A r \in Subs \ {s} : SameLocals(r), track' = track
  PROVE  /\ absMedia' = absMedia
         /\ absStatus' = [absStatus EXCEPT ![s] = Status(s)']
         /\ absNext' = [absNext EXCEPT ![s] = NextSample(s)']
<1>1. absMedia' = absMedia
  BY DEF absMedia, Media
<1>2. \A r \in Subs \ {s} : Status(r)' = Status(r) /\ NextSample(r)' = NextSample(r)
  BY DEF SameLocals, Status, NextSample
<1>3. absStatus' = [absStatus EXCEPT ![s] = Status(s)']
  BY <1>2 DEF absStatus
<1>4. absNext' = [absNext EXCEPT ![s] = NextSample(s)']
  BY <1>2 DEF absNext
<1> QED
  BY <1>1, <1>3, <1>4

(* A step that leaves the next sample where it was and keeps the goroutine *)
(* going, or ends it.                                                      *)
LEMMA StutterOrStop ==
  ASSUME TypeOK, NEW s \in Subs, \A r \in Subs \ {s} : SameLocals(r),
         track' = track, clock' = clock,
         NextSample(s)' = NextSample(s),
         \/ Status(s)' = Status(s)
         \/ Status(s) # "stopped" /\ Status(s)' = "stopped"
  PROVE  [Subscription!Next]_(Subscription!vars)
<1>1. /\ absMedia' = absMedia
      /\ absStatus' = [absStatus EXCEPT ![s] = Status(s)']
      /\ absNext' = [absNext EXCEPT ![s] = NextSample(s)']
  BY AbsUnchanged
<1>2. absNext' = absNext
  BY <1>1 DEF absNext
<1>3. CASE Status(s)' = Status(s)
  <2>1. absStatus' = absStatus
    BY <1>1, <1>3 DEF absStatus
  <2> QED
    BY <1>1, <1>2, <2>1
       DEF Subscription!vars, absMedia, absStatus, absNext, Media, Status, NextSample
<1>4. CASE Status(s) # "stopped" /\ Status(s)' = "stopped"
  <2>1. absStatus[s] \in {"idle", "live"}
    BY <1>4 DEF absStatus, Status
  <2>2. absStatus' = [absStatus EXCEPT ![s] = "stopped"]
    BY <1>1, <1>4
  <2>3. Subscription!Stop(s)
    BY <1>1, <1>2, <2>1, <2>2
       DEF Subscription!Stop, absMedia, absStatus, absNext, Media, Status, NextSample
  <2> QED
    BY <2>3 DEF Subscription!Next
<1> QED
  BY <1>3, <1>4

LEMMA JoinStep ==
  ASSUME IInv, NEW s \in Subs, Subscribe(s)
  PROVE  [Subscription!Next]_(Subscription!vars)
<1>1. /\ TypeOK /\ pc[s] = "idle" /\ group[s] = 0 /\ object[s] = 0
      /\ track' = track /\ clock' = clock /\ object' = object
      /\ \A r \in Subs \ {s} : SameLocals(r)
  BY OthersUntouched DEF IInv, SubInv, CountersInv, Subscribe
<1>2. /\ track[s] \in Tracks /\ clock \in Nat
  BY <1>1, SubTypes
<1>3. ASSUME ~Playable(track[s]) \/ track[s].packaging = "moqmiVideo",
             Goto(s, "done"), UNCHANGED <<group, seqID>>
      PROVE  [Subscription!Next]_(Subscription!vars)
  <2>1. pc'[s] = "done" /\ group' = group
    BY <1>1, <1>3 DEF Subscribe, Goto, TypeOK
  <2>2. NextSample(s) = 0
    BY <1>1 DEF NextSample
  <2>3. NextSample(s)' = Position(track[s], 0, 0)
    BY <1>1, <2>1 DEF NextSample
  <2>4. track[s].packaging \in {"loc", "moqmiVideo", "moqmiAudio"}
    BY <1>3 DEF Playable
  <2>5. Position(track[s], 0, 0) = 0
    <3>1. Position(track[s], 0, 0) = GroupFirst(track[s], 0)
      BY <1>2, Positions
    <3>2. ~(track[s].packaging = "loc") /\ ~(track[s].packaging = "moqmiAudio")
      BY <1>2, <1>3, <2>4, TrackFields DEF Playable
    <3>3. track[s].packaging = "moqmiVideo"
      BY <2>4, <3>2
    <3>4. GroupFirst(track[s], 0) = 0 * track[s].gopLength
      BY <3>3 DEF GroupFirst
    <3> QED
      BY <1>2, <3>1, <3>4, TrackFields
  <2>6. Status(s) # "stopped" /\ Status(s)' = "stopped"
    BY <1>1, <2>1 DEF Status
  <2> QED
    BY <1>1, <2>2, <2>3, <2>5, <2>6, StutterOrStop
<1>4. ASSUME Playable(track[s]), Goto(s, "top"),
             group' = [group EXCEPT ![s] = StartGroup(track[s], clock)]
      PROVE  [Subscription!Next]_(Subscription!vars)
  <2> DEFINE g == StartGroup(track[s], clock)
             first == GroupFirst(track[s], g)
  <2>1. pc'[s] = "top" /\ group'[s] = g
    BY <1>1, <1>4 DEF Subscribe, Goto, TypeOK
  <2>2. g \in Nat /\ first \in Nat /\ Position(track[s], g, 0) = first
    <3>1. g \in Nat
      BY <1>2, <1>4, StartGroupType
    <3> HIDE DEF g
    <3> QED
      BY <1>2, <3>1, GroupFirstMono, Positions
  <2>3. first * track[s].sampleDur >= (clock * track[s].timeScale) \div 1000
    BY <1>2, <1>4, JoinBound
  <2> HIDE DEF g, first
  <2>4. NextSample(s)' = first
    BY <1>1, <2>1, <2>2 DEF NextSample
  <2>5. /\ absMedia' = absMedia
        /\ absStatus' = [absStatus EXCEPT ![s] = "live"]
        /\ absNext' = [absNext EXCEPT ![s] = first]
    <3>1. Status(s)' = "live"
      BY <1>1, <2>1 DEF Status
    <3> QED
      BY <1>1, <2>4, <3>1, AbsUnchanged
  <2>6. absStatus[s] = "idle" /\ absNext'[s] = first
    BY <1>1, <2>5 DEF absStatus, absNext, Status
  <2>7. absMedia[s].sampleDur = track[s].sampleDur /\ absMedia[s].timeScale = track[s].timeScale
    BY DEF absMedia, Media
  <2>8. Subscription!Join(s)
    <3>1. /\ absStatus[s] = "idle"
          /\ absStatus' = [absStatus EXCEPT ![s] = "live"]
          /\ absNext'[s] \in Nat
          /\ absNext'[s] * absMedia[s].sampleDur >= (clock * absMedia[s].timeScale) \div 1000
          /\ absNext' = [absNext EXCEPT ![s] = absNext'[s]]
          /\ clock' = clock /\ absMedia' = absMedia
      <4>1. absNext'[s] * absMedia[s].sampleDur >= (clock * absMedia[s].timeScale) \div 1000
        <5>1. absNext'[s] * absMedia[s].sampleDur = first * track[s].sampleDur
          BY <2>6, <2>7, Zenon
        <5>2. (clock * absMedia[s].timeScale) \div 1000 = (clock * track[s].timeScale) \div 1000
          BY <2>7, Zenon
        <5> DEFINE a == absNext'[s] * absMedia[s].sampleDur
                   b == (clock * absMedia[s].timeScale) \div 1000
        <5>3. a = first * track[s].sampleDur /\ b = (clock * track[s].timeScale) \div 1000
          BY <5>1, <5>2
        <5> HIDE DEF a, b
        <5>4. a >= b
          BY <2>3, <5>3
        <5> QED
          BY <5>4 DEF a, b
      <4>2. absNext'[s] \in Nat
        BY <2>2, <2>6
      <4> QED
        BY <1>1, <2>5, <2>6, <4>1, <4>2, Zenon
    <3> QED
      BY <3>1 DEF Subscription!Join, absMedia, absStatus, absNext, Media, Status, NextSample
  <2> QED
    BY <2>8 DEF Subscription!Next
<1> QED
  BY <1>3, <1>4 DEF Subscribe

LEMMA DeliverStep ==
  ASSUME IInv, NEW s \in Subs, WriteObject(s), pc'[s] # "done"
  PROVE  [Subscription!Next]_(Subscription!vars)
<1> DEFINE t == track[s]
           g == group[s]
           k == object[s]
<1>1. /\ TypeOK /\ pc[s] = "write" /\ clock >= Due(s)
      /\ k < GroupObjects(t, g)
      /\ track' = track /\ clock' = clock /\ group' = group
      /\ \A r \in Subs \ {s} : SameLocals(r)
  BY OthersUntouched DEF IInv, SubInv, CountersInv, WriteObject, Step
<1>2. /\ t \in Tracks /\ g \in Nat /\ k \in Nat /\ clock \in Nat
      /\ GroupObjects(t, g) \in Nat /\ Due(s) \in Nat
      /\ Batch(t) \in Nat \ {0}
  BY <1>1, SubTypes, TrackFields
<1>3. pc'[s] = "object" /\ object'[s] = k + 1
  BY <1>1 DEF WriteObject, GiveUp, Goto, TypeOK
<1> DEFINE p == Position(t, g, k)
           q == Position(t, g, k + 1)
<1>4. p \in Nat /\ q \in Nat /\ p < q /\ q <= p + Batch(t)
  <2>1. k + 1 \in Nat /\ k \in 0 .. GroupObjects(t, g) - 1
    BY <1>1, <1>2
  <2> QED
    BY <1>2, <2>1, Positions
<1>5. PacedSample(t, g, k) * t.sampleDur * 1000 < (clock + 1) * t.timeScale
  <2>1. k \in 0 .. GroupObjects(t, g) - 1 /\ DueMS(t, g, k) <= clock
    BY <1>1, <1>2 DEF Due
  <2> QED
    BY <1>2, <2>1, DueReached
<1>6. NextSample(s) = p /\ NextSample(s)' = q /\ Status(s) = "live" /\ Status(s)' = "live"
  BY <1>1, <1>3 DEF NextSample, Status
<1>7. PacedSample(t, g, k) = IF Batched(t) THEN q ELSE p
  BY DEF PacedSample
<1> HIDE DEF p, q
<1>8. /\ absMedia' = absMedia
      /\ absStatus' = absStatus
      /\ absNext' = [absNext EXCEPT ![s] = q]
  BY <1>1, <1>6, AbsUnchanged DEF absStatus
<1>9. absStatus[s] = "live" /\ absNext[s] = p /\ absNext'[s] = q
  BY <1>6, <1>8 DEF absStatus, absNext
<1>10. /\ absMedia[s].sampleDur = t.sampleDur /\ absMedia[s].timeScale = t.timeScale
       /\ absMedia[s].chunk = Batch(t)
       /\ absMedia[s].pacedBy = IF Batched(t) THEN "end" ELSE "start"
  BY DEF absMedia, Media
<1> DEFINE n == IF absMedia[s].pacedBy = "end" THEN absNext'[s] ELSE absNext[s]
<1>11. n = PacedSample(t, g, k)
  BY <1>7, <1>9, <1>10
<1> HIDE DEF n, t, g, k
<1>12. /\ absStatus[s] = "live"
       /\ absNext'[s] \in absNext[s] + 1 .. absNext[s] + absMedia[s].chunk
       /\ n * absMedia[s].sampleDur * 1000 < (clock + 1) * absMedia[s].timeScale
       /\ absNext' = [absNext EXCEPT ![s] = absNext'[s]]
       /\ clock' = clock /\ absMedia' = absMedia /\ absStatus' = absStatus
  <2>1. absNext'[s] \in absNext[s] + 1 .. absNext[s] + absMedia[s].chunk
    <3>1. q \in p + 1 .. p + Batch(t)
      BY <1>2, <1>4
    <3> QED
      BY <1>9, <1>10, <3>1, Zenon
  <2>2. n * absMedia[s].sampleDur * 1000 < (clock + 1) * absMedia[s].timeScale
    <3>1. n * absMedia[s].sampleDur * 1000 = PacedSample(t, g, k) * t.sampleDur * 1000
      BY <1>10, <1>11, Zenon
    <3>2. (clock + 1) * absMedia[s].timeScale = (clock + 1) * t.timeScale
      BY <1>10, Zenon
    <3> DEFINE a == n * absMedia[s].sampleDur * 1000
               b == (clock + 1) * absMedia[s].timeScale
    <3>3. a = PacedSample(t, g, k) * t.sampleDur * 1000 /\ b = (clock + 1) * t.timeScale
      BY <3>1, <3>2
    <3> HIDE DEF a, b
    <3>4. a < b
      BY <1>5, <3>3
    <3> QED
      BY <3>4 DEF a, b
  <2> QED
    BY <1>1, <1>8, <1>9, <2>1, <2>2, Zenon
<1>13. Subscription!Deliver(s)
  BY <1>12 DEF n, Subscription!Deliver, Subscription!Reached, Subscription!MediaTime,
               absMedia, absStatus, absNext, Media, Status, NextSample
<1> QED
  BY <1>13 DEF Subscription!Next

(* Every other step of a goroutine leaves its next sample alone.           *)
LEMMA OtherStep ==
  ASSUME IInv, NEW s \in Subs, Step(s), ~(WriteObject(s) /\ pc'[s] # "done")
  PROVE  [Subscription!Next]_(Subscription!vars)
<1>1. /\ TypeOK /\ CountersInv(s)
      /\ track' = track /\ clock' = clock
      /\ \A r \in Subs \ {s} : SameLocals(r)
  BY OthersUntouched DEF IInv, SubInv
<1>2. /\ track[s] \in Tracks /\ group[s] \in Nat
  BY <1>1, SubTypes
<1>3. Live(s) /\ pc'[s] # "idle"
  BY <1>1 DEF Step, LoopTop, OpenSubgroup, NextObject, TimerFires, SleepCancelled,
              WriteObject, CloseSubgroup, Goto, GiveUp, Live, TypeOK
<1>4. \/ group'[s] = group[s] /\ object'[s] = object[s]
      \/ group'[s] = group[s] + 1 /\ object'[s] = 0
         /\ object[s] = GroupObjects(track[s], group[s])
  <2>1. CASE WriteObject(s)
    BY <1>1, <2>1 DEF WriteObject, GiveUp, Goto, TypeOK
  <2>2. CASE CloseSubgroup(s)
    BY <1>1, <2>2 DEF CloseSubgroup, CountersInv, TypeOK
  <2>3. CASE ~WriteObject(s) /\ ~CloseSubgroup(s)
    BY <1>1, <2>3 DEF Step, LoopTop, OpenSubgroup, NextObject, TimerFires, SleepCancelled
  <2> QED
    BY <2>1, <2>2, <2>3
<1>5. NextSample(s)' = NextSample(s)
  <2>1. group[s] + 1 \in Nat
    BY <1>2
  <2>2. Position(track[s], group[s], GroupObjects(track[s], group[s]))
          = Position(track[s], group[s] + 1, 0)
    BY <1>2, <2>1, Positions
  <2> QED
    BY <1>1, <1>3, <1>4, <2>2 DEF NextSample, Live
<1>6. Status(s) = "live" /\ Status(s)' \in {"live", "stopped"}
  BY <1>3 DEF Live, Status
<1> QED
  BY <1>1, <1>5, <1>6, StutterOrStop

LEMMA NextRefines == IInv /\ [Next]_vars => [Subscription!Next]_(Subscription!vars)
<1> SUFFICES ASSUME IInv, [Next]_vars PROVE [Subscription!Next]_(Subscription!vars)
  OBVIOUS
<1>1. TypeOK /\ clock \in Nat
  BY DEF IInv, TypeOK
<1>2. CASE Tick
  <2>1. PICK d \in Ticks : clock' = clock + d
    BY <1>2 DEF Tick
  <2>2. clock' \in Nat /\ clock' > clock
    BY <1>1, <2>1, ClockAssumption
  <2>3. Subscription!Tick
    BY <1>2, <2>2 DEF Tick, subVars, Subscription!Tick
  <2> QED
    BY <2>3 DEF Subscription!Next
<1>3. ASSUME UNCHANGED <<clock, track, subVars>>
      PROVE  UNCHANGED Subscription!vars
  BY <1>3 DEF subVars, Subscription!vars
<1>4. CASE Cancel \/ (\E s \in Subs : PeerGone(s)) \/ UNCHANGED vars
  BY <1>3, <1>4 DEF Cancel, PeerGone, vars
<1>5. CASE \E s \in Subs : Subscribe(s) \/ Step(s)
  BY <1>5, JoinStep, DeliverStep, OtherStep DEF Step
<1> QED
  BY <1>2, <1>4, <1>5 DEF Next

LEMMA InitRefines == Init => Subscription!Init
  BY ClockAssumption DEF Init, Subscription!Init

(* Every behaviour of the publishing goroutines is, for each subscription, *)
(* a delivery without gap, repetition or look-ahead.                       *)
THEOREM PublisherImplementsLiveTrack == Spec => ImplementsLiveTrack
BY Invariance, InitRefines, NextRefines, PTL
   DEF Spec, ImplementsLiveTrack, Subscription!Spec
-----------------------------------------------------------------------------
(* Where a subscription joins                                              *)

(* A sample that begins less than a sample duration after a millisecond.   *)
LEMMA SampleAfter ==
  ASSUME NEW t \in Tracks, NEW n \in Nat, NEW ms \in Nat,
         n * t.sampleDur * 1000 < ms * t.timeScale + t.sampleDur * 1000
  PROVE  SampleTimeMS(t, n) <= ms + SampleTimeMS(t, 1) + 1
<1> DEFINE ts == t.timeScale
           d == t.sampleDur * 1000
           one == d \div ts
           x == n * t.sampleDur * 1000
<1>1. ts \in Nat \ {0} /\ t.sampleDur \in Nat \ {0} /\ d \in Nat /\ x \in Nat
  BY TrackFields
<1>2. SampleTimeMS(t, n) = x \div ts /\ SampleTimeMS(t, 1) = one
  BY <1>1 DEF SampleTimeMS
<1>3. one \in Nat /\ d < (one + 1) * ts
  <2> HIDE DEF d, ts
  <2> QED
    BY <1>1, DivBracket
<1>4. x < ms * ts + d
  OBVIOUS
<1> HIDE DEF x, d, one, ts
<1>5. ms * ts \in Nat /\ (one + 1) * ts \in Nat
      /\ (ms + one + 1) * ts = ms * ts + (one + 1) * ts
  BY <1>1, <1>3
<1>6. x < (ms + one + 1) * ts /\ ms + one + 1 \in Nat
  BY <1>1, <1>3, <1>4, <1>5
<1>7. x \div ts < ms + one + 1 /\ x \div ts \in Nat
  BY <1>1, <1>6, DivLess, DivMod
<1> QED
  BY <1>2, <1>3, <1>7

(* The first group of all packagings but moq-mi video, whose first group   *)
(* can be far ahead.                                                       *)
LEMMA JoinsSoon ==
  ASSUME NEW t \in Tracks, NEW now \in Nat, t.packaging # "moqmiVideo"
  PROVE  SampleTimeMS(t, GroupFirst(t, StartGroup(t, now)))
           <= now + (IF t.packaging = "moqmiAudio" THEN 0 ELSE MoqGroupDurMS)
                  + SampleTimeMS(t, 1) + 1
<1> DEFINE ts == t.timeScale
           dur == t.sampleDur
           n == GroupFirst(t, StartGroup(t, now))
<1>1. ts \in Nat \ {0} /\ dur \in Nat \ {0}
  BY TrackFields
<1>2. CASE t.packaging = "moqmiAudio"
  <2> DEFINE x == (now * ts) \div 1000
  <2>1. n = CeilDiv(x, dur)
    BY <1>2 DEF StartGroup, GroupFirst
  <2>2. now * ts \in Nat
    BY <1>1
  <2>3. x \in Nat /\ x * 1000 <= now * ts
    BY <2>2, DivBracket
  <2> HIDE DEF x
  <2>4. CeilDiv(x, dur) \in Nat /\ CeilDiv(x, dur) * dur < x + dur
    BY <1>1, <2>3, CeilDivBounds
  <2>5. n \in Nat /\ n * dur < x + dur
    BY <2>1, <2>4
  <2> HIDE DEF n
  <2>6. n * dur * 1000 < now * ts + dur * 1000
    <3> DEFINE m == n * dur
    <3>1. m \in Nat /\ m < x + dur
      BY <1>1, <2>5
    <3> HIDE DEF m
    <3>2. m * 1000 < now * ts + dur * 1000
      BY <1>1, <2>2, <2>3, <3>1
    <3> QED
      BY <3>2 DEF m
  <2>7. SampleTimeMS(t, n) <= now + SampleTimeMS(t, 1) + 1
    BY <2>5, <2>6, SampleAfter
  <2> QED
    BY <1>2, <2>7 DEF n
<1>3. CASE t.packaging # "moqmiAudio"
  <2> DEFINE g == now \div 1000 + 1
  <2>1. g \in Nat /\ g * 1000 <= now + 1000
    BY DivBracket
  <2>2. n = GroupStartNr(t, g, MoqGroupDurMS)
    BY <1>3 DEF StartGroup, GroupFirst, CurrMoQGroupNr, MoqGroupDurMS
  <2> HIDE DEF g
  <2>3. n = CeilDiv(g * ts, dur)
    BY <1>1, <2>1, <2>2, GroupStart
  <2>4. g * ts \in Nat
    BY <1>1, <2>1
  <2>5. n \in Nat /\ n * dur < g * ts + dur
    <3>1. CeilDiv(g * ts, dur) \in Nat /\ CeilDiv(g * ts, dur) * dur < g * ts + dur
      BY <1>1, <2>4, CeilDivBounds
    <3> QED
      BY <2>3, <3>1
  <2> HIDE DEF n
  <2>6. n * dur * 1000 < (now + 1000) * ts + dur * 1000
    <3> DEFINE m == n * dur
               y == g * ts
    <3>1. m \in Nat /\ y \in Nat /\ m < y + dur
      BY <1>1, <2>4, <2>5
    <3>2. y * 1000 <= (now + 1000) * ts /\ (now + 1000) * ts \in Nat
      <4>1. y * 1000 = (g * 1000) * ts
        BY <1>1, <2>1
      <4>2. (g * 1000) * ts <= (now + 1000) * ts
        BY <1>1, <2>1, MulMono
      <4> QED
        BY <1>1, <4>1, <4>2
    <3> HIDE DEF m, y
    <3>3. m * 1000 < (now + 1000) * ts + dur * 1000
      BY <1>1, <3>1, <3>2
    <3> QED
      BY <3>3 DEF m
  <2>7. SampleTimeMS(t, n) <= now + 1000 + SampleTimeMS(t, 1) + 1
    <3>1. now + 1000 \in Nat
      OBVIOUS
    <3> QED
      BY <2>5, <2>6, <3>1, SampleAfter
  <2> QED
    BY <1>3, <2>7 DEF n, MoqGroupDurMS
<1> QED
  BY <1>2, <1>3

(* Any goroutine but one of moq-mi video begins with the group that comes  *)
(* next: it waits a group period at most, and a sample (pub.go:337,        *)
(* moqmi.go:147).                                                          *)
THEOREM JoinsNext == Spec => JoinsNextGroup
<1>1. ASSUME IInv, Next, NEW s \in Subs, Joining(s)
      PROVE  /\ track[s] \in Tracks /\ clock \in Nat
             /\ group'[s] = StartGroup(track[s], clock)
  <2>1. track[s] \in Tracks /\ clock \in Nat
        /\ group \in [Subs -> Nat] /\ pc \in [Subs -> PCs]
    BY <1>1 DEF IInv, TypeOK
  <2>2. pc[s] = "idle" /\ pc'[s] = "top"
    BY <1>1 DEF Joining
  <2>3. pc' # pc
    BY <2>2
  <2>4. ASSUME NEW q \in Subs, Step(q)
        PROVE  pc[q] # "idle" /\ \E loc : pc' = [pc EXCEPT ![q] = loc]
    BY <2>4 DEF Step, LoopTop, OpenSubgroup, NextObject, TimerFires, SleepCancelled,
                WriteObject, CloseSubgroup, GiveUp, Goto
  <2>5. ~\E q \in Subs : Step(q)
    BY <2>1, <2>2, <2>4
  <2>6. PICK q \in Subs : Subscribe(q)
    BY <1>1, <2>3, <2>5 DEF Next, Tick, Cancel, PeerGone, subVars
  <2>7. q = s
    BY <2>1, <2>2, <2>6 DEF Subscribe, Goto
  <2> QED
    BY <2>1, <2>2, <2>6, <2>7 DEF Subscribe, Goto
<1>2. ASSUME IInv, [Next]_vars, NEW s \in Subs, Joining(s),
             track[s].packaging # "moqmiVideo"
      PROVE  IF track[s].packaging = "moqmiAudio"
             THEN JoinsWithin(s, SampleTimeMS(track[s], 1) + 1)
             ELSE JoinsWithin(s, MoqGroupDurMS + SampleTimeMS(track[s], 1) + 1)
  <2>1. Next
    BY <1>2 DEF Joining, vars, subVars
  <2>2. track[s] \in Tracks /\ clock \in Nat /\ group'[s] = StartGroup(track[s], clock)
    BY <1>1, <1>2, <2>1
  <2> DEFINE one == SampleTimeMS(track[s], 1)
             first == SampleTimeMS(track[s], GroupFirst(track[s], StartGroup(track[s], clock)))
  <2>3. one \in Nat
    <3> DEFINE ts == track[s].timeScale
               d == 1 * track[s].sampleDur * 1000
    <3>1. ts \in Nat \ {0} /\ d \in Nat /\ one = d \div ts
      BY <2>2, TrackFields DEF SampleTimeMS
    <3> HIDE DEF ts, d, one
    <3> QED
      BY <3>1, DivMod
  <2>4. first <= clock + (IF track[s].packaging = "moqmiAudio" THEN 0 ELSE MoqGroupDurMS)
                       + one + 1
    BY <1>2, <2>2, JoinsSoon
  <2>5. SampleTimeMS(track[s], GroupFirst(track[s], group'[s])) = first
    BY <2>2
  <2> HIDE DEF one, first
  <2>6. IF track[s].packaging = "moqmiAudio"
        THEN first <= clock + (one + 1)
        ELSE first <= clock + (MoqGroupDurMS + one + 1)
    BY <2>2, <2>3, <2>4 DEF MoqGroupDurMS
  <2> QED
    BY <2>5, <2>6 DEF JoinsWithin, one
<1>3. IInv /\ [Next]_vars =>
        [\A s \in Subs : Joining(s) =>
           CASE track[s].packaging = "moqmiVideo" -> TRUE
             [] track[s].packaging = "moqmiAudio" ->
                  JoinsWithin(s, SampleTimeMS(track[s], 1) + 1)
             [] OTHER -> JoinsWithin(s, MoqGroupDurMS + SampleTimeMS(track[s], 1) + 1)]_vars
  BY <1>2
<1> QED
  BY <1>3, Invariance, PTL DEF Spec, JoinsNextGroup
=============================================================================
