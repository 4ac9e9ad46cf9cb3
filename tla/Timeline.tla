------------------------------ MODULE Timeline ------------------------------
(***************************************************************************)
(* Checks the arithmetic of GroupTiming against what it is for.  A         *)
(* behaviour takes one track and counts up: nr is a group number in the    *)
(* statements about groups and a sample number in those about the loop,    *)
(* the two counters every publishing goroutine increments.                 *)
(***************************************************************************)
EXTENDS GroupTiming

CONSTANTS
  TrackSet,  \* tracks: timeScale, sampleDur, sampleBatch, nrSamples, loopDur
  MaxNr      \* bound on the count

(* setLoopDuration accepts a track only if its samples cover the loop.     *)
ASSUME TrackSetAssumption ==
  /\ TrackSet \subseteq [timeScale : Nat \ {0}, sampleDur : Nat \ {0},
                         sampleBatch : Nat \ {0}, nrSamples : Nat \ {0},
                         loopDur : Nat \ {0}]
  /\ \A ct \in TrackSet : ct.loopDur <= ct.nrSamples * ct.sampleDur

ASSUME MaxNrAssumption == MaxNr \in Nat

VARIABLES ct, nr

vars == <<ct, nr>>

Init == ct \in TrackSet /\ nr = 0

Count == nr < MaxNr /\ nr' = nr + 1 /\ UNCHANGED ct

Spec == Init /\ [][Count]_vars
-----------------------------------------------------------------------------
Grp == CalcMoQGroup(ct, nr, MoqGroupDurMS)

Objects == 0 .. NrObjects(Grp, ct.sampleBatch) - 1

(* A group holds exactly the samples that start within its second: a       *)
(* sample is never lost or doubled between two groups, and group           *)
(* boundaries do not drift from whole UTC seconds.                         *)
GroupsCutAtSeconds ==
  /\ Grp.startNr <= Grp.endNr
  /\ \A n \in Grp.startNr .. Grp.endNr - 1 :
       n * ct.sampleDur \in nr * ct.timeScale .. (nr + 1) * ct.timeScale - 1
  /\ (Grp.startNr - 1) * ct.sampleDur < nr * ct.timeScale
  /\ Grp.endNr * ct.sampleDur >= (nr + 1) * ct.timeScale

(* The objects of a group are consecutive, non-empty, no longer than a     *)
(* batch and together the whole group.                                     *)
ObjectsPartitionGroup ==
  LET B == ct.sampleBatch
      N == NrObjects(Grp, B)
  IN  /\ ObjectFirst(Grp, B, 0) = Grp.startNr
      /\ ObjectFirst(Grp, B, N) = Grp.endNr
      /\ \A k \in Objects :
           /\ ObjectFirst(Grp, B, k) < ObjectFirst(Grp, B, k + 1)
           /\ ObjectFirst(Grp, B, k + 1) <= ObjectFirst(Grp, B, k) + B

(* Together: the whole timeline, from epoch to group to object to sample,  *)
(* is cut without gap or overlap.                                          *)
TimelineIsPartitioned == GroupsCutAtSeconds /\ ObjectsPartitionGroup

(* An object is sent when its media has been "recorded": not before its    *)
(* last sample ends, and less than a batch after that even when the group  *)
(* ends in a partial batch, whose time is computed as if it were full.     *)
ObjectsDueInTime ==
  \A k \in Objects :
    LET end == ObjectFirst(Grp, ct.sampleBatch, k + 1) * ct.sampleDur * 1000
        due == ObjectDueMS(ct, Grp.startNr, k)
    IN  /\ end < (due + 1) * ct.timeScale
        /\ due * ct.timeScale < end + ct.sampleBatch * ct.sampleDur * 1000

(* A late partial batch never holds back the group after it: the last      *)
(* object of a group is due no later than the first object of the next.    *)
GroupsDueInOrder ==
  \A k \in Objects :
    ObjectDueMS(ct, Grp.startNr, k) <= ObjectDueMS(ct, Grp.endNr, 0)

(* Together: the pace of a subscription is that of the clock, with no more *)
(* than a batch of delay and none that builds up from group to group.      *)
PacedByTheClock == ObjectsDueInTime /\ GroupsDueInOrder

(* The endless timeline plays the stored samples in order and from the     *)
(* start again: no unsigned underflow, no index beyond the stored samples, *)
(* and a restart exactly where a loop period begins (rounded up to a       *)
(* sample), so that tracks of different sample durations stay in step.     *)
LoopPlaysInOrder ==
  LET start == nr * ct.sampleDur
      restarts == \E w \in 0 .. start \div ct.loopDur :
                    start - w * ct.loopDur \in 0 .. ct.sampleDur - 1
  IN  /\ WrapTime(ct, nr) <= start
      /\ CalcSample(ct, nr) \in 0 .. ct.nrSamples - 1
      /\ CalcSample(ct, nr) = 0 <=> restarts
      /\ CalcSample(ct, nr + 1) \in {0, CalcSample(ct, nr) + 1}
=============================================================================
