---------------------------- MODULE TrackLayout ----------------------------
(***************************************************************************)
(* How each packaging of the publisher lays a track out: which samples a   *)
(* group holds, how they are cut into objects, when an object is due and   *)
(* which group a new subscription starts with.                             *)
(*                                                                         *)
(*   cmaf, locmaf  PublishTrack          one object per batch of samples   *)
(*   loc           PublishLOCTrack       one object per sample             *)
(*   subtitle      PublishSubtitleTrack  one object per group; its sample  *)
(*                                       is the whole group of 1000 ms     *)
(*   moqmiVideo    publishMoqMIVideo     one group per GOP                 *)
(*   moqmiAudio    publishMoqMIAudio     one group per audio frame         *)
(***************************************************************************)
EXTENDS GroupTiming

Packagings == {"cmaf", "locmaf", "loc", "subtitle", "moqmiVideo", "moqmiAudio"}

(* Tracks as the asset loader leaves them.  The batch sizes come from the  *)
(* command line and default to 1; gopLength stays 0 for a track in which   *)
(* only the first sample is a sync sample.  No real GOP is shorter than a  *)
(* millisecond, so the fallback in GopDurMS is never taken.                *)
LoadedTrack(t) ==
  /\ t \in [packaging : Packagings, timeScale : Nat \ {0}, sampleDur : Nat \ {0},
            sampleBatch : Nat \ {0}, gopLength : Nat]
  /\ t.packaging = "subtitle" => t.timeScale = 1000 /\ t.sampleDur = MoqGroupDurMS
  /\ t.packaging = "moqmiVideo" /\ t.gopLength # 0
       => t.gopLength * t.sampleDur * 1000 >= t.timeScale

Batched(t) == t.packaging \in {"cmaf", "locmaf"}

Batch(t) == IF Batched(t) THEN t.sampleBatch ELSE 1

(* The early returns before the publishing loops are entered. *)
Playable(t) ==
  /\ t.packaging = "moqmiVideo" => t.gopLength # 0
  /\ t.packaging = "moqmiAudio" => t.sampleDur # 0
  /\ t.packaging = "loc" => t.timeScale # 0 /\ t.sampleDur # 0

(* First sample of group g. *)
GroupFirst(t, g) ==
  CASE t.packaging = "moqmiVideo" -> g * t.gopLength
    [] t.packaging = "moqmiAudio" -> g
    [] OTHER -> GroupStartNr(t, g, MoqGroupDurMS)

Group(t, g) == [startNr |-> GroupFirst(t, g), endNr |-> GroupFirst(t, g + 1)]

GroupObjects(t, g) == NrObjects(Group(t, g), Batch(t))

(* First sample of object k of group g; for k = GroupObjects, the first    *)
(* sample of the next group.                                               *)
Position(t, g, k) == ObjectFirst(Group(t, g), Batch(t), k)

SampleTimeMS(t, n) == (n * t.sampleDur * 1000) \div t.timeScale

(* Wall-clock millisecond before which object k of group g is held back:   *)
(* a batch until its last sample has ended, anything else until its sample *)
(* starts.                                                                 *)
DueMS(t, g, k) ==
  CASE Batched(t) -> ObjectDueMS(t, GroupFirst(t, g), k)
    [] t.packaging = "subtitle" -> g * MoqGroupDurMS
    [] OTHER -> SampleTimeMS(t, GroupFirst(t, g) + k)

(* publishMoqMIVideo's GOP duration, truncated to whole milliseconds.      *)
GopDurMS(t) ==
  LET ms == (t.gopLength * t.sampleDur * 1000) \div t.timeScale
  IN  IF ms = 0 THEN 1000 ELSE ms

(* Group a subscription that arrives at nowMS starts with. *)
StartGroup(t, nowMS) ==
  CASE t.packaging = "moqmiVideo" -> nowMS \div GopDurMS(t) + 1
    [] t.packaging = "moqmiAudio" ->
         CeilDiv((nowMS * t.timeScale) \div 1000, t.sampleDur)
    [] OTHER -> CurrMoQGroupNr(nowMS, MoqGroupDurMS) + 1
=============================================================================
