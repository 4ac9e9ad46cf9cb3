----------------------------- MODULE MCTimeline -----------------------------
(***************************************************************************)
(* Tracks whose sample duration divides neither the second nor the loop,   *)
(* tracks that divide both, and batches longer than a group.               *)
(***************************************************************************)
EXTENDS SubtitleCues

SmallTracks ==
  {t \in [timeScale : {1, 3, 25, 48}, sampleDur : {1, 2, 10, 60},
          sampleBatch : {1, 2, 3, 30}, nrSamples : {3, 7, 25},
          loopDur : {3, 20, 25, 48, 70}] :
     t.loopDur <= t.nrSamples * t.sampleDur}

(* The program's subtitles, longer groups, and cues as short and as long   *)
(* as a cue can be.                                                        *)
SubtitleLayouts ==
  [groupDurMS : {MoqGroupDurMS, 3000}, cueDurMS : {1, DefaultCueDurMS, 1000}]
=============================================================================
