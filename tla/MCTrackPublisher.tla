-------------------------- MODULE MCTrackPublisher --------------------------
(***************************************************************************)
(* Small tracks for TLC.  The video track has 4.8 samples per second in    *)
(* batches of two, so groups have five samples, sometimes four, and the    *)
(* last object of a five-sample group is a partial batch; the frame period *)
(* is not a whole number of milliseconds.                                  *)
(***************************************************************************)
EXTENDS TrackPublisher

CONSTANT s1

TrackOf(packaging, timeScale, sampleDur, batch, gop) ==
  [packaging |-> packaging, timeScale |-> timeScale, sampleDur |-> sampleDur,
   sampleBatch |-> batch, gopLength |-> gop]

Video(packaging) == TrackOf(packaging, 48, 10, 2, 4)
Subtitle == TrackOf("subtitle", 1000, 1000, 1, 0)

OneSub == {s1}

(* Every packaging, and a video track with a single sync sample. *)
AllTracks ==
  {Video(p) : p \in {"cmaf", "locmaf", "loc", "moqmiVideo", "moqmiAudio"}}
    \union {Subtitle, TrackOf("moqmiVideo", 48, 10, 1, 0)}

(* A GOP of 333.3 ms, which the code takes for 333 ms.                     *)
FractionalGop == {TrackOf("moqmiVideo", 3, 1, 1, 1)}

Steps == {90, 400}
CoarseSteps == {300}
=============================================================================
