--------------------------- MODULE MCAssetLoading ---------------------------
(***************************************************************************)
(* Small clips for TLC.  A second has a few units, and a word of 2^15      *)
(* wraps at 32 units where the code's wraps at 4.3 million.                *)
(***************************************************************************)
EXTENDS AssetLoading

CONSTANT MaxSamples  \* bound on the samples of the clips

(* n samples of duration d from time 0, the last of duration l, with a     *)
(* sync sample every g.                                                    *)
SamplesOf(n, d, l, g) ==
  [i \in 1 .. n |-> [time |-> (i - 1) * d, dur |-> IF i = n THEN l ELSE d,
                     sync |-> i % g = 1 % g]]

FileOf(name, codec, timeScale, samples, mediaTime, bitrate) ==
  [name |-> <<name>>, type |-> IF codec \in AudioCodecs THEN "audio" ELSE "video",
   codec |-> codec, readable |-> TRUE, timeScale |-> timeScale, samples |-> samples,
   mediaTime |-> mediaTime, bitrate |-> bitrate]

(* Video of every length and GOP length. *)
Videos ==
  {FileOf("v400", "avc", ts, SamplesOf(n, d, d, g), 0, 400) :
     ts \in {4, 5}, n \in {0, 1, 3, 8, MaxSamples}, d \in {1, 2}, g \in {1, 2, 4, MaxSamples}}

(* Audio whose samples do not divide the loop, with and without an edit    *)
(* list and a short last sample.                                           *)
Audios ==
  {FileOf("aac", "aac", 8, SamplesOf(n, 3, l, 1), m, 128) :
     n \in {1, 4, 10}, l \in {2, 3}, m \in {0, 4}}

V600 == FileOf("v600", "avc", 4, SamplesOf(8, 1, 1, 4), 0, 600)
V400 == FileOf("v400", "avc", 4, SamplesOf(8, 1, 1, 2), 0, 400)
HEVC == FileOf("hevc", "hevc", 8, SamplesOf(8, 2, 2, 4), 0, 300)
Renditions == {<<V600, V400>>, <<HEVC, V400>>, <<[HEVC EXCEPT !.timeScale = 4], V400>>}

SamplesLike(marks) ==
  [i \in DOMAIN marks |-> [time |-> i - 1, dur |-> 1, sync |-> marks[i]]]

(* A clip whose GOPs differ in length, a clip in which they would but for  *)
(* the last, one with sample durations that change, one that is damaged.   *)
Odd ==
  {FileOf("odd", "avc", 4, s, 0, 500) :
     s \in {SamplesLike(<<TRUE, FALSE, FALSE, TRUE, FALSE, TRUE, FALSE, TRUE, FALSE>>),
            SamplesLike(<<TRUE, FALSE, TRUE, FALSE, TRUE, FALSE, FALSE, FALSE>>),
            SamplesLike(<<FALSE, TRUE, FALSE, FALSE>>),
            SamplesOf(2, 1, 2, 1) \o SamplesOf(6, 2, 2, 1)}}
    \union {[FileOf("odd", "avc", 4, SamplesOf(8, 1, 1, 2), 0, 500) EXCEPT !.readable = FALSE]}

SomeDirectories ==
  {<< >>}
    \union {<<a>> : a \in Audios}
    \union {<<a, v>> : a \in Audios, v \in Videos}
    \union Renditions
    \union {<<o, FileOf("opus", "opus", 8, SamplesOf(10, 3, 3, 1), 0, 96),
              FileOf("xac3", "ac3", 8, SamplesOf(MaxSamples, 2, 2, 1), 0, 192)>> : o \in Odd}

BatchOf(audio, video) == [t \in Types |-> IF t = "audio" THEN audio ELSE video]

ProtectionOf(type, systems) == [type |-> type, systems |-> systems]

SomeConfigs ==
  [batch : {BatchOf(1, 1), BatchOf(2, 1), BatchOf(3, 4)},
   protections : {<< >>, <<ProtectionOf("eccp", 1)>>, <<ProtectionOf("drm", 0)>>,
                  <<ProtectionOf("drm", 2), ProtectionOf("eccp", 1)>>}]

SubtitleNames == {<<"subs_wvtt_sv">>}
=============================================================================
