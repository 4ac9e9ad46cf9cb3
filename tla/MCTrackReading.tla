--------------------------- MODULE MCTrackReading ---------------------------
(***************************************************************************)
(* Two groups of three objects.  Video and audio in one muxed output and   *)
(* in their own, LOCMAF being expanded before; a single track of each kind *)
(* without the other, with groups in order or not.                         *)
(***************************************************************************)
EXTENDS TrackReading

SettingOf(video, audio, mux, out, ordered) ==
  [packaging |-> [r \in Roles |-> IF r = "video" THEN video ELSE audio],
   mux |-> mux, out |-> out, ordered |-> ordered]

Muxed == {SettingOf("locmaf", "cmaf", TRUE, TRUE, TRUE)}

Single ==
  {SettingOf(p, "none", m, TRUE, o) : p \in {"cmaf", "locmaf", "loc"}, m, o \in BOOLEAN}
    \union {SettingOf("none", "moqmi", FALSE, out, o) : out, o \in BOOLEAN}

AllSettings == Muxed \union Single
=============================================================================
