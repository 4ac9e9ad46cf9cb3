---------------------------- MODULE MCSubSession ----------------------------
(***************************************************************************)
(* Catalogs for TLC, and the flags of the subscriber.                      *)
(***************************************************************************)
EXTENDS SubSession

TrackOf(name, role, packaging, supported) ==
  [name |-> name, role |-> role, packaging |-> packaging, supported |-> supported,
   kid |-> NoKey, clearKey |-> FALSE]

EncryptedTrack(t, kid, clearKey) == [t EXCEPT !.kid = kid, !.clearKey = clearKey]

VideoLOC == TrackOf("v_loc", "video", "loc", TRUE)
VideoCMAF == TrackOf("v", "video", "cmaf", TRUE)
VideoLOCMAF == TrackOf("v_locmaf", "video", "locmaf", TRUE)
AudioLOC == TrackOf("a_loc", "audio", "loc", TRUE)
AudioCMAF == TrackOf("a", "audio", "cmaf", TRUE)
AudioHEAAC == TrackOf("a_loc", "audio", "loc", FALSE)
NewerLOCMAF == TrackOf("v_new", "video", "locmaf", FALSE)
VideoECCP == EncryptedTrack(TrackOf("v_eccp", "video", "cmaf", TRUE), "k1", TRUE)
AudioECCP == EncryptedTrack(TrackOf("a_eccp", "audio", "cmaf", TRUE), "k1", TRUE)
AudioDRM == EncryptedTrack(TrackOf("a_drm", "audio", "cmaf", TRUE), "k1", FALSE)
VideoOther == EncryptedTrack(TrackOf("v_other", "video", "cmaf", TRUE), "k2", TRUE)
Subs == TrackOf("subs", "subtitle", "cmaf", TRUE)

None == {}
AllOuts == {"video", "audio", "subtitle", "mux"}
AnyMain == {"catalog", "moqmi", "discover"}
CatalogMain == {"catalog"}

(* Clear tracks; a LOC track beside encrypted ones; encrypted tracks.      *)
NamesOf(video, audio, subs) ==
  [role \in Roles |-> CASE role = "video" -> video
                        [] role = "audio" -> audio
                        [] role = "subtitle" -> subs]
SomeNames == {NamesOf({"v_locmaf"}, {"a_loc"}, None),
              NamesOf({"v_loc"}, None, {"subs"}),
              NamesOf({"v_eccp"}, {"a_eccp", "a_drm"}, None)}
AnyName == {NamesOf({"v", "v_locmaf"}, {"a"}, {"subs"})}

(* Catalogs that grow: clear tracks, with a codec and a LOCMAF version that *)
(* the subscriber does not know; then both as it knows them, encrypted     *)
(* tracks and subtitles; in the end a second key.                          *)
Clear == <<VideoLOC, VideoLOCMAF, AudioHEAAC, NewerLOCMAF>>
Protected == <<VideoECCP, AudioDRM, AudioECCP, Subs>>
Larger == [Clear EXCEPT ![3] = AudioLOC, ![4].supported = TRUE] \o Protected
MixedGrowing == <<Clear, Larger, Append(Larger, VideoOther)>>
CMAFOnly == <<<<VideoCMAF, VideoLOCMAF, AudioCMAF, Subs>>>>

ASSUME OnlyGrows == CatalogsGrow

JoiningReplayed == [mode : {"joining"}, ordered : {TRUE}, replays : {TRUE}]
FetchingModes == [mode : {"joining", "fetch"}, ordered : {TRUE}, replays : {FALSE}]
=============================================================================
