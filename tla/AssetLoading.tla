---------------------------- MODULE AssetLoading ----------------------------
(***************************************************************************)
(* How mlmpub starts: LoadAssetWithProtection (internal/asset.go) parses   *)
(* the content files, adds protected copies of the tracks, groups and      *)
(* sorts them and fits them to one loop duration; runServer                *)
(* (cmd/mlmpub/main.go) then generates the catalogs and namespaces.  The   *)
(* process serves, refuses to start with an error, or panics.              *)
(*                                                                         *)
(* Products are uint32 in the code: they are taken modulo Word.            *)
(***************************************************************************)
EXTENDS GroupTiming, Sequences, FiniteSets, SequencesExt

CONSTANTS
  Directories,  \* sequences of content files, in the order of their names
  Configs,      \* flags and configuration files of the process
  Subtitles,    \* names of the subtitle tracks
  Word          \* 2^32 in the code

Types == {"video", "audio"}
VideoCodecs == <<"av1", "avc", "hevc">>  \* in the order of their codec strings
AudioCodecs == {"aac", "opus", "ac3"}

(* A file: what mp4.DecodeFile and the codec parsers make of it.  A file   *)
(* is not readable when one of them returns an error.  mediaTime is the    *)
(* edit list's; bitrate stands for the bytes of the samples.               *)
Sample == [time : Nat, dur : Nat \ {0}, sync : BOOLEAN]

CodecsOf(type) == IF type = "video" THEN Range(VideoCodecs) ELSE AudioCodecs

FileOfType(type) ==
  [name : Seq(STRING), type : {type}, codec : CodecsOf(type),
   readable : BOOLEAN, timeScale : Nat \ {0}, samples : Seq(Sample),
   mediaTime : Nat, bitrate : Nat]

File == FileOfType("video") \union FileOfType("audio")

(* The DRM configuration holds the systems of the CPIX file, the ClearKey  *)
(* flags always make one.  Either may be missing; tracks and namespaces    *)
(* are made for commercial DRM first.                                      *)
Protection == [type : {"drm", "eccp"}, systems : Nat]

Protections ==
  {ps \in Seq(Protection) :
     \A i, j \in DOMAIN ps : i < j => ps[i].type = "drm" /\ ps[j].type = "eccp"}

Config == [batch : [Types -> Nat \ {0}], protections : Protections]

ASSUME LoadingAssumption ==
  /\ Word \in Nat \ {0}
  /\ \A d \in Directories : d \in Seq(File)
  /\ Configs \subseteq Config
  /\ \A d \in Directories : \A i, j \in DOMAIN d :
       /\ d[i].name = d[j].name => i = j
       /\ d[i].codec = d[j].codec /\ d[i].bitrate = d[j].bitrate => i = j

VARIABLES
  dir, config,  \* what the process was started with
  phase,        \* what it does next, or how starting ended
  next,         \* files parsed, protections added or namespaces considered so far
  tracks,       \* tracksByType, in no order: they are sorted later
  groups,       \* Asset.Groups
  loopDurMS,    \* Asset.LoopDurMS
  namespaces    \* the namespaces offered

asset == <<tracks, groups, loopDurMS, namespaces>>
vars == <<dir, config, phase, next, asset>>

Init ==
  /\ dir \in Directories /\ config \in Configs
  /\ phase = "parse" /\ next = 0
  /\ tracks = [t \in Types |-> {}]
  /\ groups = << >> /\ loopDurMS = 0 /\ namespaces = << >>

Stop(how) == phase' = how /\ UNCHANGED <<dir, config, next, asset>>
Refuse == Stop("refused")
Panic == Stop("panicked")

(* On to the next phase, or the next turn of this one. *)
Enter(p) == phase' = p /\ next' = 0 /\ UNCHANGED <<dir, config>>
Advance == next' = next + 1 /\ UNCHANGED <<dir, config, phase>>
-----------------------------------------------------------------------------
(* parseTracks *)

(* Only the last sample may have a duration of its own. *)
SameDuration(samples) ==
  \A i \in 2 .. Len(samples) - 1 : samples[i].dur = samples[1].dur

(* The edit list of an audio file drops the samples before its media time, *)
(* up to the first that is not.                                            *)
Early(f) ==
  {i \in DOMAIN f.samples : f.type = "audio" /\ f.samples[i].time < f.mediaTime}

FirstIdx(f) ==
  CHOOSE n \in 0 .. Len(f.samples) : 1 .. n \subseteq Early(f) /\ n + 1 \notin Early(f)

AfterEdit(f) == SubSeq(f.samples, FirstIdx(f) + 1, Len(f.samples))

SyncDistances(samples) ==
  LET syncs == {i \in DOMAIN samples : samples[i].sync}
  IN  {n \in 1 .. Len(samples) :
         \E i \in syncs : /\ i + n \in syncs
                          /\ \A j \in i + 1 .. i + n - 1 : j \notin syncs}

(* Mutant: GOPs of any lengths. *)
AnyGops(samples) == TRUE

SameGop(samples) == samples[1].sync => Cardinality(SyncDistances(samples)) <= 1

GopLength(samples) ==
  IF samples[1].sync /\ SyncDistances(samples) # {}
  THEN CHOOSE n \in SyncDistances(samples) : TRUE
  ELSE 0

ContentTrack(f) ==
  LET kept == AfterEdit(f)
  IN  [name |-> f.name, type |-> f.type, codec |-> f.codec, protection |-> "none",
       timeScale |-> f.timeScale, sampleDur |-> f.samples[1].dur,
       sampleBatch |-> config.batch[f.type], gopLength |-> GopLength(kept),
       samples |-> kept, nrSamples |-> Len(kept),
       duration |-> (Len(kept) * f.samples[1].dur) % Word,
       bitrate |-> f.bitrate, loopDur |-> 0]

(* InitContentTrack reads its first sample without looking whether there   *)
(* is one.                                                                 *)
ParseFile ==
  /\ phase = "parse" /\ next < Len(dir)
  /\ LET f == dir[next + 1]
         wellFormed == f.readable /\ SameDuration(f.samples)
     IN  \/ ~wellFormed /\ Refuse
         \/ wellFormed /\ AfterEdit(f) = << >> /\ Panic
         \/ /\ wellFormed /\ AfterEdit(f) # << >> /\ ~SameGop(AfterEdit(f))
            /\ Refuse
         \/ /\ wellFormed /\ AfterEdit(f) # << >> /\ SameGop(AfterEdit(f))
            /\ tracks' = [tracks EXCEPT ![f.type] = @ \union {ContentTrack(f)}]
            /\ Advance /\ UNCHANGED <<groups, loopDurMS, namespaces>>

AllParsed == phase = "parse" /\ next = Len(dir) /\ Enter("protect") /\ UNCHANGED asset
-----------------------------------------------------------------------------
(* createProtectedTracks *)

IsClear(t) == t.protection = "none"

ProtectedName(name, protection) ==
  Append(name, IF protection = "drm" THEN "_drm" ELSE "_eccp")

AddProtectionInfo(t, protection) ==
  [t EXCEPT !.name = ProtectedName(@, protection), !.protection = protection]

Copies(ts, protection) ==
  {AddProtectionInfo(t, protection) : t \in {u \in ts : IsClear(u)}}

(* Cloning the codec data or protecting the init segment may fail; the key *)
(* id is that of the first system, whether or not there is one.            *)
ProtectTracks ==
  /\ phase = "protect" /\ next < Len(config.protections)
  /\ LET p == config.protections[next + 1]
         nothingToCopy == \A t \in Types : tracks[t] = {}
     IN  \/ ~nothingToCopy /\ Refuse
         \/ ~nothingToCopy /\ p.systems = 0 /\ Panic
         \/ /\ nothingToCopy \/ p.systems > 0
            /\ tracks' = [t \in Types |-> tracks[t] \union Copies(tracks[t], p.type)]
            /\ Advance /\ UNCHANGED <<groups, loopDurMS, namespaces>>
-----------------------------------------------------------------------------
(* generateTrackGroups *)

CodecRank(t) == CHOOSE i \in DOMAIN VideoCodecs : VideoCodecs[i] = t.codec

MayPrecede(t, u) ==
  IF t.type = "video" /\ t.codec # u.codec THEN CodecRank(t) < CodecRank(u)
  ELSE t.bitrate <= u.bitrate

(* sort.Slice is not stable: tracks that compare equal, like a track and   *)
(* its protected copies, come in any order.                                *)
Sortings(ts) ==
  {s \in SetToSeqs(ts) : \A i \in 1 .. Len(s) - 1 : MayPrecede(s[i], s[i + 1])}

TrackGroup(sorted) == IF sorted = << >> THEN << >> ELSE <<sorted>>

GenerateTrackGroups ==
  /\ phase = "protect" /\ next = Len(config.protections)
  /\ \/ /\ \E t, u \in tracks["video"] : t.duration # u.duration
        /\ Refuse
     \/ /\ \A t, u \in tracks["video"] : t.duration = u.duration
        /\ \E v \in Sortings(tracks["video"]), a \in Sortings(tracks["audio"]) :
             groups' = TrackGroup(v) \o TrackGroup(a)
        /\ Enter("loop") /\ UNCHANGED <<tracks, loopDurMS, namespaces>>
-----------------------------------------------------------------------------
(* setLoopDuration *)

Times(a, b) == (a * b) % Word

FirstLoopMS(gs) == Times(gs[1][1].duration, 1000) \div gs[1][1].timeScale

Follows(g, t) == g > 1 /\ t.type = "audio"

(* Mutant: audio of any length. *)
FitsExactlyOrAudio(g, t, loopMS) ==
  Follows(g, t) \/ Times(t.duration, 1000) = Times(loopMS, t.timeScale)

Fits(g, t, loopMS) ==
  IF Follows(g, t) THEN Times(t.duration, 1000) >= Times(loopMS, t.timeScale)
  ELSE Times(t.duration, 1000) = Times(loopMS, t.timeScale)

(* Mutant: audio loops when its samples end. *)
OwnDuration(g, t, loopMS) == t.duration

(* Mutant: in whole seconds. *)
LoopDurTruncated(g, t, loopMS) ==
  IF Follows(g, t) THEN (loopMS \div 1000) * t.timeScale ELSE t.duration

LoopDur(g, t, loopMS) ==
  IF Follows(g, t) THEN Times(loopMS, t.timeScale) \div 1000 ELSE t.duration

SetLoopDuration ==
  /\ phase = "loop"
  /\ \/ groups = << >> /\ Refuse
     \/ /\ groups # << >>
        /\ \E g \in DOMAIN groups : \E t \in Range(groups[g]) :
             ~Fits(g, t, FirstLoopMS(groups))
        /\ Refuse
     \/ /\ groups # << >>
        /\ \A g \in DOMAIN groups : \A t \in Range(groups[g]) :
             Fits(g, t, FirstLoopMS(groups))
        /\ loopDurMS' = FirstLoopMS(groups)
        /\ groups' = [g \in DOMAIN groups |-> [i \in DOMAIN groups[g] |->
             [groups[g][i] EXCEPT !.loopDur = LoopDur(g, groups[g][i], loopDurMS')]]]
        /\ Enter("offer") /\ UNCHANGED <<tracks, namespaces>>
-----------------------------------------------------------------------------
(* The catalogs *)

Offer == INSTANCE Catalogs
           WITH Files <- {[name |-> f.name, type |-> f.type, codec |-> f.codec,
                           bitrate |-> f.bitrate] : f \in Range(dir)},
                DRM <- \E p \in Range(config.protections) : p.type = "drm",
                ECCP <- \E p \in Range(config.protections) : p.type = "eccp"

Loaded == UNION {Range(groups[g]) : g \in DOMAIN groups}

(* Mutant: copies are listed beside the originals. *)
WithCopies(protection) ==
  {t \in Loaded : t.protection # "none" \/ protection = "none"}

Protected(protection) == {t \in Loaded : t.protection = protection}

(* calcCmafBitrate and calcLocmafBitrate build the first object of a track *)
(* and the second; the batch is cut to the samples there are, twice the    *)
(* batch is not.                                                           *)
MeasuredBatch(t) == MinOf(t.sampleBatch, t.nrSamples)

Measurable(t) == t.loopDur > 0 /\ 2 * MeasuredBatch(t) <= t.nrSamples

GenLOCCatalogEntry ==
  {Offer!CatalogTrack(t, t.name, "loc") : t \in {u \in Protected("none") : u.codec # "ac3"}}

GenCMAFCatalogEntry(protection) ==
  {Offer!CatalogTrack(t, t.name, "cmaf") : t \in Protected(protection)}
    \union {Offer!CatalogTrack(t, Offer!LocmafName(t.name), "locmaf") :
               t \in Protected(protection)}
    \union {Offer!SubtitleEntry(n) : n \in Subtitles}

(* Where the clear tracks of a codec are in the groups, and the first.     *)
ClearOf(codec) ==
  {p \in UNION {{<<g, i>> : i \in DOMAIN groups[g]} : g \in DOMAIN groups} :
     LET t == groups[p[1]][p[2]] IN IsClear(t) /\ t.codec = codec}

Before(p, q) == p[1] < q[1] \/ (p[1] = q[1] /\ p[2] <= q[2])

First(places) ==
  LET p == CHOOSE q \in places : \A r \in places : Before(q, r)
  IN  groups[p[1]][p[2]]

(* Two passes: Opus only if there is no AAC; it fails without AVC. *)
MoqMIAudio == IF ClearOf("aac") # {} THEN ClearOf("aac") ELSE ClearOf("opus")

BuildMoqMITrackMap ==
  [n \in {<<"video0">>} \union (IF MoqMIAudio = {} THEN {} ELSE {<<"audio0">>}) |->
     First(IF n = <<"video0">> THEN ClearOf("avc") ELSE MoqMIAudio).name]

Considered == <<"loc", "moqmi", "none">>
                \o [i \in DOMAIN config.protections |-> config.protections[i].type]

NamespaceOf(protection) ==
  CASE protection = "none" -> "cmsf/clear"
    [] protection = "drm"  -> "cmsf/drm"
    [] protection = "eccp" -> "cmsf/eccp"

Offers(entry) ==
  /\ namespaces' = Append(namespaces, entry)
  /\ Advance /\ UNCHANGED <<tracks, groups, loopDurMS>>

Skips == Advance /\ UNCHANGED asset

ConsiderLOC ==
  \/ GenLOCCatalogEntry = {} /\ Skips
  \/ /\ GenLOCCatalogEntry # {}
     /\ Offers(Offer!NamespaceEntry("msf/clear", "loc", GenLOCCatalogEntry, Offer!NoTracks))

ConsiderMoqMI ==
  \/ ClearOf("avc") = {} /\ Skips
  \/ /\ ClearOf("avc") # {}
     /\ Offers(Offer!NamespaceEntry("moq-mi/clear", "moqmi", {}, BuildMoqMITrackMap))

(* Init data and the measured objects are made by libraries that may fail. *)
ConsiderCMAF(protection) ==
  \/ Protected(protection) # {} /\ Refuse
  \/ (\E t \in Protected(protection) : ~Measurable(t)) /\ Panic
  \/ /\ \A t \in Protected(protection) : Measurable(t)
     /\ Offers(Offer!NamespaceEntry(NamespaceOf(protection), "cmaf",
                                    GenCMAFCatalogEntry(protection), Offer!NoTracks))

OfferNext ==
  /\ phase = "offer" /\ next < Len(Considered)
  /\ CASE Considered[next + 1] = "loc"   -> ConsiderLOC
       [] Considered[next + 1] = "moqmi" -> ConsiderMoqMI
       [] OTHER                          -> ConsiderCMAF(Considered[next + 1])

Serve == phase = "offer" /\ next = Len(Considered) /\ Enter("serving") /\ UNCHANGED asset

Next == \/ ParseFile \/ AllParsed \/ ProtectTracks \/ GenerateTrackGroups
        \/ SetLoopDuration \/ OfferNext \/ Serve

Spec == Init /\ [][Next]_vars
-----------------------------------------------------------------------------
Served == IF phase = "serving" THEN Loaded ELSE {}

(* What every publishing goroutine relies on and none checks: the loop is  *)
(* not empty and lies within the samples, whatever the products wrapped    *)
(* to.  (The assumption of module Timeline.)                               *)
ServedTracksPlay ==
  \A t \in Served : t.loopDur \in 1 .. t.nrSamples * t.sampleDur

LengthMS(f) == (Len(AfterEdit(f)) * f.samples[1].dur * 1000) \div f.timeScale

(* A directory of clips, each at least a tick of every track long and      *)
(* short enough for 32 bits (47 s at 90 kHz, 89 s at 48 kHz).              *)
ShortClips ==
  \A f, h \in Range(dir) :
    /\ f.samples # << >>
    /\ LengthMS(f) * h.timeScale >= 1000
    /\ (LengthMS(f) + 1) * h.timeScale < Word

(* Every served track loops in the same time, to within a tick of its own: *)
(* audio and video do not drift apart from loop to loop, whichever track   *)
(* the loop duration was taken from.                                       *)
LoopsTogether ==
  ShortClips => \A t \in Served :
    loopDurMS * t.timeScale - t.loopDur * 1000 \in 0 .. 999

(* The process never panics on a directory of short clips that hold two    *)
(* batches each, with a complete DRM configuration: it refuses or serves.  *)
TwoBatches ==
  /\ \A f \in Range(dir) : Len(AfterEdit(f)) >= 2 * config.batch[f.type]
  /\ \A p \in Range(config.protections) : p.systems > 0

StartsOrRefuses == ShortClips /\ TwoBatches => phase # "panicked"

(* What is offered is the whole offer of module Catalogs, the one the      *)
(* publisher's sessions serve: each file once in every packaging and       *)
(* protection that has a namespace, under the names requests are resolved  *)
(* by, however the sorting has ordered equal tracks.                       *)
OffersCatalogs == phase = "serving" => namespaces = Offer!Namespaces

(* A moq-mi group of a video track, gopLength samples from a multiple of   *)
(* gopLength, is a GOP of the file in every turn of the loop, provided     *)
(* that the last GOP of the file is as long as the others, which the       *)
(* loader does not check, and that the duration did not wrap (13 h).       *)
LastGopWhole(t) ==
  /\ t.gopLength \in 1 .. t.nrSamples
  /\ t.samples[t.nrSamples - t.gopLength + 1].sync
  /\ t.nrSamples * t.sampleDur < Word

GroupsAreGops ==
  \A t \in {u \in Served : u.type = "video" /\ LastGopWhole(u)} : \A n \in 0 .. 2 * t.nrSamples :
    t.samples[CalcSample(t, n) + 1].sync <=> n % t.gopLength = 0
=============================================================================
