------------------------------ MODULE Catalogs ------------------------------
(***************************************************************************)
(* What mlmpub offers: the tracks of the loaded asset with their protected *)
(* copies (internal/asset.go), the catalogs generated from them, and the   *)
(* namespaces they are offered in (cmd/mlmpub/main.go).                    *)
(*                                                                         *)
(* A track name is the sequence of its parts: the name of the file, then   *)
(* each suffix the code appends to it.                                     *)
(***************************************************************************)
EXTENDS Naturals, Sequences, FiniteSets

CONSTANTS
  Files,      \* the content files
  Subtitles,  \* names of the generated subtitle tracks
  DRM, ECCP   \* is commercial DRM, is ClearKey/ECCP configured?

AVCodecs == [video |-> {"av1", "avc", "hevc"}, audio |-> {"aac", "opus", "ac3"}]

LocmafTrackSuffix == "_locmaf"
Suffixes == {"_drm", "_eccp", LocmafTrackSuffix}

FileOfType(type) ==
  [name : Seq(STRING), type : {type}, codec : AVCodecs[type], bitrate : Nat]

File == FileOfType("video") \union FileOfType("audio")

CatalogName == <<"catalog">>
MoqMINames == {<<"video0">>, <<"audio0">>}

(* Files have names of their own, that are not those of the catalog or of  *)
(* a subtitle track and do not end the way a derived name does.            *)
Plain(name) == name # << >> /\ name[Len(name)] \notin Suffixes

ASSUME OfferAssumption ==
  /\ Files \subseteq File
  /\ Subtitles \subseteq Seq(STRING)
  /\ DRM \in BOOLEAN /\ ECCP \in BOOLEAN
  /\ \A f \in Files : Plain(f.name) /\ f.name # CatalogName
  /\ \A n \in Subtitles : Plain(n) /\ n # CatalogName
  /\ \A f, g \in Files : f.name = g.name => f = g
  /\ \A f \in Files : f.name \notin Subtitles
-----------------------------------------------------------------------------
(* The asset *)

ClearTrack(f) ==
  [name |-> f.name, type |-> f.type, codec |-> f.codec, bitrate |-> f.bitrate,
   protection |-> "none"]

ClearTracks == {ClearTrack(f) : f \in Files}

SuffixOf(protection) == IF protection = "drm" THEN "_drm" ELSE "_eccp"

AddProtectionInfo(t, protection) ==
  [t EXCEPT !.name = Append(@, SuffixOf(protection)), !.protection = protection]

CreateProtectedTracks(tracks, protection) ==
  tracks \union {AddProtectionInfo(t, protection) :
                   t \in {u \in tracks : u.protection = "none"}}

AssetTracks ==
  LET withDRM == IF DRM THEN CreateProtectedTracks(ClearTracks, "drm")
                 ELSE ClearTracks
  IN  IF ECCP THEN CreateProtectedTracks(withDRM, "eccp") ELSE withDRM

(* GetTrackByName; at most one, as names are distinct. *)
TracksNamed(name) == {t \in AssetTracks : t.name = name}

Clear(codec) == {t \in AssetTracks : t.protection = "none" /\ t.codec = codec}

(* Within a codec the groups are sorted by bitrate. *)
FirstOf(tracks) ==
  CHOOSE t \in tracks : \A u \in tracks : t.bitrate <= u.bitrate
-----------------------------------------------------------------------------
(* The catalogs *)

CatalogTrack(t, name, packaging) ==
  [name |-> name, packaging |-> packaging, role |-> t.type,
   protected |-> t.protection # "none"]

LocmafName(name) == Append(name, LocmafTrackSuffix)

SubtitleEntry(name) ==
  [name |-> name, packaging |-> "cmaf", role |-> "subtitle", protected |-> FALSE]

GenCMAFCatalogEntry(protection) ==
  LET listed == {t \in AssetTracks : t.protection = protection}
  IN  {CatalogTrack(t, t.name, "cmaf") : t \in listed}
        \union {CatalogTrack(t, LocmafName(t.name), "locmaf") : t \in listed}
        \union {SubtitleEntry(n) : n \in Subtitles}

GenLOCCatalogEntry ==
  {CatalogTrack(t, t.name, "loc") :
     t \in {u \in AssetTracks : u.protection = "none" /\ u.codec # "ac3"}}
-----------------------------------------------------------------------------
(* The namespaces *)

(* moq-mi is offered when there is a clear AVC track; audio0 is the first  *)
(* AAC track, else the first Opus track, and may be missing.               *)
HasMoqMI == Clear("avc") # {}

MoqMIAudio == IF Clear("aac") # {} THEN Clear("aac") ELSE Clear("opus")

BuildMoqMITrackMap ==
  [n \in IF MoqMIAudio = {} THEN {<<"video0">>} ELSE MoqMINames |->
     FirstOf(IF n = <<"video0">> THEN Clear("avc") ELSE MoqMIAudio).name]

NoTracks == [n \in {} |-> n]

NamespaceEntry(namespace, packaging, catalog, moqmiTracks) ==
  [namespace |-> namespace, packaging |-> packaging, catalog |-> catalog,
   moqmiTracks |-> moqmiTracks]

When(condition, entry) == IF condition THEN <<entry>> ELSE << >>

Namespaces ==
  When(GenLOCCatalogEntry # {},
       NamespaceEntry("msf/clear", "loc", GenLOCCatalogEntry, NoTracks))
  \o When(HasMoqMI,
          NamespaceEntry("moq-mi/clear", "moqmi", {}, BuildMoqMITrackMap))
  \o <<NamespaceEntry("cmsf/clear", "cmaf", GenCMAFCatalogEntry("none"), NoTracks)>>
  \o When(DRM, NamespaceEntry("cmsf/drm", "cmaf", GenCMAFCatalogEntry("drm"), NoTracks))
  \o When(ECCP, NamespaceEntry("cmsf/eccp", "cmaf", GenCMAFCatalogEntry("eccp"), NoTracks))

InteropNamespace == "moq-test/interop"

(* findNamespace: the entry of a namespace, if there is one. *)
FindNamespace(namespace) ==
  {Namespaces[i] : i \in {j \in DOMAIN Namespaces : Namespaces[j].namespace = namespace}}
=============================================================================
