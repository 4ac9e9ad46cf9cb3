---------------------------- MODULE MCPubSession ----------------------------
(***************************************************************************)
(* An asset for TLC: two AVC renditions, AAC and AC-3 audio, one subtitle  *)
(* track; both protections.  A peer that makes one request, any message.   *)
(***************************************************************************)
EXTENDS PubSession

CONSTANT r1

FileOf(name, type, codec, bitrate) ==
  [name |-> <<name>>, type |-> type, codec |-> codec, bitrate |-> bitrate]

AssetFiles ==
  {FileOf("v600", "video", "avc", 600), FileOf("v400", "video", "avc", 400),
   FileOf("aac", "audio", "aac", 128), FileOf("ac3", "audio", "ac3", 192)}

SubtitleNames == {<<"subs_wvtt_sv">>}

OneRequest == {r1}

(* The mlmsub default, and a peer that accepts every namespace. *)
OnePeer == {"cmsf/clear"}
AnyPeer == {"any"}
BothPeers == OnePeer \union AnyPeer

Names ==
  {t.name : t \in AssetTracks} \union {LocmafName(t.name) : t \in AssetTracks}
    \union Subtitles \union MoqMINames \union {CatalogName, <<"audio1">>}

NamespaceNames ==
  {"msf/clear", "moq-mi/clear", "cmsf/clear", "cmsf/drm", "cmsf/eccp",
   InteropNamespace, "cmsf/other"}

SomeLocations == [group : 0 .. 1, object : 0 .. 1]

MessageOf(method, namespace, track, start, end) ==
  [method |-> method, namespace |-> namespace, track |-> track, start |-> start,
   end |-> end]

SubscribeMessages ==
  {MessageOf("subscribe", n, t, CatalogLocation, CatalogLocation) :
     n \in NamespaceNames, t \in Names}

FetchMessages ==
  {MessageOf("fetch", n, t, s, e) :
     n \in NamespaceNames, t \in {CatalogName, <<"v600">>}, s, e \in SomeLocations}

AnnounceMessages ==
  {MessageOf("announce", n, CatalogName, CatalogLocation, CatalogLocation) :
     n \in {InteropNamespace, "cmsf/clear"}}

AllMessages == SubscribeMessages \union FetchMessages \union AnnounceMessages
=============================================================================
