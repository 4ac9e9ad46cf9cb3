-------------------------- MODULE PubSession_proofs --------------------------
(***************************************************************************)
(* Safety of the publisher session for every set of requests, every        *)
(* message they may be, every asset and every wish of the peer.            *)
(***************************************************************************)
EXTENDS PubSession, SequenceTheorems, WellFoundedInduction, TLAPS

(* The parts of a track's name. *)
Parts == STRING \union Suffixes

Protections == {"none", "drm", "eccp"}

(* The name of the copy of a file with a protection, and that copy. *)
NameOf(f, p) == IF p = "none" THEN f.name ELSE Append(f.name, SuffixOf(p))

TrackOf(f, p) ==
  [name |-> NameOf(f, p), type |-> f.type, codec |-> f.codec,
   bitrate |-> f.bitrate, protection |-> p]

(* The suffix a name ends with. *)
EndsIn(n, s) == n # << >> /\ n[Len(n)] = s
-----------------------------------------------------------------------------
(* Names                                                                    *)

(* A suffix appended to a name can be taken away again, and shows at the    *)
(* end.                                                                     *)
LEMMA Appended ==
  ASSUME NEW n \in Seq(Parts), NEW s \in Suffixes
  PROVE  /\ Append(n, s) \in Seq(Parts)
         /\ Append(n, s) # << >>
         /\ Len(Append(n, s)) = Len(n) + 1
         /\ Append(n, s)[Len(Append(n, s))] = s
         /\ SubSeq(Append(n, s), 1, Len(Append(n, s)) - 1) = n
<1>1. s \in Parts
  BY DEF Parts
<1> HIDE DEF Parts
<1>2. /\ Append(n, s) \in Seq(Parts)
      /\ Len(Append(n, s)) = Len(n) + 1
      /\ \A i \in 1 .. Len(n) : Append(n, s)[i] = n[i]
      /\ Append(n, s)[Len(n) + 1] = s
      /\ Len(n) \in Nat
  BY <1>1
<1>3. Append(n, s) # << >>
  BY <1>2
<1>4. SubSeq(Append(n, s), 1, Len(n)) = n
  BY <1>1, <1>2, AppendProperties, SubSeqProperties
<1> QED
  BY <1>2, <1>3, <1>4

LEMMA AppendedOnce ==
  ASSUME NEW m \in Seq(Parts), NEW n \in Seq(Parts),
         NEW s \in Suffixes, NEW t \in Suffixes,
         Append(m, s) = Append(n, t)
  PROVE  m = n /\ s = t
BY Appended

LEMMA FilesPlain ==
  ASSUME NEW f \in Files
  PROVE  /\ f.name \in Seq(Parts) /\ Plain(f.name)
         /\ f.type \in {"video", "audio"} /\ f.bitrate \in Nat
<1>1. f \in File /\ Plain(f.name)
  BY OfferAssumption
<1>2. /\ f.name \in Seq(STRING)
      /\ f.type \in {"video", "audio"} /\ f.bitrate \in Nat
  BY <1>1 DEF File, FileOfType
<1>3. f.name \in Seq(Parts)
  BY <1>2, SeqMonotonic DEF Parts
<1> QED
  BY <1>1, <1>2, <1>3

LEMMA SubtitlesPlain ==
  ASSUME NEW n \in Subtitles
  PROVE  n \in Seq(Parts) /\ Plain(n) /\ n # CatalogName
<1>1. n \in Seq(STRING) /\ Plain(n) /\ n # CatalogName
  BY OfferAssumption
<1> QED
  BY <1>1, SeqMonotonic DEF Parts
-----------------------------------------------------------------------------
(* Tracks                                                                   *)

(* The tracks of the asset are the copies of the files, one per protection  *)
(* that is configured.                                                      *)
LEMMA ClearCopy ==
  ASSUME NEW f \in Files
  PROVE  ClearTrack(f) = TrackOf(f, "none")
BY DEF ClearTrack, TrackOf, NameOf

LEMMA ProtectedCopy ==
  ASSUME NEW f \in Files, NEW p \in {"drm", "eccp"}
  PROVE  AddProtectionInfo(ClearTrack(f), p) = TrackOf(f, p)
<1> DEFINE n == Append(f.name, SuffixOf(p))
<1>1. NameOf(f, p) = n
  BY DEF NameOf
<1>2. AddProtectionInfo(ClearTrack(f), p) =
        [[ClearTrack(f) EXCEPT !.name = n] EXCEPT !.protection = p]
  BY DEF AddProtectionInfo, ClearTrack
<1> HIDE DEF n
<1>3. [ClearTrack(f) EXCEPT !.name = n] =
        [name |-> n, type |-> f.type, codec |-> f.codec, bitrate |-> f.bitrate,
         protection |-> "none"]
  BY DEF ClearTrack
<1>4. [[name |-> n, type |-> f.type, codec |-> f.codec, bitrate |-> f.bitrate,
        protection |-> "none"] EXCEPT !.protection = p] =
        [name |-> n, type |-> f.type, codec |-> f.codec, bitrate |-> f.bitrate,
         protection |-> p]
  OBVIOUS
<1> QED
  BY <1>1, <1>2, <1>3, <1>4 DEF TrackOf

LEMMA TracksMade ==
  ASSUME NEW t \in AssetTracks
  PROVE  \E f \in Files, p \in Protections : t = TrackOf(f, p)
<1>1. ASSUME NEW u \in ClearTracks
      PROVE  \E f \in Files : u = TrackOf(f, "none") /\ u = ClearTrack(f)
  BY ClearCopy DEF ClearTracks
<1> DEFINE withDRM == IF DRM THEN CreateProtectedTracks(ClearTracks, "drm")
                      ELSE ClearTracks
<1>2. ASSUME NEW u \in withDRM
      PROVE  \/ u \in ClearTracks
             \/ \E f \in Files : u = TrackOf(f, "drm")
  BY <1>1, ProtectedCopy DEF CreateProtectedTracks
<1>3. ASSUME NEW u \in withDRM, u.protection = "none"
      PROVE  u \in ClearTracks
  <2>1. \A f \in Files : TrackOf(f, "drm").protection = "drm"
    BY DEF TrackOf
  <2> QED
    BY <1>2, <1>3, <2>1
<1>4. AssetTracks = IF ECCP THEN CreateProtectedTracks(withDRM, "eccp") ELSE withDRM
  BY DEF AssetTracks
<1> HIDE DEF withDRM
<1>5. \/ t \in withDRM
      \/ \E u \in withDRM : u.protection = "none" /\ t = AddProtectionInfo(u, "eccp")
  BY <1>4 DEF CreateProtectedTracks
<1>6. CASE t \in withDRM
  BY <1>1, <1>2, <1>6 DEF Protections
<1>7. ASSUME NEW u \in withDRM, u.protection = "none", t = AddProtectionInfo(u, "eccp")
      PROVE  \E f \in Files, p \in Protections : t = TrackOf(f, p)
  <2>1. PICK f \in Files : u = ClearTrack(f)
    BY <1>1, <1>3, <1>7
  <2> QED
    BY <1>7, <2>1, ProtectedCopy DEF Protections
<1> QED
  BY <1>5, <1>6, <1>7

(* Their names are told apart: by the file and by the protection.           *)
LEMMA NamesOfCopies ==
  ASSUME NEW f \in Files, NEW p \in Protections
  PROVE  /\ NameOf(f, p) \in Seq(Parts) /\ NameOf(f, p) # << >>
         /\ ~EndsIn(NameOf(f, p), LocmafTrackSuffix)
         /\ p = "none" => Plain(NameOf(f, p))
         /\ p # "none" => EndsIn(NameOf(f, p), SuffixOf(p))
<1>1. f.name \in Seq(Parts) /\ Plain(f.name)
  BY FilesPlain
<1>2. CASE p = "none"
  BY <1>1, <1>2 DEF NameOf, Plain, EndsIn, Suffixes
<1>3. CASE p # "none"
  <2>1. SuffixOf(p) \in Suffixes /\ SuffixOf(p) # LocmafTrackSuffix
    BY DEF SuffixOf, Suffixes, LocmafTrackSuffix
  <2> QED
    BY <1>1, <1>3, <2>1, Appended DEF NameOf, EndsIn
<1> QED
  BY <1>2, <1>3

LEMMA CopiesApart ==
  ASSUME NEW f \in Files, NEW g \in Files, NEW p \in Protections, NEW q \in Protections,
         NameOf(f, p) = NameOf(g, q)
  PROVE  f = g /\ p = q
<1>1. f.name \in Seq(Parts) /\ g.name \in Seq(Parts)
  BY FilesPlain
<1>2. SuffixOf(p) \in Suffixes /\ SuffixOf(q) \in Suffixes
  BY DEF SuffixOf, Suffixes
<1>3. CASE p = "none" /\ q = "none"
  BY <1>3, OfferAssumption DEF NameOf
<1>4. CASE p # "none" /\ q # "none"
  <2>1. f.name = g.name /\ SuffixOf(p) = SuffixOf(q)
    BY <1>1, <1>2, <1>4, AppendedOnce DEF NameOf
  <2>2. p = q
    BY <1>4, <2>1 DEF SuffixOf, Protections
  <2> QED
    BY <2>1, <2>2, OfferAssumption
<1>5. (p = "none") = (q = "none")
  BY <1>2, NamesOfCopies DEF Plain, EndsIn
<1> QED
  BY <1>3, <1>4, <1>5

(* GetTrackByName finds the track it is asked for, and only that one.       *)
LEMMA TrackNames ==
  ASSUME NEW t \in AssetTracks
  PROVE  /\ t.name \in Seq(Parts) /\ t.name # << >>
         /\ ~EndsIn(t.name, LocmafTrackSuffix)
         /\ t.type \in {"video", "audio"} /\ t.protection \in Protections
         /\ t.bitrate \in Nat
         /\ t.name # CatalogName /\ t.name \notin Subtitles
<1>1. PICK f \in Files, p \in Protections : t = TrackOf(f, p)
  BY TracksMade
<1>2. /\ t.name = NameOf(f, p) /\ t.type = f.type /\ t.protection = p
      /\ t.bitrate = f.bitrate
  BY <1>1 DEF TrackOf
<1>3. CASE p = "none"
  <2>1. t.name = f.name
    BY <1>2, <1>3 DEF NameOf
  <2>2. t.name # CatalogName /\ t.name \notin Subtitles
    BY <2>1, OfferAssumption
  <2> QED
    BY <1>2, <2>2, NamesOfCopies, FilesPlain
<1>4. CASE p # "none"
  <2>1. SuffixOf(p) \in Suffixes /\ EndsIn(t.name, SuffixOf(p))
    BY <1>2, <1>4, NamesOfCopies DEF SuffixOf, Suffixes
  <2>2. t.name \notin Subtitles
    BY <2>1, SubtitlesPlain DEF Plain, EndsIn
  <2>3. t.name # CatalogName
    <3>1. CatalogName # << >> /\ CatalogName[Len(CatalogName)] = "catalog"
      BY DEF CatalogName
    <3>2. "catalog" \notin Suffixes
      BY DEF Suffixes, LocmafTrackSuffix
    <3> QED
      BY <2>1, <3>1, <3>2 DEF EndsIn
  <2> QED
    BY <1>2, <2>2, <2>3, NamesOfCopies, FilesPlain
<1> QED
  BY <1>3, <1>4

LEMMA NamesDistinct ==
  ASSUME NEW t \in AssetTracks, NEW u \in AssetTracks, t.name = u.name
  PROVE  t = u
<1>1. PICK f \in Files, p \in Protections : t = TrackOf(f, p)
  BY TracksMade
<1>2. PICK g \in Files, q \in Protections : u = TrackOf(g, q)
  BY TracksMade
<1>3. NameOf(f, p) = NameOf(g, q)
  BY <1>1, <1>2 DEF TrackOf
<1> QED
  BY <1>1, <1>2, <1>3, CopiesApart

LEMMA OneTrackNamed ==
  ASSUME NEW t \in AssetTracks
  PROVE  TracksNamed(t.name) = {t}
BY NamesDistinct DEF TracksNamed
-----------------------------------------------------------------------------
(* Namespaces                                                               *)

ClearLOC == NamespaceEntry("msf/clear", "loc", GenLOCCatalogEntry, NoTracks)
MoqMI == NamespaceEntry("moq-mi/clear", "moqmi", {}, BuildMoqMITrackMap)
ClearCMAF == NamespaceEntry("cmsf/clear", "cmaf", GenCMAFCatalogEntry("none"), NoTracks)
DRMCMAF == NamespaceEntry("cmsf/drm", "cmaf", GenCMAFCatalogEntry("drm"), NoTracks)
ECCPCMAF == NamespaceEntry("cmsf/eccp", "cmaf", GenCMAFCatalogEntry("eccp"), NoTracks)

(* Everything that may be configured. *)
Configurable ==
  {ClearLOC, ClearCMAF, DRMCMAF, ECCPCMAF} \union (IF HasMoqMI THEN {MoqMI} ELSE {})

LEMMA WhenSeq ==
  ASSUME NEW S, NEW e, NEW c \in BOOLEAN, c => e \in S
  PROVE  When(c, e) \in Seq(S)
BY DEF When

LEMMA NamespacesSeq == Namespaces \in Seq(Configurable)
<1> DEFINE a == When(GenLOCCatalogEntry # {}, ClearLOC)
           b == When(HasMoqMI, MoqMI)
           c == <<ClearCMAF>>
           d == When(DRM, DRMCMAF)
           e == When(ECCP, ECCPCMAF)
<1>1. Namespaces = a \o b \o c \o d \o e
  BY DEF Namespaces, ClearLOC, MoqMI, ClearCMAF, DRMCMAF, ECCPCMAF
<1>2. HasMoqMI \in BOOLEAN /\ DRM \in BOOLEAN /\ ECCP \in BOOLEAN
  BY OfferAssumption DEF HasMoqMI
<1>3. /\ ClearLOC \in Configurable /\ ClearCMAF \in Configurable
      /\ DRMCMAF \in Configurable /\ ECCPCMAF \in Configurable
      /\ HasMoqMI => MoqMI \in Configurable
  BY DEF Configurable
<1>4. a \in Seq(Configurable) /\ b \in Seq(Configurable) /\ d \in Seq(Configurable)
      /\ e \in Seq(Configurable)
  BY <1>2, <1>3, WhenSeq
<1>5. c \in Seq(Configurable)
  BY <1>3
<1> HIDE DEF a, b, c, d, e
<1> QED
  BY <1>1, <1>4, <1>5, ConcatProperties

LEMMA NamespacesLen == Len(Namespaces) \in Nat /\ DOMAIN Namespaces = 1 .. Len(Namespaces)
BY NamespacesSeq, LenProperties

(* The entry of a namespace is that of one of the five.                     *)
LEMMA EntryFound ==
  ASSUME NEW n, NEW e \in FindNamespace(n)
  PROVE  e \in Configurable /\ e.namespace = n
<1>1. PICK i \in DOMAIN Namespaces : e = Namespaces[i] /\ Namespaces[i].namespace = n
  BY DEF FindNamespace
<1>2. Namespaces[i] \in Configurable
  BY NamespacesSeq, NamespacesLen, ElementOfSeq
<1> QED
  BY <1>1, <1>2

LEMMA EntryFields ==
  /\ ClearLOC.namespace = "msf/clear" /\ ClearLOC.packaging = "loc"
  /\ ClearLOC.catalog = GenLOCCatalogEntry
  /\ MoqMI.namespace = "moq-mi/clear" /\ MoqMI.packaging = "moqmi"
  /\ MoqMI.catalog = {} /\ MoqMI.moqmiTracks = BuildMoqMITrackMap
  /\ ClearCMAF.namespace = "cmsf/clear" /\ ClearCMAF.packaging = "cmaf"
  /\ ClearCMAF.catalog = GenCMAFCatalogEntry("none")
  /\ DRMCMAF.namespace = "cmsf/drm" /\ DRMCMAF.packaging = "cmaf"
  /\ DRMCMAF.catalog = GenCMAFCatalogEntry("drm")
  /\ ECCPCMAF.namespace = "cmsf/eccp" /\ ECCPCMAF.packaging = "cmaf"
  /\ ECCPCMAF.catalog = GenCMAFCatalogEntry("eccp")
BY DEF ClearLOC, MoqMI, ClearCMAF, DRMCMAF, ECCPCMAF, NamespaceEntry

LEMMA OneEntry ==
  ASSUME NEW n, NEW d \in FindNamespace(n), NEW e \in FindNamespace(n)
  PROVE  d = e
<1>1. /\ d \in Configurable /\ d.namespace = n
      /\ e \in Configurable /\ e.namespace = n
  BY EntryFound
<1> QED
  BY <1>1, EntryFields DEF Configurable

LEMMA NoInteropEntry == FindNamespace(InteropNamespace) = {}
BY EntryFound, EntryFields DEF Configurable, InteropNamespace
-----------------------------------------------------------------------------
(* Catalogs                                                                 *)

(* A name with the LOCMAF suffix is no other name.                          *)
LEMMA LocmafNames ==
  ASSUME NEW t \in AssetTracks
  PROVE  /\ LocmafName(t.name) \in Seq(Parts)
         /\ EndsIn(LocmafName(t.name), LocmafTrackSuffix)
         /\ SubSeq(LocmafName(t.name), 1, Len(LocmafName(t.name)) - 1) = t.name
         /\ LocmafName(t.name) # CatalogName
         /\ LocmafName(t.name) \notin Subtitles
<1>1. LocmafTrackSuffix \in Suffixes /\ t.name \in Seq(Parts) /\ t.name # << >>
  BY TrackNames DEF Suffixes
<1>2. /\ LocmafName(t.name) \in Seq(Parts)
      /\ EndsIn(LocmafName(t.name), LocmafTrackSuffix)
      /\ SubSeq(LocmafName(t.name), 1, Len(LocmafName(t.name)) - 1) = t.name
  BY <1>1, Appended DEF LocmafName, EndsIn
<1>3. LocmafName(t.name) # CatalogName
  BY <1>2 DEF EndsIn, CatalogName, LocmafTrackSuffix
<1>4. LocmafName(t.name) \notin Subtitles
  BY <1>1, <1>2, SubtitlesPlain DEF Plain, EndsIn
<1> QED
  BY <1>2, <1>3, <1>4

LEMMA LocmafNamesDistinct ==
  ASSUME NEW t \in AssetTracks, NEW u \in AssetTracks,
         LocmafName(t.name) = LocmafName(u.name)
  PROVE  t = u
BY LocmafNames, NamesDistinct

(* What a catalog lists is a track of the asset, under its name or its      *)
(* LOCMAF name, or a subtitle track.                                        *)
Lists(c, t) ==
  \/ \E p \in {"cmaf", "loc"} : c = CatalogTrack(t, t.name, p)
  \/ c = CatalogTrack(t, LocmafName(t.name), "locmaf")

LEMMA ListedFields ==
  ASSUME NEW c, NEW t \in AssetTracks, Lists(c, t)
  PROVE  /\ c.role = t.type /\ c.protected = (t.protection # "none")
         /\ \/ c.name = t.name /\ c.packaging \in {"cmaf", "loc"}
            \/ c.name = LocmafName(t.name) /\ c.packaging = "locmaf"
         /\ c.name # CatalogName /\ c.name \notin Subtitles
<1>1. /\ c.role = t.type /\ c.protected = (t.protection # "none")
      /\ \/ c.name = t.name /\ c.packaging \in {"cmaf", "loc"}
         \/ c.name = LocmafName(t.name) /\ c.packaging = "locmaf"
  BY DEF Lists, CatalogTrack
<1> QED
  BY <1>1, TrackNames, LocmafNames

LEMMA CMAFLists ==
  ASSUME NEW p, NEW c \in GenCMAFCatalogEntry(p)
  PROVE  \/ \E t \in AssetTracks :
               t.protection = p /\ Lists(c, t) /\ c.packaging \in {"cmaf", "locmaf"}
         \/ \E n \in Subtitles : c = SubtitleEntry(n)
<1>1. ASSUME NEW t \in AssetTracks, c = CatalogTrack(t, t.name, "cmaf")
      PROVE  Lists(c, t) /\ c.packaging = "cmaf"
  BY <1>1 DEF Lists, CatalogTrack
<1>2. ASSUME NEW t \in AssetTracks, c = CatalogTrack(t, LocmafName(t.name), "locmaf")
      PROVE  Lists(c, t) /\ c.packaging = "locmaf"
  BY <1>2 DEF Lists, CatalogTrack
<1> QED
  BY <1>1, <1>2 DEF GenCMAFCatalogEntry

LEMMA LOCLists ==
  ASSUME NEW c \in GenLOCCatalogEntry
  PROVE  \E t \in AssetTracks :
           /\ t.protection = "none" /\ Lists(c, t)
           /\ c.name = t.name /\ c.packaging = "loc"
BY DEF GenLOCCatalogEntry, Lists, CatalogTrack

(* A catalog lists a name once.                                             *)
LEMMA ListedOnce ==
  ASSUME NEW c, NEW d, NEW t \in AssetTracks, NEW u \in AssetTracks,
         Lists(c, t), Lists(d, u), c.name = d.name,
         c.packaging = d.packaging \/ {c.packaging, d.packaging} \subseteq {"cmaf", "locmaf"}
  PROVE  c = d
<1>1. ASSUME NEW v \in AssetTracks, NEW w \in AssetTracks
      PROVE  LocmafName(v.name) # w.name
  BY LocmafNames, TrackNames
<1>2. CASE c.name = t.name
  <2>1. c.packaging \in {"cmaf", "loc"}
    BY <1>1, <1>2, ListedFields
  <2>2. d.name = u.name
    BY <1>1, <1>2, ListedFields
  <2>3. t = u
    BY <1>2, <2>2, NamesDistinct
  <2>4. d.packaging \in {"cmaf", "loc"}
    BY <1>1, <2>2, ListedFields
  <2>5. d.packaging = c.packaging
    BY <2>1, <2>4
  <2>6. c = CatalogTrack(t, t.name, c.packaging)
    BY <2>1 DEF Lists, CatalogTrack
  <2>7. d = CatalogTrack(u, u.name, d.packaging)
    BY <2>4 DEF Lists, CatalogTrack
  <2> QED
    BY <2>3, <2>5, <2>6, <2>7
<1>3. CASE c.name = LocmafName(t.name)
  <2>1. c.packaging = "locmaf"
    BY <1>1, <1>3, ListedFields
  <2>2. d.name = LocmafName(u.name) /\ d.packaging = "locmaf"
    BY <1>1, <1>3, ListedFields
  <2>3. t = u
    BY <1>3, <2>2, LocmafNamesDistinct
  <2>4. c = CatalogTrack(t, LocmafName(t.name), "locmaf")
    BY <2>1 DEF Lists, CatalogTrack
  <2>5. d = CatalogTrack(u, LocmafName(u.name), "locmaf")
    BY <2>2 DEF Lists, CatalogTrack
  <2> QED
    BY <2>3, <2>4, <2>5
<1> QED
  BY <1>2, <1>3, ListedFields

(* The first of some tracks by bitrate is one of them.                      *)
LEMMA FirstOfThem ==
  ASSUME NEW tracks \in SUBSET AssetTracks, tracks # {}
  PROVE  FirstOf(tracks) \in tracks
<1> DEFINE rates == {t.bitrate : t \in tracks}
<1>1. rates \subseteq Nat /\ rates # {}
  BY TrackNames
<1>2. PICK x \in rates : \A y \in rates : ~ (<<y, x>> \in OpToRel(<, Nat))
  BY <1>1, WFMin, NatLessThanWellFounded
<1>3. \A y \in rates : x <= y
  <2> SUFFICES ASSUME NEW y \in rates, ~(x <= y)
               PROVE  FALSE
    OBVIOUS
  <2>1. x \in Nat /\ y \in Nat /\ y < x
    BY <1>1
  <2> DEFINE yx == <<y, x>>
  <2>2. yx \in Nat \X Nat /\ yx[1] < yx[2]
    BY <2>1
  <2>3. ~ (yx \in OpToRel(<, Nat))
    BY <1>2
  <2> HIDE DEF yx
  <2> QED
    BY <2>2, <2>3 DEF OpToRel
<1>4. PICK t \in tracks : x = t.bitrate
  OBVIOUS
<1>5. \A u \in tracks : t.bitrate <= u.bitrate
  BY <1>3, <1>4
<1> QED
  BY <1>5 DEF FirstOf
-----------------------------------------------------------------------------

(* What is known of the requests' variables without looking at what is     *)
(* offered: types, and what a handler has done when it is at a given place. *)
RequestTypes ==
  /\ message \in [Requests -> Messages]
  /\ rpc \in [Requests ->
               {"unsent", "called", "open", "write", "close", "returned"}]
  /\ answers \in [Requests -> Seq({"accepted", "rejected"})]
  /\ failed \in [Requests -> BOOLEAN]
  /\ objects \in [Requests -> Nat]
  /\ fin \in [Requests -> BOOLEAN]

(* Before the answer nothing has happened; the catalog's stream is handled  *)
(* after one answer, for a message that is answered with a catalog.         *)
Progress(r) ==
  /\ rpc[r] \in {"unsent", "called"} =>
       answers[r] = << >> /\ ~failed[r] /\ objects[r] = 0
  /\ rpc[r] \in {"open", "write", "close"} =>
       /\ Len(answers[r]) = 1
       /\ message[r].method # "announce"
  /\ rpc[r] \in {"open", "write"} => objects[r] = 0
  /\ rpc[r] = "close" => (objects[r] = 1 <=> Covered(r))
  /\ rpc[r] # "returned" => ~fin[r]
  /\ rpc[r] = "returned" =>
       /\ Len(answers[r]) <= 1
       /\ ~failed[r] => Len(answers[r]) = 1
       /\ fin[r] =>
            (objects[r] = 1 <=> Covered(r)) /\ message[r].method # "announce"

IInv == RequestTypes /\ \A r \in Requests : Progress(r)
-----------------------------------------------------------------------------
(* Ranges                                                                   *)

(* A range to the end of a group is one to the start of the next.           *)
LEMMA InRange ==
  ASSUME NEW loc \in Location, NEW start \in Location, NEW end \in Location
  PROVE  LocationInFetchRange(loc, start, end) <=>
           /\ ~LocationLess(loc, start)
           /\ LocationLess(loc, EndOf(end))
BY DEF Location, LocationInFetchRange, LocationLess, EndOf

(* Locations are ordered.                                                   *)
LEMMA LessTransitive ==
  ASSUME NEW a \in Location, NEW b \in Location, NEW c \in Location,
         ~LocationLess(b, a), ~LocationLess(c, b)
  PROVE  ~LocationLess(c, a)
BY DEF Location, LocationLess

LEMMA EndOfType == \A b \in Location : EndOf(b) \in Location
BY DEF Location, EndOf

(* A FETCH range cut in two covers every location once.                     *)
LEMMA Cut ==
  ASSUME NEW loc \in Location, NEW start \in Location, NEW b \in Location,
         NEW end \in Location
  PROVE  CutsInTwo(loc, start, b, end)
<1> DEFINE B == EndOf(b)
           E == EndOf(end)
<1> SUFFICES ASSUME ~LocationLess(B, start), ~LocationLess(E, B)
             PROVE  LocationInFetchRange(loc, start, end) <=>
                      ~(LocationInFetchRange(loc, start, b) <=>
                          LocationInFetchRange(loc, B, end))
  BY DEF CutsInTwo
<1>1. B \in Location /\ E \in Location
  BY EndOfType
<1>2. /\ LocationInFetchRange(loc, start, end) <=>
           ~LocationLess(loc, start) /\ LocationLess(loc, E)
      /\ LocationInFetchRange(loc, start, b) <=>
           ~LocationLess(loc, start) /\ LocationLess(loc, B)
      /\ LocationInFetchRange(loc, B, end) <=>
           ~LocationLess(loc, B) /\ LocationLess(loc, E)
  BY <1>1, InRange
<1> HIDE DEF B, E
<1>3. ~LocationLess(loc, B) => ~LocationLess(loc, start)
  BY <1>1, LessTransitive
<1>4. ~LocationLess(loc, E) => ~LocationLess(loc, B)
  BY <1>1, LessTransitive
<1> QED
  BY <1>2, <1>3, <1>4

(* The catalog, at {0, 0}, is in a range if and only if the range starts    *)
(* there: a range that ends at {0, 0} includes the group.                   *)
LEMMA CatalogInRange ==
  ASSUME NEW start \in Location, NEW end \in Location
  PROVE  LocationInFetchRange(CatalogLocation, start, end) <=>
           start = CatalogLocation
BY DEF Location, LocationInFetchRange, LocationLess, CatalogLocation
-----------------------------------------------------------------------------
(* The invariant                                                            *)

LEMMA InitInv == Init => IInv
BY DEF Init, IInv, RequestTypes, Progress

LEMMA OutcomesBoolean == Outcomes \subseteq BOOLEAN
BY DEF Outcomes

(* A request whose variables stay as they are stays where it is.            *)
LEMMA Frame ==
  ASSUME NEW r \in Requests, Progress(r), message' = message,
         rpc'[r] = rpc[r], answers'[r] = answers[r], failed'[r] = failed[r],
         objects'[r] = objects[r], fin'[r] = fin[r]
  PROVE  Progress(r)'
BY DEF Progress, Covered

(* Every branch that answers: the handler returns or goes on to open the    *)
(* catalog's stream.                                                        *)
LEMMA AnswerInv ==
  ASSUME IInv, NEW r \in Requests, rpc[r] = "called",
         NEW ok \in BOOLEAN, NEW a \in {"accepted", "rejected"},
         NEW loc \in {"open", "returned"},
         loc = "open" => message[r].method # "announce",
         Call(r, ok, loc), Answer(r, ok, a),
         UNCHANGED <<message, objects, fin>>
  PROVE  IInv'
<1>1. /\ rpc' = [rpc EXCEPT ![r] = IF ok THEN loc ELSE "returned"]
      /\ failed' = [failed EXCEPT ![r] = failed[r] \/ ~ok]
      /\ answers' = [answers EXCEPT ![r] = IF ok THEN Append(answers[r], a) ELSE answers[r]]
  BY DEF Call, Answer
<1>2. RequestTypes /\ Progress(r)
  BY DEF IInv
<1>3. RequestTypes'
  BY <1>1, <1>2 DEF RequestTypes
<1>4. answers[r] = << >> /\ ~failed[r] /\ objects[r] = 0 /\ ~fin[r]
  BY <1>2 DEF Progress
<1>5. /\ objects'[r] = 0 /\ ~fin'[r]
      /\ ok => rpc'[r] = loc /\ answers'[r] = <<a>>
      /\ ~ok => rpc'[r] = "returned" /\ answers'[r] = << >>
  BY <1>1, <1>2, <1>4 DEF RequestTypes
<1>6. ~ok => failed'[r]
  BY <1>1, <1>2 DEF RequestTypes
<1>7. Len(<<a>>) = 1 /\ Len(<< >>) = 0
  OBVIOUS
<1>8. Progress(r)'
  <2>1. CASE ok /\ loc = "open"
    <3>1. rpc'[r] = "open" /\ Len(answers'[r]) = 1 /\ message'[r].method # "announce"
      BY <1>5, <1>7, <2>1
    <3> QED
      BY <3>1, <1>5 DEF Progress
  <2>2. CASE ok /\ loc = "returned"
    <3>1. rpc'[r] = "returned" /\ Len(answers'[r]) = 1
      BY <1>5, <1>7, <2>2
    <3> QED
      BY <3>1, <1>5 DEF Progress
  <2>3. CASE ~ok
    <3>1. rpc'[r] = "returned" /\ Len(answers'[r]) = 0
      BY <1>5, <1>7, <2>3
    <3> QED
      BY <3>1, <1>5, <1>6, <2>3 DEF Progress
  <2> QED
    BY <2>1, <2>2, <2>3
<1>9. ASSUME NEW s \in Requests, s # r PROVE Progress(s)'
  BY <1>1, <1>2, <1>9, Frame DEF IInv, RequestTypes
<1> QED
  BY <1>3, <1>8, <1>9 DEF IInv

LEMMA RejectInv ==
  ASSUME IInv, NEW r \in Requests, rpc[r] = "called", Reject(r)
  PROVE  IInv'
<1>1. PICK ok \in Outcomes : Call(r, ok, "returned") /\ Answer(r, ok, "rejected")
  BY DEF Reject
<1> QED
  BY <1>1, OutcomesBoolean, AnswerInv DEF Reject

LEMMA AcceptInv ==
  ASSUME IInv, NEW r \in Requests, rpc[r] = "called", NEW served,
         NEW loc \in {"open", "returned"},
         loc = "open" => message[r].method # "announce",
         AcceptServing(r, served, loc)
  PROVE  IInv'
<1>1. PICK ok \in Outcomes : Call(r, ok, loc) /\ Answer(r, ok, "accepted")
  BY DEF AcceptServing
<1> QED
  BY <1>1, OutcomesBoolean, AnswerInv DEF AcceptServing

LEMMA ReceiveInv ==
  ASSUME IInv, NEW r \in Requests, Receive(r)
  PROVE  IInv'
<1>1. RequestTypes /\ RequestTypes'
  BY DEF IInv, RequestTypes, Receive
<1>2. Progress(r)'
  BY <1>1 DEF IInv, RequestTypes, Progress, Receive
<1>3. ASSUME NEW s \in Requests, s # r PROVE Progress(s)'
  BY <1>1, <1>3, Frame DEF IInv, RequestTypes, Receive
<1> QED
  BY <1>1, <1>2, <1>3 DEF IInv

LEMMA OpenInv ==
  ASSUME IInv, NEW r \in Requests, OpenCatalogStream(r)
  PROVE  IInv'
<1>1. PICK ok \in BOOLEAN : Call(r, ok, "write")
  BY OutcomesBoolean DEF OpenCatalogStream
<1>2. RequestTypes /\ RequestTypes'
  BY <1>1 DEF IInv, RequestTypes, OpenCatalogStream, Call
<1>3. Progress(r)'
  <2>1. /\ Len(answers'[r]) = 1 /\ message'[r].method # "announce"
        /\ objects'[r] = 0 /\ ~fin'[r]
    BY <1>2 DEF IInv, Progress, OpenCatalogStream
  <2>2. rpc'[r] = "write" \/ rpc'[r] = "returned"
    BY <1>1, <1>2 DEF RequestTypes, Call
  <2> QED
    BY <2>1, <2>2 DEF Progress
<1>4. ASSUME NEW s \in Requests, s # r PROVE Progress(s)'
  BY <1>1, <1>2, <1>4, Frame DEF IInv, RequestTypes, OpenCatalogStream, Call
<1> QED
  BY <1>2, <1>3, <1>4 DEF IInv

LEMMA WriteInv ==
  ASSUME IInv, NEW r \in Requests, WriteCatalog(r)
  PROVE  IInv'
<1>1. PICK ok \in BOOLEAN :
        /\ Call(r, ok, "close")
        /\ ~Covered(r) => ok
        /\ objects' = [objects EXCEPT ![r] =
                        IF Covered(r) /\ ok THEN objects[r] + 1 ELSE objects[r]]
  <2>1. CASE Covered(r)
    BY <2>1, OutcomesBoolean DEF WriteCatalog
  <2>2. CASE ~Covered(r)
    <3>1. objects' = [objects EXCEPT ![r] = objects[r]]
      BY <2>2 DEF WriteCatalog, IInv, RequestTypes
    <3> QED
      BY <2>2, <3>1 DEF WriteCatalog
  <2> QED
    BY <2>1, <2>2
<1>2. RequestTypes /\ RequestTypes'
  BY <1>1 DEF IInv, RequestTypes, WriteCatalog, Call
<1>3. Progress(r)'
  <2>1. /\ Len(answers'[r]) = 1 /\ message'[r].method # "announce"
        /\ ~fin'[r] /\ objects[r] = 0
    BY <1>2 DEF IInv, Progress, WriteCatalog
  <2>2. Covered(r)' <=> Covered(r)
    BY DEF WriteCatalog, Covered
  <2>3. CASE ok
    <3>1. rpc'[r] = "close" /\ (objects'[r] = 1 <=> Covered(r))
      BY <1>1, <1>2, <2>1, <2>3 DEF RequestTypes, Call
    <3> QED
      BY <2>1, <2>2, <3>1 DEF Progress
  <2>4. CASE ~ok
    <3>1. rpc'[r] = "returned"
      BY <1>1, <1>2, <2>4 DEF RequestTypes, Call
    <3> QED
      BY <2>1, <3>1 DEF Progress
  <2> QED
    BY <2>3, <2>4
<1>4. ASSUME NEW s \in Requests, s # r PROVE Progress(s)'
  BY <1>1, <1>2, <1>4, Frame DEF IInv, RequestTypes, WriteCatalog, Call
<1> QED
  BY <1>2, <1>3, <1>4 DEF IInv

LEMMA CloseInv ==
  ASSUME IInv, NEW r \in Requests, CloseCatalogStream(r)
  PROVE  IInv'
<1>1. PICK ok \in BOOLEAN :
        Call(r, ok, "returned") /\ fin' = [fin EXCEPT ![r] = ok]
  BY OutcomesBoolean DEF CloseCatalogStream
<1>2. RequestTypes /\ RequestTypes'
  BY <1>1 DEF IInv, RequestTypes, CloseCatalogStream, Call
<1>3. Progress(r)'
  <2>1. /\ Len(answers'[r]) = 1 /\ message'[r].method # "announce"
        /\ objects'[r] = 1 <=> Covered(r)
    BY <1>2 DEF IInv, Progress, CloseCatalogStream
  <2>2. Covered(r)' <=> Covered(r)
    BY DEF CloseCatalogStream, Covered
  <2>3. rpc'[r] = "returned"
    BY <1>1, <1>2 DEF RequestTypes, Call
  <2> QED
    BY <2>1, <2>2, <2>3 DEF Progress
<1>4. ASSUME NEW s \in Requests, s # r PROVE Progress(s)'
  BY <1>1, <1>2, <1>4, Frame DEF IInv, RequestTypes, CloseCatalogStream, Call
<1> QED
  BY <1>2, <1>3, <1>4 DEF IInv

(* The handler of one request, branch by branch.                            *)
LEMMA HandlerInv ==
  ASSUME IInv, NEW r \in Requests, HandlerStep(r)
  PROVE  IInv'
<1>1. CASE HandleAnnounce(r)
  <2>1. rpc[r] = "called"
    BY <1>1 DEF HandleAnnounce, Called
  <2> QED
    BY <1>1, <2>1, AcceptInv, RejectInv DEF HandleAnnounce
<1>2. CASE RejectFetch(r)
  BY <1>2, RejectInv DEF RejectFetch, Called
<1>3. CASE AcceptFetch(r)
  BY <1>3, AcceptInv DEF AcceptFetch, Called
<1>4. CASE SubscribeInterop(r)
  BY <1>4, AcceptInv DEF SubscribeInterop, Called
<1>5. CASE SubscribeUnknown(r)
  BY <1>5, RejectInv DEF SubscribeUnknown, Called
<1>6. CASE SubscribeMoqMI(r)
  <2>1. /\ rpc[r] = "called"
        /\ Reject(r) \/ \E served : AcceptServing(r, served, "returned")
    BY <1>6 DEF SubscribeMoqMI, SubscribeIn, Called
  <2> QED
    BY <2>1, AcceptInv, RejectInv
<1>7. CASE SubscribeCatalog(r)
  <2>1. /\ rpc[r] = "called" /\ message[r].method # "announce"
        /\ AcceptServing(r, {}, "open")
    BY <1>7 DEF SubscribeCatalog, SubscribeIn, Called
  <2> QED
    BY <2>1, AcceptInv
<1>8. CASE SubscribeSubtitle(r)
  <2>1. /\ rpc[r] = "called"
        /\ \E served : AcceptServing(r, served, "returned")
    BY <1>8 DEF SubscribeSubtitle, SubscribeIn, Called
  <2> QED
    BY <2>1, AcceptInv
<1>9. CASE SubscribeMedia(r)
  <2>1. /\ rpc[r] = "called"
        /\ Reject(r) \/ \E served : AcceptServing(r, served, "returned")
    BY <1>9 DEF SubscribeMedia, SubscribeIn, Called
  <2> QED
    BY <2>1, AcceptInv, RejectInv
<1>10. CASE OpenCatalogStream(r)
  BY <1>10, OpenInv
<1>11. CASE WriteCatalog(r)
  BY <1>11, WriteInv
<1>12. CASE CloseCatalogStream(r)
  BY <1>12, CloseInv
<1> QED
  BY <1>1, <1>2, <1>3, <1>4, <1>5, <1>6, <1>7, <1>8, <1>9, <1>10, <1>11, <1>12
     DEF HandlerStep

LEMMA RequestsUnchanged ==
  ASSUME IInv, UNCHANGED requestVars
  PROVE  IInv'
BY DEF IInv, RequestTypes, Progress, Covered, requestVars

LEMMA NextInv ==
  ASSUME IInv, [Next]_vars
  PROVE  IInv'
<1>1. CASE HandleStep
  <2>1. UNCHANGED requestVars
    BY <1>1 DEF HandleStep, RunSession, Announce, AnnounceAccepted, AnnounceFails,
                HandleEnds
  <2> QED
    BY <2>1, RequestsUnchanged
<1>2. CASE PeerReplies \/ Cancel \/ PeerGone
  <2>1. UNCHANGED requestVars
    BY <1>2 DEF PeerReplies, Cancel, PeerGone
  <2> QED
    BY <2>1, RequestsUnchanged
<1>3. CASE \E r \in Requests : Receive(r) \/ HandlerStep(r)
  BY <1>3, ReceiveInv, HandlerInv
<1>4. CASE UNCHANGED vars
  BY <1>4, RequestsUnchanged DEF vars
<1> QED
  BY <1>1, <1>2, <1>3, <1>4 DEF Next

THEOREM Inductive == Spec => []IInv
<1>1. Init => IInv
  BY InitInv
<1>2. IInv /\ [Next]_vars => IInv'
  BY NextInv
<1> QED
  BY <1>1, <1>2, PTL DEF Spec
-----------------------------------------------------------------------------
(* The properties                                                           *)

(* A request is answered once, whatever fails: no branch of a handler       *)
(* answers twice or returns without an answer (pub.go:81 to 323).           *)
THEOREM OneAnswer == Spec => []AnsweredOnce
<1>1. IInv => AnsweredOnce
  <2> SUFFICES ASSUME IInv, NEW r \in Requests
               PROVE  /\ Len(answers[r]) <= 1
                      /\ rpc[r] = "returned" /\ ~failed[r] => Len(answers[r]) = 1
    BY DEF AnsweredOnce
  <2>1. RequestTypes /\ Progress(r)
    BY DEF IInv
  <2>2. CASE rpc[r] \in {"unsent", "called"}
    <3>1. answers[r] = << >>
      BY <2>1, <2>2 DEF Progress
    <3> QED
      BY <2>2, <3>1
  <2>3. CASE rpc[r] \in {"open", "write", "close"}
    <3>1. Len(answers[r]) = 1
      BY <2>1, <2>3 DEF Progress
    <3> QED
      BY <2>3, <3>1
  <2>4. CASE rpc[r] = "returned"
    BY <2>1, <2>4 DEF Progress
  <2> QED
    BY <2>1, <2>2, <2>3, <2>4 DEF RequestTypes
<1> QED
  BY <1>1, Inductive, PTL

(* A catalog stream that was ended carries the catalog unless a FETCH asked *)
(* for a range without it (pub.go:172 to 200 and 264 to 285).               *)
THEOREM FinIsCatalog == Spec => []FinMeansCatalog
<1>1. IInv => FinMeansCatalog
  <2> SUFFICES ASSUME IInv, NEW r \in Requests, fin[r]
               PROVE  (objects[r] = 1) = (\/ message[r].method = "subscribe"
                                          \/ message[r].start = CatalogLocation)
    BY DEF FinMeansCatalog
  <2>1. RequestTypes /\ Progress(r)
    BY DEF IInv
  <2>2. (objects[r] = 1 <=> Covered(r)) /\ message[r].method # "announce"
    BY <2>1 DEF Progress
  <2>3. message[r] \in Message
    BY <2>1, MessagesAssumption DEF RequestTypes
  <2>4. Covered(r) <=> (message[r].method = "fetch" =>
                          message[r].start = CatalogLocation)
    BY <2>3, CatalogInRange DEF Covered, Message
  <2> QED
    BY <2>2, <2>3, <2>4 DEF Message
<1> QED
  BY <1>1, Inductive, PTL

(* Both together: one answer, and the whole catalog after it.               *)
THEOREM AnswersInFull == Spec => []AnsweredInFull
<1>1. AnsweredOnce /\ FinMeansCatalog => AnsweredInFull
  BY DEF AnsweredInFull
<1> QED
  BY <1>1, OneAnswer, FinIsCatalog, PTL

(* FETCH ranges cut in two partition what the whole range covers            *)
(* (locationInFetchRange, pub.go:126).                                      *)
THEOREM FetchesPartition == Spec => []FetchRangesPartition
<1>1. IInv => FetchRangesPartition
  <2> SUFFICES ASSUME IInv, NEW r \in Requests,
                      NEW b \in [group : 0 .. message[r].end.group + 1,
                                 object : 0 .. message[r].end.object + 1],
                      NEW loc \in [group : 0 .. message[r].end.group + 1,
                                   object : 0 .. message[r].end.object + 1]
               PROVE  CutsInTwo(loc, message[r].start, b, message[r].end)
    BY DEF FetchRangesPartition
  <2>1. message[r] \in Message
    BY MessagesAssumption DEF IInv, RequestTypes
  <2>2. message[r].start \in Location /\ message[r].end \in Location
    BY <2>1 DEF Message
  <2>3. b \in Location /\ loc \in Location
    BY DEF Location
  <2> QED
    BY <2>2, <2>3, Cut
<1> QED
  BY <1>1, Inductive, PTL
-----------------------------------------------------------------------------
(* What a handler may start                                                 *)

Servable ==
  [packaging : {"cmaf", "locmaf", "loc", "moqmi", "subtitle"},
   track : AssetTracks \union {SubtitleTrack(n) : n \in Subtitles}]

(* The two halves of MediaAsListed for one request and what is served. *)
Honours(r, served) ==
  \A e \in Entries(r) : \A c \in e.catalog : c.name = message[r].track =>
    \E s \in served : served = {s} /\ ServedAsListed(c, s)

Keeps(r, served) ==
  \A s \in served : s.packaging # "subtitle" =>
    s.track.protection = ProtectionOf(message[r].namespace)

(* A subscription that served may answer. *)
Fits(r, served) == served \subseteq Servable /\ Honours(r, served) /\ Keeps(r, served)

LEMMA Trimmed ==
  ASSUME NEW t \in AssetTracks
  PROVE  /\ TrimLocmafSuffix(t.name) = t.name
         /\ TrimLocmafSuffix(LocmafName(t.name)) = t.name
<1>1. TrimLocmafSuffix(t.name) = t.name
  BY TrackNames DEF TrimLocmafSuffix, EndsIn
<1>2. TrimLocmafSuffix(LocmafName(t.name)) = t.name
  BY LocmafNames DEF TrimLocmafSuffix, EndsIn
<1> QED
  BY <1>1, <1>2

(* The entries that have a catalog, their protection and what they list.    *)
LEMMA CatalogEntry ==
  ASSUME NEW n, NEW e \in FindNamespace(n), e.packaging # "moqmi"
  PROVE  \/ /\ e.packaging = "loc" /\ e.catalog = GenLOCCatalogEntry
            /\ ProtectionOf(n) = "none"
         \/ /\ e.packaging = "cmaf" /\ e.catalog = GenCMAFCatalogEntry(ProtectionOf(n))
<1>1. e \in {ClearLOC, ClearCMAF, DRMCMAF, ECCPCMAF} /\ e.namespace = n
  BY EntryFound, EntryFields DEF Configurable
<1>2. CASE e = ClearLOC
  BY <1>1, <1>2, EntryFields DEF ProtectionOf
<1>3. CASE e = ClearCMAF
  BY <1>1, <1>3, EntryFields DEF ProtectionOf
<1>4. CASE e = DRMCMAF
  BY <1>1, <1>4, EntryFields DEF ProtectionOf
<1>5. CASE e = ECCPCMAF
  BY <1>1, <1>5, EntryFields DEF ProtectionOf
<1> QED
  BY <1>1, <1>2, <1>3, <1>4, <1>5

LEMMA MoqMIEntry ==
  ASSUME NEW n, NEW e \in FindNamespace(n), e.packaging = "moqmi"
  PROVE  /\ e = MoqMI /\ HasMoqMI
         /\ e.catalog = {} /\ ProtectionOf(n) = "none"
<1>1. e = MoqMI /\ HasMoqMI /\ e.namespace = n
  BY EntryFound, EntryFields DEF Configurable
<1> QED
  BY <1>1, EntryFields DEF ProtectionOf

(* What the branches with a catalog know of a listed track.                 *)
LEMMA Listing ==
  ASSUME NEW n, NEW e \in FindNamespace(n), e.packaging # "moqmi",
         NEW c \in e.catalog
  PROVE  \/ \E t \in AssetTracks :
               /\ t.protection = ProtectionOf(n) /\ Lists(c, t)
               /\ e.packaging = "loc" => c.packaging = "loc" /\ c.name = t.name
               /\ e.packaging # "loc" => c.packaging \in {"cmaf", "locmaf"}
         \/ \E m \in Subtitles : c = SubtitleEntry(m)
BY CatalogEntry, CMAFLists, LOCLists

LEMMA SubtitleFields ==
  \A m : /\ SubtitleEntry(m).name = m /\ SubtitleEntry(m).packaging = "cmaf"
         /\ SubtitleEntry(m).role = "subtitle" /\ SubtitleEntry(m).protected = FALSE
         /\ SubtitleTrack(m).name = m /\ SubtitleTrack(m).type = "subtitle"
         /\ SubtitleTrack(m).protection = "none"
BY DEF SubtitleEntry, SubtitleTrack

(* No catalog lists the catalog.                                            *)
LEMMA CatalogUnlisted ==
  ASSUME NEW n, NEW e \in FindNamespace(n), NEW c \in e.catalog
  PROVE  c.name # CatalogName
<1>1. CASE e.packaging = "moqmi"
  BY <1>1, MoqMIEntry
<1>2. CASE e.packaging # "moqmi"
  BY <1>2, Listing, ListedFields, SubtitlesPlain, SubtitleFields
<1> QED
  BY <1>1, <1>2

(* The branch for media: the track the listed name was made from, in the    *)
(* packaging listed.                                                        *)
LEMMA MediaFits ==
  ASSUME NEW n, NEW e \in FindNamespace(n), e.packaging # "moqmi",
         NEW c \in e.catalog, c.name \notin Subtitles
  PROVE  \E s \in Servable : /\ MediaServed(e, c) = {s}
                             /\ ServedAsListed(c, s)
                             /\ s.track.protection = ProtectionOf(n)
<1>1. PICK t \in AssetTracks :
        /\ t.protection = ProtectionOf(n) /\ Lists(c, t)
        /\ e.packaging = "loc" => c.packaging = "loc" /\ c.name = t.name
        /\ e.packaging # "loc" => c.packaging \in {"cmaf", "locmaf"}
  BY Listing, SubtitleFields
<1>2. /\ c.role = t.type /\ c.protected = (t.protection # "none")
      /\ \/ c.name = t.name /\ c.packaging \in {"cmaf", "loc"}
         \/ c.name = LocmafName(t.name) /\ c.packaging = "locmaf"
  BY <1>1, ListedFields
<1>3. c.packaging \in {"cmaf", "loc", "locmaf"} /\ t.type # "subtitle"
  BY <1>2, TrackNames
<1> DEFINE s == [packaging |-> c.packaging, track |-> t]
<1>4. MediaServed(e, c) = {s}
  <2>1. TracksNamed(t.name) = {t}
    BY OneTrackNamed
  <2>2. CASE e.packaging = "loc"
    <3>1. MediaServed(e, c) = Serve("loc", TracksNamed(c.name))
      BY <2>2 DEF MediaServed
    <3> QED
      BY <1>1, <2>1, <2>2, <3>1 DEF Serve
  <2>3. CASE e.packaging # "loc"
    <3>1. MediaServed(e, c) = Serve(c.packaging, TracksNamed(TrimLocmafSuffix(c.name)))
      BY <2>3 DEF MediaServed
    <3>2. TrimLocmafSuffix(c.name) = t.name
      BY <1>2, Trimmed
    <3> QED
      BY <2>1, <3>1, <3>2 DEF Serve
  <2> QED
    BY <2>2, <2>3
<1>5. s \in Servable
  BY <1>3 DEF Servable
<1>6. ServedAsListed(c, s)
  BY <1>2, <1>3 DEF ServedAsListed
<1> QED
  BY <1>1, <1>4, <1>5, <1>6

(* Nothing is served: fine for a name that is not listed.                   *)
LEMMA NothingFits ==
  ASSUME NEW r \in Requests,
         \A e \in Entries(r) : \A c \in e.catalog : c.name # message[r].track
  PROVE  Fits(r, {})
BY DEF Fits, Honours, Keeps

LEMMA CatalogFits ==
  ASSUME NEW r \in Requests, message[r].track = CatalogName
  PROVE  Fits(r, {})
BY NothingFits, CatalogUnlisted DEF Entries

LEMMA MoqMIFits ==
  ASSUME NEW r \in Requests, NEW e \in Entries(r), e.packaging = "moqmi"
  PROVE  /\ Fits(r, {})
         /\ \A name \in DOMAIN e.moqmiTracks :
              Fits(r, Serve("moqmi", TracksNamed(e.moqmiTracks[name])))
<1>1. /\ e.catalog = {} /\ ProtectionOf(message[r].namespace) = "none"
      /\ e = MoqMI /\ HasMoqMI
  BY MoqMIEntry DEF Entries
<1>2. \A d \in Entries(r) : d = e
  BY OneEntry DEF Entries
<1>3. \A d \in Entries(r) : d.catalog = {}
  BY <1>1, <1>2
<1>4. Fits(r, {})
  BY <1>3, NothingFits
<1>5. ASSUME NEW name \in DOMAIN e.moqmiTracks
      PROVE  Fits(r, Serve("moqmi", TracksNamed(e.moqmiTracks[name])))
  <2> DEFINE content == IF name = <<"video0">> THEN Clear("avc") ELSE MoqMIAudio
  <2>1. e.moqmiTracks = BuildMoqMITrackMap
    BY <1>1, EntryFields
  <2>2. /\ e.moqmiTracks[name] = FirstOf(content).name
        /\ name = <<"video0">> \/ MoqMIAudio # {}
    BY <2>1, <1>5 DEF BuildMoqMITrackMap
  <2>3. content # {} /\ content \subseteq AssetTracks
        /\ \A t \in content : t.protection = "none"
    BY <1>1, <2>2 DEF HasMoqMI, Clear, MoqMIAudio
  <2> HIDE DEF content
  <2>4. PICK t \in content : t = FirstOf(content)
    BY <2>3, FirstOfThem
  <2>5. t \in AssetTracks /\ t.protection = "none"
    BY <2>3
  <2>6. TracksNamed(e.moqmiTracks[name]) = {t}
    BY <2>2, <2>4, <2>5, OneTrackNamed
  <2> DEFINE s == [packaging |-> "moqmi", track |-> t]
  <2>7. Serve("moqmi", TracksNamed(e.moqmiTracks[name])) = {s}
    BY <2>6 DEF Serve
  <2>8. s \in Servable /\ s.track.protection = ProtectionOf(message[r].namespace)
    BY <1>1, <2>5 DEF Servable
  <2>9. Honours(r, {s})
    BY <1>3 DEF Honours
  <2> HIDE DEF s
  <2> QED
    BY <2>7, <2>8, <2>9 DEF Fits, Keeps
<1> QED
  BY <1>4, <1>5

LEMMA SubtitleFits ==
  ASSUME NEW r \in Requests, message[r].track \in Subtitles
  PROVE  Fits(r, Serve("subtitle", {SubtitleTrack(message[r].track)}))
<1> DEFINE m == message[r].track
           s == [packaging |-> "subtitle", track |-> SubtitleTrack(m)]
<1>1. Serve("subtitle", {SubtitleTrack(m)}) = {s}
  BY DEF Serve
<1>2. s \in Servable
  BY DEF Servable
<1>3. s.packaging = "subtitle" /\ s.track = SubtitleTrack(m)
  OBVIOUS
<1>4. ASSUME NEW e \in Entries(r), NEW c \in e.catalog, c.name = m
      PROVE  ServedAsListed(c, s)
  <2>1. e.packaging # "moqmi"
    BY <1>4, MoqMIEntry DEF Entries
  <2>2. c = SubtitleEntry(m)
    BY <1>4, <2>1, Listing, ListedFields, SubtitleFields DEF Entries
  <2>3. /\ c.name = m /\ c.packaging = "cmaf" /\ c.role = "subtitle"
        /\ s.track.name = m /\ s.track.type = "subtitle"
        /\ s.track.protection = "none"
    BY <2>2, SubtitleFields
  <2>4. (s.track.protection # "none") = c.protected
    <3>1. c.protected = FALSE
      BY <2>2, SubtitleFields
    <3> QED
      BY <2>3, <3>1
  <2>5. s.packaging = IF c.role = "subtitle" THEN "subtitle" ELSE c.packaging
    BY <2>3
  <2>6. c.name = IF c.packaging = "locmaf" THEN LocmafName(s.track.name) ELSE s.track.name
    BY <2>3
  <2> HIDE DEF s
  <2> QED
    BY <2>3, <2>4, <2>5, <2>6 DEF ServedAsListed
<1> HIDE DEF s
<1> QED
  BY <1>1, <1>2, <1>3, <1>4 DEF Fits, Honours, Keeps

(* A name that is not that of a subtitle track is listed once or not at     *)
(* all.                                                                     *)
LEMMA OneListed ==
  ASSUME NEW n, NEW e \in FindNamespace(n), e.packaging # "moqmi",
         NEW c \in e.catalog, NEW d \in e.catalog,
         c.name = d.name, c.name \notin Subtitles
  PROVE  c = d
<1>1. PICK t \in AssetTracks :
        /\ Lists(c, t)
        /\ e.packaging = "loc" => c.packaging = "loc"
        /\ e.packaging # "loc" => c.packaging \in {"cmaf", "locmaf"}
  BY Listing, SubtitleFields
<1>2. PICK u \in AssetTracks :
        /\ Lists(d, u)
        /\ e.packaging = "loc" => d.packaging = "loc"
        /\ e.packaging # "loc" => d.packaging \in {"cmaf", "locmaf"}
  BY Listing, SubtitleFields
<1>3. c.packaging = d.packaging \/ {c.packaging, d.packaging} \subseteq {"cmaf", "locmaf"}
  BY <1>1, <1>2
<1> QED
  BY <1>1, <1>2, <1>3, ListedOnce

LEMMA MediaBranchFits ==
  ASSUME NEW r \in Requests, NEW e \in Entries(r), e.packaging # "moqmi",
         message[r].track \notin Subtitles
  PROVE  /\ {c \in e.catalog : c.name = message[r].track} = {} => Fits(r, {})
         /\ \A c \in e.catalog :
              c.name = message[r].track => Fits(r, MediaServed(e, c))
<1>1. \A d \in Entries(r) : d = e
  BY OneEntry DEF Entries
<1>2. {c \in e.catalog : c.name = message[r].track} = {} => Fits(r, {})
  BY <1>1, NothingFits
<1>3. ASSUME NEW c \in e.catalog, c.name = message[r].track
      PROVE  Fits(r, MediaServed(e, c))
  <2>1. PICK s \in Servable :
          /\ MediaServed(e, c) = {s}
          /\ ServedAsListed(c, s)
          /\ s.track.protection = ProtectionOf(message[r].namespace)
    BY <1>3, MediaFits DEF Entries
  <2>2. \A d \in e.catalog : d.name = message[r].track => d = c
    BY <1>3, OneListed DEF Entries
  <2> QED
    BY <1>1, <2>1, <2>2 DEF Fits, Honours, Keeps
<1> QED
  BY <1>2, <1>3
-----------------------------------------------------------------------------
(* The invariant with what is served                                        *)

HandleTypes ==
  /\ pc \in {"run", "announce", "announcing", "wait", "done"}
  /\ next \in 1 .. Len(Namespaces) + 2
  /\ pc \in {"run", "announce", "announcing"} => next <= Len(Namespaces) + 1
  /\ reply \in {"none", "accepted", "rejected"}
  /\ announced \in Seq({Namespaces[i].namespace : i \in DOMAIN Namespaces}
                          \union {InteropNamespace})
  /\ ctxDone \in BOOLEAN /\ gone \in BOOLEAN /\ wanted \in Wants

(* Nothing is served before the handler returns, and a subscription whose   *)
(* handler writes the catalog is one to the catalog.                        *)
Served(r) ==
  /\ rpc[r] # "returned" => serving[r] = {}
  /\ rpc[r] \in {"open", "write", "close"} =>
       message[r].method # "subscribe" \/ message[r].track = CatalogName
  /\ Keeps(r, serving[r])
  /\ Subscribed(r) => Honours(r, serving[r])

Serving == serving \in [Requests -> SUBSET Servable] /\ \A r \in Requests : Served(r)

OfferInv == IInv /\ HandleTypes /\ Serving

LEMMA ServedFrame ==
  ASSUME NEW r \in Requests, Served(r), message' = message,
         rpc'[r] = rpc[r], failed'[r] = failed[r], serving'[r] = serving[r]
  PROVE  Served(r)'
BY DEF Served, Keeps, Honours, Subscribed, Entries

(* A handler that answers: it has started what fits, or nothing.            *)
LEMMA AnswerServing ==
  ASSUME IInv, Serving, NEW r \in Requests, rpc[r] = "called",
         NEW ok \in BOOLEAN, NEW loc \in {"open", "returned"}, NEW served,
         Call(r, ok, loc), message' = message,
         serving' = [serving EXCEPT ![r] = IF ok THEN served ELSE {}],
         loc = "open" =>
           /\ served = {}
           /\ message[r].method # "subscribe" \/ message[r].track = CatalogName,
         loc = "returned" =>
           IF message[r].method = "subscribe" THEN Fits(r, served) ELSE served = {}
  PROVE  Serving'
<1>1. /\ rpc' = [rpc EXCEPT ![r] = IF ok THEN loc ELSE "returned"]
      /\ failed' = [failed EXCEPT ![r] = failed[r] \/ ~ok]
  BY DEF Call
<1>2. RequestTypes /\ serving \in [Requests -> SUBSET Servable]
  BY DEF IInv, Serving
<1>3. /\ rpc'[r] = IF ok THEN loc ELSE "returned"
      /\ ~ok => failed'[r]
      /\ serving'[r] = IF ok THEN served ELSE {}
  BY <1>1, <1>2 DEF RequestTypes
<1>4. served \subseteq Servable
  BY DEF Fits
<1>5. serving' \in [Requests -> SUBSET Servable]
  BY <1>2, <1>4
<1>6. Keeps(r, serving[r])'
  <2>1. Keeps(r, serving'[r])
    BY <1>3 DEF Fits, Keeps
  <2> QED
    BY <2>1 DEF Keeps
<1>7. Subscribed(r)' => Honours(r, serving[r])'
  <2> SUFFICES ASSUME Subscribed(r)'
               PROVE  Honours(r, serving[r])'
    OBVIOUS
  <2>1. ok /\ rpc'[r] = "returned" /\ message[r].method = "subscribe"
    BY <1>3 DEF Subscribed
  <2>2. serving'[r] = served /\ Honours(r, served)
    BY <1>3, <2>1 DEF Fits
  <2> QED
    BY <2>2 DEF Honours, Entries
<1>8. Served(r)'
  <2>1. rpc'[r] # "returned" => serving'[r] = {}
    BY <1>3
  <2>2. rpc'[r] \in {"open", "write", "close"} =>
          message'[r].method # "subscribe" \/ message'[r].track = CatalogName
    BY <1>3
  <2> QED
    BY <1>6, <1>7, <2>1, <2>2 DEF Served
<1>9. ASSUME NEW s \in Requests, s # r PROVE Served(s)'
  BY <1>1, <1>2, <1>9, ServedFrame DEF Serving, RequestTypes
<1> QED
  BY <1>5, <1>8, <1>9 DEF Serving

LEMMA RejectServing ==
  ASSUME IInv, Serving, NEW r \in Requests, rpc[r] = "called", Reject(r),
         message[r].method = "subscribe" => Fits(r, {})
  PROVE  Serving'
<1>1. PICK ok \in BOOLEAN : Call(r, ok, "returned")
  BY OutcomesBoolean DEF Reject
<1>2. serving[r] = {} /\ serving \in [Requests -> SUBSET Servable]
  BY DEF Serving, Served
<1>3. serving' = [serving EXCEPT ![r] = IF ok THEN {} ELSE {}]
  BY <1>2 DEF Reject
<1>4. message' = message
  BY DEF Reject
<1> QED
  BY <1>1, <1>3, <1>4, AnswerServing

LEMMA AcceptServed ==
  ASSUME IInv, Serving, NEW r \in Requests, rpc[r] = "called", NEW served,
         NEW loc \in {"open", "returned"},
         AcceptServing(r, served, loc),
         loc = "open" =>
           /\ served = {}
           /\ message[r].method # "subscribe" \/ message[r].track = CatalogName,
         loc = "returned" =>
           IF message[r].method = "subscribe" THEN Fits(r, served) ELSE served = {}
  PROVE  Serving'
<1>1. PICK ok \in BOOLEAN :
        /\ Call(r, ok, loc)
        /\ serving' = [serving EXCEPT ![r] = IF ok THEN served ELSE {}]
  BY OutcomesBoolean DEF AcceptServing
<1>2. message' = message
  BY DEF AcceptServing
<1> QED
  BY <1>1, <1>2, AnswerServing

(* A step of the handler after its answer.                                  *)
LEMMA StreamServing ==
  ASSUME IInv, Serving, NEW r \in Requests, rpc[r] \in {"open", "write", "close"},
         NEW ok \in BOOLEAN, NEW loc \in {"write", "close", "returned"},
         Call(r, ok, loc), UNCHANGED <<message, serving>>
  PROVE  Serving'
<1>1. /\ rpc' = [rpc EXCEPT ![r] = IF ok THEN loc ELSE "returned"]
      /\ failed' = [failed EXCEPT ![r] = failed[r] \/ ~ok]
  BY DEF Call
<1>2. RequestTypes /\ Served(r) /\ serving \in [Requests -> SUBSET Servable]
  BY DEF IInv, Serving
<1>3. serving'[r] = {} /\ (message'[r].method # "subscribe" \/ message'[r].track = CatalogName)
  BY <1>2 DEF Served
<1>4. message'[r].method = "subscribe" => Honours(r, {})'
  <2>1. message[r].track = CatalogName => Honours(r, {})
    BY CatalogFits DEF Fits
  <2> QED
    BY <1>3, <2>1 DEF Honours, Entries
<1>5. Served(r)'
  BY <1>3, <1>4 DEF Served, Keeps, Subscribed
<1>6. ASSUME NEW s \in Requests, s # r PROVE Served(s)'
  BY <1>1, <1>2, <1>6, ServedFrame DEF Serving, RequestTypes
<1> QED
  BY <1>2, <1>5, <1>6 DEF Serving

LEMMA HandlerServing ==
  ASSUME IInv, Serving, NEW r \in Requests, HandlerStep(r)
  PROVE  Serving'
<1>1. CASE HandleAnnounce(r)
  <2>1. rpc[r] = "called" /\ message[r].method = "announce"
        /\ (AcceptServing(r, {}, "returned") \/ Reject(r))
    BY <1>1 DEF HandleAnnounce, Called
  <2> QED
    BY <2>1, AcceptServed, RejectServing
<1>2. CASE RejectFetch(r)
  <2>1. rpc[r] = "called" /\ message[r].method = "fetch" /\ Reject(r)
    BY <1>2 DEF RejectFetch, Called
  <2> QED
    BY <2>1, RejectServing
<1>3. CASE AcceptFetch(r)
  <2>1. rpc[r] = "called" /\ message[r].method = "fetch" /\ AcceptServing(r, {}, "open")
    BY <1>3 DEF AcceptFetch, Called
  <2> QED
    BY <2>1, AcceptServed
<1>4. CASE SubscribeInterop(r)
  <2>1. rpc[r] = "called" /\ AcceptServing(r, {}, "returned") /\ Entries(r) = {}
    BY <1>4, NoInteropEntry DEF SubscribeInterop, Called, Entries
  <2> QED
    BY <2>1, NothingFits, AcceptServed
<1>5. CASE SubscribeUnknown(r)
  <2>1. rpc[r] = "called" /\ Reject(r) /\ Entries(r) = {}
    BY <1>5 DEF SubscribeUnknown, Called
  <2> QED
    BY <2>1, NothingFits, RejectServing
<1>6. CASE SubscribeMoqMI(r)
  <2>1. rpc[r] = "called" /\ message[r].method = "subscribe"
    BY <1>6 DEF SubscribeMoqMI, SubscribeIn, Called
  <2>2. PICK e \in Entries(r) :
          /\ e.packaging = "moqmi"
          /\ \/ Reject(r)
             \/ /\ message[r].track \in DOMAIN e.moqmiTracks
                /\ AcceptServing(r,
                     Serve("moqmi", TracksNamed(e.moqmiTracks[message[r].track])),
                     "returned")
    BY <1>6 DEF SubscribeMoqMI
  <2>3. CASE Reject(r)
    BY <2>1, <2>2, <2>3, MoqMIFits, RejectServing
  <2>4. CASE ~Reject(r)
    <3> DEFINE content == Serve("moqmi", TracksNamed(e.moqmiTracks[message[r].track]))
    <3>1. AcceptServing(r, content, "returned") /\ Fits(r, content)
      BY <2>2, <2>4, MoqMIFits
    <3> HIDE DEF content
    <3> QED
      BY <2>1, <3>1, AcceptServed
  <2> QED
    BY <2>3, <2>4
<1>7. CASE SubscribeCatalog(r)
  <2>1. /\ rpc[r] = "called" /\ message[r].track = CatalogName
        /\ AcceptServing(r, {}, "open")
    BY <1>7 DEF SubscribeCatalog, SubscribeIn, Called
  <2> QED
    BY <2>1, AcceptServed
<1>8. CASE SubscribeSubtitle(r)
  <2> DEFINE content == Serve("subtitle", {SubtitleTrack(message[r].track)})
  <2>1. /\ rpc[r] = "called" /\ message[r].method = "subscribe"
        /\ message[r].track \in Subtitles
        /\ AcceptServing(r, content, "returned")
    BY <1>8 DEF SubscribeSubtitle, SubscribeIn, Called
  <2>2. Fits(r, content)
    BY <2>1, SubtitleFits
  <2> HIDE DEF content
  <2> QED
    BY <2>1, <2>2, AcceptServed
<1>9. CASE SubscribeMedia(r)
  <2>1. /\ rpc[r] = "called" /\ message[r].method = "subscribe"
        /\ message[r].track \notin Subtitles
    BY <1>9 DEF SubscribeMedia, SubscribeIn, Called
  <2>2. PICK e \in Entries(r) :
          /\ e.packaging # "moqmi"
          /\ \/ {c \in e.catalog : c.name = message[r].track} = {} /\ Reject(r)
             \/ \E c \in {d \in e.catalog : d.name = message[r].track} :
                  AcceptServing(r, MediaServed(e, c), "returned")
    BY <1>9 DEF SubscribeMedia
  <2>3. CASE {c \in e.catalog : c.name = message[r].track} = {} /\ Reject(r)
    BY <2>1, <2>2, <2>3, MediaBranchFits, RejectServing
  <2>4. ASSUME NEW c \in e.catalog, c.name = message[r].track,
               AcceptServing(r, MediaServed(e, c), "returned")
        PROVE  Serving'
    <3>1. Fits(r, MediaServed(e, c))
      BY <2>1, <2>2, <2>4, MediaBranchFits
    <3> QED
      BY <2>1, <2>4, <3>1, AcceptServed
  <2> QED
    BY <2>2, <2>3, <2>4
<1>10. CASE OpenCatalogStream(r)
  <2>1. /\ rpc[r] = "open" /\ UNCHANGED <<message, serving>>
        /\ \E ok \in BOOLEAN : Call(r, ok, "write")
    BY <1>10, OutcomesBoolean DEF OpenCatalogStream
  <2> QED
    BY <2>1, StreamServing
<1>11. CASE WriteCatalog(r)
  <2>1. /\ rpc[r] = "write" /\ UNCHANGED <<message, serving>>
        /\ \E ok \in BOOLEAN : Call(r, ok, "close")
    BY <1>11, OutcomesBoolean DEF WriteCatalog
  <2> QED
    BY <2>1, StreamServing
<1>12. CASE CloseCatalogStream(r)
  <2>1. /\ rpc[r] = "close" /\ UNCHANGED <<message, serving>>
        /\ \E ok \in BOOLEAN : Call(r, ok, "returned")
    BY <1>12, OutcomesBoolean DEF CloseCatalogStream
  <2> QED
    BY <2>1, StreamServing
<1> QED
  BY <1>1, <1>2, <1>3, <1>4, <1>5, <1>6, <1>7, <1>8, <1>9, <1>10, <1>11, <1>12
     DEF HandlerStep

LEMMA ReceiveServing ==
  ASSUME IInv, Serving, NEW r \in Requests, Receive(r)
  PROVE  Serving'
<1>1. /\ rpc' = [rpc EXCEPT ![r] = "called"] /\ rpc[r] = "unsent"
      /\ UNCHANGED <<message, failed, serving>>
  BY DEF Receive
<1>2. RequestTypes /\ Served(r) /\ serving[r] = {}
  BY <1>1 DEF IInv, Serving, Served
<1>3. rpc'[r] = "called" /\ serving'[r] = {}
  BY <1>1, <1>2 DEF RequestTypes
<1>4. Served(r)'
  BY <1>3 DEF Served, Keeps, Subscribed
<1>5. ASSUME NEW s \in Requests, s # r PROVE Served(s)'
  BY <1>1, <1>2, <1>5, ServedFrame DEF Serving, RequestTypes
<1> QED
  BY <1>1, <1>4, <1>5 DEF Serving

(* The requests' variables do not move with Handle, nor the other way.      *)
LEMMA ServingUnchanged ==
  ASSUME Serving, UNCHANGED requestVars
  PROVE  Serving'
BY DEF Serving, Served, Keeps, Honours, Subscribed, Entries, requestVars

LEMMA HandleUnchanged ==
  ASSUME HandleTypes, UNCHANGED <<handleVars, envVars>>
  PROVE  HandleTypes'
BY DEF HandleTypes, handleVars, envVars

LEMMA HandlerKeepsHandle ==
  ASSUME NEW r \in Requests, Receive(r) \/ HandlerStep(r)
  PROVE  UNCHANGED <<handleVars, envVars>>
BY DEF Receive, HandlerStep, HandleAnnounce, RejectFetch, AcceptFetch, SubscribeInterop,
       SubscribeUnknown, SubscribeMoqMI, SubscribeCatalog, SubscribeSubtitle,
       SubscribeMedia, OpenCatalogStream, WriteCatalog, CloseCatalogStream,
       AcceptServing, Reject

LEMMA HandleTyped ==
  ASSUME HandleTypes, HandleStep \/ PeerReplies \/ Cancel \/ PeerGone
  PROVE  HandleTypes'
<1> DEFINE names == {Namespaces[i].namespace : i \in DOMAIN Namespaces}
                      \union {InteropNamespace}
<1>1. Len(Namespaces) \in Nat /\ DOMAIN Namespaces = 1 .. Len(Namespaces)
  BY NamespacesLen
<1>2. CASE RunSession
  BY <1>1, <1>2, OutcomesBoolean DEF HandleTypes, RunSession
<1>3. CASE Announce
  BY <1>1, <1>3 DEF HandleTypes, Announce, envVars
<1>4. CASE AnnounceAccepted
  <2>1. /\ next' = next + 1 /\ pc = "announcing"
        /\ pc' = IF next > Len(Namespaces) THEN "wait" ELSE "announce"
        /\ announced' = Append(announced, Announcing)
        /\ UNCHANGED <<reply, envVars>>
    BY <1>4 DEF AnnounceAccepted
  <2>2. next \in 1 .. Len(Namespaces) + 1
    BY <1>1, <2>1 DEF HandleTypes
  <2>3. /\ next' \in 1 .. Len(Namespaces) + 2
        /\ pc' \in {"wait", "announce"}
        /\ pc' = "announce" => next' <= Len(Namespaces) + 1
    BY <1>1, <2>1, <2>2
  <2>4. Announcing \in names
    BY <1>1, <2>2 DEF Announcing
  <2>5. announced \in Seq(names)
    BY DEF HandleTypes
  <2> HIDE DEF names
  <2>6. announced' \in Seq(names)
    BY <2>1, <2>4, <2>5
  <2> QED
    BY <2>1, <2>3, <2>6 DEF HandleTypes, envVars, names
<1>5. CASE AnnounceFails
  BY <1>1, <1>5 DEF HandleTypes, AnnounceFails, envVars
<1>6. CASE HandleEnds
  BY <1>1, <1>6 DEF HandleTypes, HandleEnds, envVars
<1>7. CASE PeerReplies
  BY <1>1, <1>7 DEF HandleTypes, PeerReplies, envVars
<1>8. CASE Cancel
  BY <1>1, <1>8 DEF HandleTypes, Cancel, handleVars
<1>9. CASE PeerGone
  BY <1>1, <1>9 DEF HandleTypes, PeerGone, handleVars
<1> QED
  BY <1>2, <1>3, <1>4, <1>5, <1>6, <1>7, <1>8, <1>9 DEF HandleStep

THEOREM OfferInductive == Spec => []OfferInv
<1>1. Init => HandleTypes /\ Serving
  <2> SUFFICES ASSUME Init PROVE HandleTypes /\ Serving
    OBVIOUS
  <2>1. HandleTypes
    <3>1. /\ pc = "run" /\ next = 1 /\ reply = "none" /\ announced = << >>
          /\ ctxDone = FALSE /\ gone = FALSE /\ wanted \in Wants
      BY DEF Init
    <3>2. next \in 1 .. Len(Namespaces) + 2 /\ next <= Len(Namespaces) + 1
      BY <3>1, NamespacesLen
    <3>3. \A S : announced \in Seq(S)
      BY <3>1, EmptySeq
    <3> QED
      BY <3>1, <3>2, <3>3 DEF HandleTypes
  <2>2. serving \in [Requests -> SUBSET Servable]
    BY DEF Init
  <2>3. \A r \in Requests : rpc[r] = "unsent" /\ serving[r] = {}
    BY DEF Init
  <2> QED
    BY <2>1, <2>2, <2>3 DEF Serving, Served, Keeps, Subscribed
<1>2. OfferInv /\ [Next]_vars => HandleTypes' /\ Serving'
  <2> SUFFICES ASSUME IInv, HandleTypes, Serving, [Next]_vars
               PROVE  HandleTypes' /\ Serving'
    BY DEF OfferInv
  <2>1. CASE HandleStep \/ PeerReplies \/ Cancel \/ PeerGone
    <3>1. UNCHANGED requestVars
      BY <2>1 DEF HandleStep, RunSession, Announce, AnnounceAccepted, AnnounceFails,
                  HandleEnds, PeerReplies, Cancel, PeerGone
    <3> QED
      BY <2>1, <3>1, HandleTyped, ServingUnchanged
  <2>2. ASSUME NEW r \in Requests, Receive(r) \/ HandlerStep(r)
        PROVE  HandleTypes' /\ Serving'
    BY <2>2, ReceiveServing, HandlerServing, HandlerKeepsHandle, HandleUnchanged
  <2>3. CASE UNCHANGED vars
    BY <2>3, HandleUnchanged, ServingUnchanged DEF vars
  <2> QED
    BY <2>1, <2>2, <2>3 DEF Next
<1>3. Init => OfferInv
  BY <1>1, InitInv DEF OfferInv
<1>4. OfferInv /\ [Next]_vars => OfferInv'
  BY <1>2, NextInv DEF OfferInv
<1> QED
  BY <1>3, <1>4, PTL DEF Spec

(* Handle's variables and the requests' keep their types, whatever the      *)
(* number of namespaces; the handlers start nothing but tracks of the       *)
(* asset in a packaging the publishers know (pub.go:81 to 323).             *)
THEOREM SessionTypeCorrect == Spec => []TypeOK
<1>1. OfferInv => TypeOK
  BY DEF OfferInv, IInv, RequestTypes, HandleTypes, Serving, Servable, TypeOK
<1> QED
  BY <1>1, OfferInductive, PTL

(* A subscription to a listed name gets the track it was made from, in the  *)
(* packaging and with the protection the catalog states, and no             *)
(* subscription gets media protected otherwise than its namespace says, for *)
(* every asset with distinct file names (pub.go:202 to 323, asset.go).      *)
THEOREM MediaIsAsListed == Spec => []MediaAsListed
<1>1. OfferInv => MediaAsListed
  BY DEF OfferInv, Serving, Served, Keeps, Honours, MediaAsListed, CatalogHonoured,
         ProtectionKept
<1> QED
  BY <1>1, OfferInductive, PTL
=============================================================================
