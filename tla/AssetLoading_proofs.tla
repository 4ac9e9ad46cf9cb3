------------------------ MODULE AssetLoading_proofs ------------------------
(***************************************************************************)
(* What the publisher serves, for any directory, configuration and width   *)
(* of the products.                                                        *)
(***************************************************************************)
EXTENDS AssetLoading, GroupTiming_proofs, FiniteSetTheorems, SequenceTheorems,
        WellFoundedInduction

Phases == {"parse", "protect", "loop", "offer", "serving", "refused", "panicked"}

ProcessTypes ==
  /\ dir \in Directories /\ config \in Configs
  /\ phase \in Phases /\ next \in Nat
  /\ DOMAIN tracks = Types

(* The protections that tracks have: their own namespaces.                 *)
Kinds == {"none"} \union {config.protections[i].type : i \in DOMAIN config.protections}

Fields == {"name", "type", "codec", "protection", "timeScale", "sampleDur", "sampleBatch",
           "gopLength", "samples", "nrSamples", "duration", "bitrate", "loopDur"}

(* The name of a file's track with a protection.                           *)
NameOf(f, protection) ==
  IF protection = "none" THEN f.name ELSE ProtectedName(f.name, protection)

LoadedFrom(t, f) ==
  /\ DOMAIN t = Fields /\ AfterEdit(f) # << >>
  /\ t.name = NameOf(f, t.protection) /\ t.codec = f.codec /\ t.bitrate = f.bitrate
  /\ t.type = f.type /\ t.timeScale = f.timeScale
  /\ t.sampleDur = f.samples[1].dur /\ t.sampleBatch = config.batch[f.type]
  /\ t.samples = AfterEdit(f) /\ t.nrSamples = Len(t.samples)
  /\ t.gopLength = GopLength(t.samples) /\ SameGop(t.samples)
  /\ t.duration = (t.nrSamples * t.sampleDur) % Word
  /\ t.protection \in Kinds

FromFile(t) == \E f \in Range(dir) : LoadedFrom(t, f)

Parsed ==
  phase \in {"parse", "protect"} =>
    \A type \in Types : IsFiniteSet(tracks[type]) /\ \A t \in tracks[type] : FromFile(t)

(* The loop duration is taken from the first track of the first group.     *)
Grouped ==
  phase = "loop" =>
    /\ \A t \in Loaded : FromFile(t)
    /\ groups # << >> => groups[1][1] \in Loaded

(* How a track is looped that fits a loop duration: only audio is cut.     *)
Looped(t, loopMS) ==
  LET loop == Times(loopMS, t.timeScale)
  IN  \/ Times(t.duration, 1000) = loop /\ t.loopDur = t.duration
      \/ /\ t.type = "audio" /\ Times(t.duration, 1000) >= loop
         /\ t.loopDur = loop \div 1000

Fitted ==
  phase \in {"offer", "serving"} =>
    /\ \A t \in Loaded : FromFile(t) /\ Looped(t, loopDurMS)
    /\ \E t \in Loaded : loopDurMS = Times(t.duration, 1000) \div t.timeScale

(* Every track of a namespace that has been considered was measured, which *)
(* none with an empty loop survives.                                       *)
Measured ==
  /\ phase = "offer" =>
       \A i \in 1 .. next : \A t \in Protected(Considered[i]) : Measurable(t)
  /\ phase = "serving" => \A t \in Loaded : Measurable(t)

LoadInv == ProcessTypes /\ Parsed /\ Grouped /\ Fitted /\ Measured /\ StartsOrRefuses
-----------------------------------------------------------------------------
LEMMA FilesOf ==
  ASSUME ProcessTypes, NEW f \in Range(dir)
  PROVE  f \in File
<1>1. dir \in Seq(File)
  BY LoadingAssumption DEF ProcessTypes
<1> QED
  BY <1>1 DEF Range

LEMMA FileFields ==
  ASSUME NEW f \in File
  PROVE  /\ f.type \in Types /\ f.timeScale \in Nat \ {0}
         /\ f.samples \in Seq(Sample) /\ f.mediaTime \in Nat
BY DEF File, FileOfType, Types

LEMMA ConfigFields ==
  ASSUME ProcessTypes
  PROVE  /\ config.batch \in [Types -> Nat \ {0}]
         /\ config.protections \in Seq(Protection)
BY LoadingAssumption DEF ProcessTypes, Config, Protections

(* A set of numbers has a least one.                                        *)
LEMMA Least ==
  ASSUME NEW S \in SUBSET Nat, S # {}
  PROVE  \E x \in S : \A y \in S : x <= y
<1>1. PICK x \in S : \A y \in S : ~ (<<y, x>> \in OpToRel(<, Nat))
  BY WFMin, NatLessThanWellFounded
<1>2. \A y \in S : x <= y
  <2> SUFFICES ASSUME NEW y \in S, ~(x <= y)
               PROVE  FALSE
    OBVIOUS
  <2>1. x \in Nat /\ y \in Nat /\ y < x
    OBVIOUS
  <2> DEFINE yx == <<y, x>>
  <2>2. yx \in Nat \X Nat /\ yx[1] < yx[2]
    BY <2>1
  <2>3. ~ (yx \in OpToRel(<, Nat))
    BY <1>1
  <2> HIDE DEF yx
  <2> QED
    BY <2>2, <2>3 DEF OpToRel
<1> QED
  BY <1>2

(* The edit list drops a prefix of the samples.                             *)
LEMMA FirstIdxBounds ==
  ASSUME NEW f \in File
  PROVE  FirstIdx(f) \in 0 .. Len(f.samples)
<1> DEFINE len == Len(f.samples)
           late == {n \in 1 .. len + 1 : n \notin Early(f)}
<1>1. len \in Nat /\ DOMAIN f.samples = 1 .. len
  BY FileFields
<1>2. len + 1 \notin Early(f)
  BY <1>1 DEF Early
<1>3. late \in SUBSET Nat /\ late # {}
  BY <1>1, <1>2
<1>4. PICK n \in late : \A m \in late : n <= m
  <2> HIDE DEF late
  <2> QED
    BY <1>3, Least
<1>5. n - 1 \in 0 .. len /\ 1 .. n - 1 \subseteq Early(f) /\ (n - 1) + 1 \notin Early(f)
  <2>1. n \in 1 .. len + 1 /\ n \notin Early(f) /\ (n - 1) + 1 = n
    BY <1>1
  <2>2. ASSUME NEW i \in 1 .. n - 1, i \notin Early(f) PROVE FALSE
    <3>1. i \in late /\ ~(n <= i)
      BY <1>1, <2>1, <2>2
    <3> QED
      BY <1>4, <3>1
  <2> QED
    BY <1>1, <2>1, <2>2
<1> QED
  BY <1>5 DEF FirstIdx

LEMMA AfterEditFacts ==
  ASSUME NEW f \in File
  PROVE  /\ AfterEdit(f) \in Seq(Sample)
         /\ AfterEdit(f) # << >> =>
              f.samples[1].dur \in Nat \ {0} /\ Len(AfterEdit(f)) \in Nat \ {0}
<1> DEFINE len == Len(f.samples)
           n == FirstIdx(f)
<1>1. len \in Nat /\ f.samples \in Seq(Sample) /\ n \in 0 .. len
  BY FileFields, FirstIdxBounds
<1>2. \A i \in n + 1 .. len : f.samples[i] \in Sample
  <2> HIDE DEF n
  <2> QED
    BY <1>1
<1>3. AfterEdit(f) \in Seq(Sample) /\ Len(AfterEdit(f)) = IF n + 1 <= len THEN len - (n + 1) + 1 ELSE 0
  <2> HIDE DEF n
  <2>1. /\ SubSeq(f.samples, n + 1, len) \in Seq(Sample)
        /\ Len(SubSeq(f.samples, n + 1, len)) = IF n + 1 <= len THEN len - (n + 1) + 1 ELSE 0
    BY <1>1, <1>2, SubSeqProperties
  <2> QED
    BY <2>1 DEF AfterEdit, n
<1>4. ASSUME AfterEdit(f) # << >>
      PROVE  f.samples[1].dur \in Nat \ {0} /\ Len(AfterEdit(f)) \in Nat \ {0}
  <2> HIDE DEF n
  <2>1. Len(AfterEdit(f)) \in Nat \ {0}
    <3> DEFINE kept == AfterEdit(f)
    <3>1. kept \in Seq(Sample) /\ kept # << >>
      BY <1>3, <1>4
    <3> HIDE DEF kept
    <3>2. Len(kept) \in Nat \ {0}
      BY <3>1, EmptySeq
    <3> QED
      BY <3>2 DEF kept
  <2>2. 1 \in 1 .. len
    BY <1>1, <1>3, <2>1
  <2>3. f.samples[1] \in Sample
    BY <1>1, <2>2
  <2> QED
    BY <2>1, <2>3 DEF Sample
<1> QED
  BY <1>3, <1>4

(* A product is never more than the exact one, and exact when it fits.      *)
LEMMA Wrapped ==
  ASSUME NEW a \in Nat
  PROVE  a % Word \in Nat /\ a % Word <= a /\ (a < Word => a % Word = a)
BY LoadingAssumption

LEMMA TimesFacts ==
  ASSUME NEW a \in Nat, NEW b \in Nat
  PROVE  /\ Times(a, b) \in Nat /\ Times(a, b) <= a * b
         /\ a * b < Word => Times(a, b) = a * b
<1>1. a * b \in Nat
  OBVIOUS
<1> DEFINE c == a * b
<1> HIDE DEF c
<1> QED
  BY <1>1, Wrapped DEF Times, c

(* The numbers of a loaded track.                                           *)
LEMMA TrackNumbers ==
  ASSUME ProcessTypes, NEW f \in Range(dir), NEW t, LoadedFrom(t, f)
  PROVE  /\ f \in File /\ t.type \in Types
         /\ t.timeScale \in Nat \ {0} /\ t.sampleDur \in Nat \ {0}
         /\ t.nrSamples \in Nat \ {0} /\ t.sampleBatch \in Nat \ {0}
         /\ t.duration \in Nat /\ t.duration <= t.nrSamples * t.sampleDur
         /\ t.nrSamples * t.sampleDur < Word => t.duration = t.nrSamples * t.sampleDur
<1>1. f \in File /\ f.type \in Types
  BY FilesOf, FileFields
<1>2. /\ t.timeScale \in Nat \ {0} /\ t.sampleDur \in Nat \ {0}
      /\ t.nrSamples \in Nat \ {0} /\ t.sampleBatch \in Nat \ {0} /\ t.type \in Types
  BY <1>1, FileFields, AfterEditFacts, ConfigFields DEF LoadedFrom
<1>3. t.duration = (t.nrSamples * t.sampleDur) % Word
  BY DEF LoadedFrom
<1> DEFINE all == t.nrSamples * t.sampleDur
<1>4. all \in Nat
  BY <1>2
<1> HIDE DEF all
<1>5. all % Word \in Nat /\ all % Word <= all /\ (all < Word => all % Word = all)
  BY <1>4, Wrapped
<1> QED
  BY <1>1, <1>2, <1>3, <1>5 DEF all
-----------------------------------------------------------------------------
(* Starting up                                                             *)

LEMMA SameProcess ==
  ASSUME dir' = dir, config' = config
  PROVE  /\ \A t : FromFile(t)' <=> FromFile(t)
         /\ ShortClips' <=> ShortClips
         /\ TwoBatches' <=> TwoBatches
BY DEF FromFile, LoadedFrom, Kinds, ShortClips, TwoBatches

LEMMA InitLoads == Init => LoadInv
<1> SUFFICES ASSUME Init PROVE LoadInv
  OBVIOUS
<1>1. ProcessTypes
  BY DEF Init, ProcessTypes, Phases
<1>2. Parsed
  BY FS_EmptySet DEF Init, Parsed
<1>3. Grouped /\ Fitted /\ Measured /\ StartsOrRefuses
  BY DEF Init, Grouped, Fitted, Measured, StartsOrRefuses
<1> QED
  BY <1>1, <1>2, <1>3 DEF LoadInv

LEMMA RefuseKeeps ==
  ASSUME LoadInv, Refuse
  PROVE  LoadInv'
<1>1. ProcessTypes'
  BY DEF LoadInv, ProcessTypes, Refuse, Stop, asset, Phases
<1>2. Parsed' /\ Grouped' /\ Fitted' /\ Measured' /\ StartsOrRefuses'
  BY DEF Refuse, Stop, Parsed, Grouped, Fitted, Measured, StartsOrRefuses
<1> QED
  BY <1>1, <1>2 DEF LoadInv

(* A panic has to be excused by the directory or the configuration.         *)
LEMMA PanicExcused ==
  ASSUME LoadInv, Panic, ~(ShortClips /\ TwoBatches)
  PROVE  LoadInv'
<1>1. ProcessTypes'
  BY DEF LoadInv, ProcessTypes, Panic, Stop, asset, Phases
<1>2. Parsed' /\ Grouped' /\ Fitted' /\ Measured'
  BY DEF Panic, Stop, Parsed, Grouped, Fitted, Measured
<1>3. StartsOrRefuses'
  BY SameProcess DEF Panic, Stop, StartsOrRefuses
<1> QED
  BY <1>1, <1>2, <1>3 DEF LoadInv

(* What a file becomes when it is parsed.                                   *)
LEMMA ContentTrackLoads ==
  ASSUME ProcessTypes, NEW f \in Range(dir), AfterEdit(f) # << >>,
         SameGop(AfterEdit(f))
  PROVE  /\ LoadedFrom(ContentTrack(f), f) /\ FromFile(ContentTrack(f))
         /\ ContentTrack(f).protection = "none"
<1>1. LoadedFrom(ContentTrack(f), f) /\ ContentTrack(f).protection = "none"
  BY DEF LoadedFrom, ContentTrack, Fields, Kinds, NameOf
<1> QED
  BY <1>1 DEF FromFile

LEMMA ParseFileStep ==
  ASSUME LoadInv, ParseFile
  PROVE  LoadInv'
<1> DEFINE f == dir[next + 1]
<1>0. dir \in Seq(File) /\ next \in Nat /\ next < Len(dir)
  BY LoadingAssumption DEF LoadInv, ProcessTypes, ParseFile
<1>1. f \in Range(dir) /\ f \in File
  <2>1. next + 1 \in DOMAIN dir
    BY <1>0
  <2> QED
    BY <1>0, <2>1 DEF Range
<1>2. f.type \in Types
  BY <1>1, FileFields
<1>3. CASE Refuse
  BY <1>3, RefuseKeeps
<1>4. CASE AfterEdit(f) = << >> /\ Panic
  <2>1. ~TwoBatches
    <3> SUFFICES ASSUME TwoBatches PROVE FALSE
      OBVIOUS
    <3>1. Len(AfterEdit(f)) >= 2 * config.batch[f.type]
      BY <1>1 DEF TwoBatches
    <3>2. config.batch[f.type] \in Nat \ {0} /\ Len(AfterEdit(f)) = 0
      BY <1>2, <1>4, ConfigFields DEF LoadInv
    <3> QED
      BY <3>1, <3>2
  <2> QED
    BY <1>4, <2>1, PanicExcused
<1>5. CASE /\ AfterEdit(f) # << >> /\ SameGop(AfterEdit(f))
           /\ tracks' = [tracks EXCEPT ![f.type] = @ \union {ContentTrack(f)}]
           /\ Advance /\ UNCHANGED <<groups, loopDurMS, namespaces>>
  <2> HIDE DEF f
  <2>0. phase = "parse" /\ phase' = "parse" /\ dir' = dir /\ config' = config
    BY <1>5 DEF ParseFile, Advance
  <2>1. ProcessTypes'
    BY <1>5 DEF LoadInv, ProcessTypes, Advance
  <2>2. Parsed'
    <3> SUFFICES ASSUME NEW type \in Types
                 PROVE  IsFiniteSet(tracks'[type]) /\ \A t \in tracks'[type] : FromFile(t)
      BY <2>0, SameProcess DEF Parsed
    <3>1. IsFiniteSet(tracks[type]) /\ \A t \in tracks[type] : FromFile(t)
      BY <2>0 DEF LoadInv, Parsed
    <3>2. \/ tracks'[type] = tracks[type]
          \/ tracks'[type] = tracks[type] \union {ContentTrack(f)}
      BY <1>5 DEF LoadInv, ProcessTypes
    <3>3. FromFile(ContentTrack(f))
      BY <1>1, <1>5, ContentTrackLoads DEF LoadInv
    <3> QED
      BY <3>1, <3>2, <3>3, FS_AddElement
  <2>3. Grouped' /\ Fitted' /\ Measured' /\ StartsOrRefuses'
    BY <2>0 DEF Grouped, Fitted, Measured, StartsOrRefuses
  <2> QED
    BY <2>1, <2>2, <2>3 DEF LoadInv
<1> QED
  BY <1>3, <1>4, <1>5 DEF ParseFile

LEMMA AllParsedStep ==
  ASSUME LoadInv, AllParsed
  PROVE  LoadInv'
<1>1. ProcessTypes'
  BY DEF LoadInv, ProcessTypes, AllParsed, Enter, asset, Phases
<1>2. Parsed'
  BY SameProcess DEF LoadInv, Parsed, AllParsed, Enter, asset
<1>3. Grouped' /\ Fitted' /\ Measured' /\ StartsOrRefuses'
  BY DEF AllParsed, Enter, Grouped, Fitted, Measured, StartsOrRefuses
<1> QED
  BY <1>1, <1>2, <1>3 DEF LoadInv

LEMMA ImageFinite ==
  ASSUME NEW S, IsFiniteSet(S), NEW f, f = [x \in S |-> f[x]]
  PROVE  IsFiniteSet({f[x] : x \in S})
<1>1. f \in Surjection(S, {f[x] : x \in S})
  BY DEF Surjection
<1> QED
  BY <1>1, FS_Surjection

(* The kinds of protection that are configured.                            *)
LEMMA KindTypes ==
  ASSUME ProcessTypes, NEW i \in DOMAIN config.protections
  PROVE  /\ config.protections[i].type \in {"drm", "eccp"}
         /\ config.protections[i].type \in Kinds \ {"none"}
<1> DEFINE ps == config.protections
<1>1. ps \in Seq(Protection)
  BY ConfigFields
<1>2. ps[i] \in Protection
  <2> HIDE DEF ps
  <2> QED
    BY <1>1 DEF ps
<1> DEFINE p == ps[i]
<1> HIDE DEF p
<1>3. p.type \in {"drm", "eccp"}
  BY <1>2 DEF Protection, p
<1> QED
  BY <1>3 DEF p, Kinds

(* A copy is a track of the same file, under a protection and a name of its *)
(* own.                                                                     *)
LEMMA CopyLoads ==
  ASSUME NEW t, NEW f, LoadedFrom(t, f), IsClear(t), NEW p \in Kinds \ {"none"}
  PROVE  /\ LoadedFrom(AddProtectionInfo(t, p), f)
         /\ AddProtectionInfo(t, p).protection = p
<1> DEFINE u == AddProtectionInfo(t, p)
<1>1. DOMAIN t = Fields /\ t.protection = "none" /\ t.name = f.name
  BY DEF LoadedFrom, IsClear, NameOf
<1>2. u.protection = p /\ u.name = NameOf(f, p)
  BY <1>1 DEF AddProtectionInfo, Fields, NameOf
<1>3. /\ DOMAIN u = Fields
      /\ \A field \in Fields \ {"name", "protection"} : u[field] = t[field]
  BY <1>1 DEF AddProtectionInfo, Fields
<1> HIDE DEF u
<1>4. LoadedFrom(u, f)
  BY <1>2, <1>3 DEF LoadedFrom, Fields
<1> QED
  BY <1>2, <1>4 DEF u

(* Copies are tracks of the same files.                                     *)
LEMMA CopiesLoad ==
  ASSUME ProcessTypes, NEW ts, IsFiniteSet(ts), \A t \in ts : FromFile(t),
         NEW p \in Kinds \ {"none"}
  PROVE  IsFiniteSet(Copies(ts, p)) /\ \A t \in Copies(ts, p) : FromFile(t)
<1> DEFINE clear == {u \in ts : IsClear(u)}
           copy == [t \in clear |-> AddProtectionInfo(t, p)]
<1>1. IsFiniteSet(clear)
  BY FS_Subset
<1>2. Copies(ts, p) = {copy[t] : t \in clear}
  BY DEF Copies
<1>3. IsFiniteSet({copy[t] : t \in clear})
  <2>1. copy = [t \in clear |-> copy[t]]
    OBVIOUS
  <2> HIDE DEF copy, clear
  <2> QED
    BY <1>1, <2>1, ImageFinite
<1>4. ASSUME NEW t \in clear PROVE FromFile(AddProtectionInfo(t, p))
  <2>1. PICK f \in Range(dir) : LoadedFrom(t, f)
    BY DEF FromFile
  <2> QED
    BY <2>1, CopyLoads DEF FromFile
<1> QED
  BY <1>2, <1>3, <1>4

LEMMA ProtectTracksStep ==
  ASSUME LoadInv, ProtectTracks
  PROVE  LoadInv'
<1> DEFINE p == config.protections[next + 1]
<1>0. next + 1 \in DOMAIN config.protections
  BY ConfigFields DEF LoadInv, ProcessTypes, ProtectTracks
<1>1. CASE Refuse
  BY <1>1, RefuseKeeps
<1>2. CASE p.systems = 0 /\ Panic
  <2>1. ~TwoBatches
    <3>1. p \in Range(config.protections)
      BY <1>0 DEF Range
    <3> QED
      BY <1>2, <3>1 DEF TwoBatches
  <2> QED
    BY <1>2, <2>1, PanicExcused
<1>3. CASE /\ tracks' = [t \in Types |-> tracks[t] \union Copies(tracks[t], p.type)]
           /\ Advance /\ UNCHANGED <<groups, loopDurMS, namespaces>>
  <2>0. phase = "protect" /\ phase' = "protect" /\ dir' = dir /\ config' = config
    BY <1>3 DEF ProtectTracks, Advance
  <2>1. ProcessTypes'
    BY <1>3 DEF LoadInv, ProcessTypes, Advance
  <2>2. Parsed'
    <3> SUFFICES ASSUME NEW type \in Types
                 PROVE  IsFiniteSet(tracks'[type]) /\ \A t \in tracks'[type] : FromFile(t)
      BY <2>0, SameProcess DEF Parsed
    <3>1. IsFiniteSet(tracks[type]) /\ \A t \in tracks[type] : FromFile(t)
      BY <2>0 DEF LoadInv, Parsed
    <3>2. p.type \in Kinds \ {"none"}
      BY <1>0, KindTypes DEF LoadInv
    <3>3. /\ IsFiniteSet(Copies(tracks[type], p.type))
          /\ \A t \in Copies(tracks[type], p.type) : FromFile(t)
      BY <3>1, <3>2, CopiesLoad DEF LoadInv
    <3>4. tracks'[type] = tracks[type] \union Copies(tracks[type], p.type)
      BY <1>3
    <3> QED
      BY <3>1, <3>3, <3>4, FS_Union
  <2>3. Grouped' /\ Fitted' /\ Measured' /\ StartsOrRefuses'
    BY <2>0 DEF Grouped, Fitted, Measured, StartsOrRefuses
  <2> QED
    BY <2>1, <2>2, <2>3 DEF LoadInv
<1> QED
  BY <1>1, <1>2, <1>3 DEF ProtectTracks

(* A sorted group holds the tracks of its type.                             *)
LEMMA SortedTracks ==
  ASSUME NEW ts, IsFiniteSet(ts), NEW s \in Sortings(ts)
  PROVE  s \in Seq(ts) /\ Range(s) \subseteq ts
<1>1. Cardinality(ts) \in Nat
  BY FS_CardinalityType
<1>2. s \in [1 .. Cardinality(ts) -> ts]
  BY DEF Sortings, SetToSeqs
<1> QED
  BY <1>1, <1>2 DEF Range

LEMMA GroupsOfTracks ==
  ASSUME NEW S, NEW v \in Seq(S), NEW a \in Seq(S)
  PROVE  LET gs == TrackGroup(v) \o TrackGroup(a)
         IN  /\ \A g \in DOMAIN gs : gs[g] \in Seq(S) /\ gs[g] # << >>
             /\ gs # << >> => 1 \in DOMAIN gs
<1> DEFINE gs == TrackGroup(v) \o TrackGroup(a)
<1>1. ASSUME NEW s \in Seq(S) PROVE TrackGroup(s) \in Seq(Seq(S) \ {<< >>})
  <2>1. CASE s = << >>
    BY <2>1 DEF TrackGroup
  <2>2. CASE s # << >>
    <3> DEFINE Groups == Seq(S) \ {<< >>}
    <3>1. s \in Groups
      BY <2>2
    <3> HIDE DEF Groups
    <3> QED
      BY <2>2, <3>1 DEF TrackGroup, Groups
  <2> QED
    BY <2>1, <2>2
<1>2. gs \in Seq(Seq(S) \ {<< >>})
  BY <1>1
<1> HIDE DEF gs
<1>3. gs # << >> => 1 \in DOMAIN gs
  BY <1>2, EmptySeq
<1>4. \A g \in DOMAIN gs : gs[g] \in Seq(S) /\ gs[g] # << >>
  BY <1>2
<1> QED
  BY <1>3, <1>4 DEF gs

LEMMA GenerateTrackGroupsStep ==
  ASSUME LoadInv, GenerateTrackGroups
  PROVE  LoadInv'
<1>1. CASE Refuse
  BY <1>1, RefuseKeeps
<1>2. CASE /\ \E v \in Sortings(tracks["video"]), a \in Sortings(tracks["audio"]) :
                groups' = TrackGroup(v) \o TrackGroup(a)
           /\ Enter("loop") /\ UNCHANGED <<tracks, loopDurMS, namespaces>>
  <2>0. phase = "protect" /\ phase' = "loop" /\ dir' = dir /\ config' = config
    BY <1>2 DEF GenerateTrackGroups, Enter
  <2>1. ProcessTypes'
    BY <1>2 DEF LoadInv, ProcessTypes, Enter, Phases
  <2> DEFINE all == tracks["video"] \union tracks["audio"]
  <2>2. /\ IsFiniteSet(tracks["video"]) /\ IsFiniteSet(tracks["audio"])
        /\ \A t \in all : FromFile(t)
    BY <2>0 DEF LoadInv, Parsed, Types
  <2>3. PICK v \in Sortings(tracks["video"]), a \in Sortings(tracks["audio"]) :
           groups' = TrackGroup(v) \o TrackGroup(a)
    BY <1>2
  <2>4. v \in Seq(all) /\ a \in Seq(all)
    <3>1. v \in Seq(tracks["video"]) /\ a \in Seq(tracks["audio"])
      BY <2>2, SortedTracks
    <3> QED
      BY <3>1
  <2> HIDE DEF all
  <2>5. /\ \A g \in DOMAIN groups' : groups'[g] \in Seq(all) /\ groups'[g] # << >>
        /\ groups' # << >> => 1 \in DOMAIN groups'
    BY <2>3, <2>4, GroupsOfTracks
  <2>6. Grouped'
    <3>1. \A t \in Loaded' : FromFile(t)'
      <4> SUFFICES ASSUME NEW g \in DOMAIN groups', NEW i \in DOMAIN groups'[g]
                   PROVE  FromFile(groups'[g][i])
        BY <2>0, SameProcess DEF Loaded, Range
      <4>1. groups'[g][i] \in all
        BY <2>5
      <4> QED
        BY <2>2, <4>1
    <3>2. ASSUME groups' # << >> PROVE groups'[1][1] \in Loaded'
      <4>1. 1 \in DOMAIN groups' /\ groups'[1] \in Seq(all) /\ groups'[1] # << >>
        BY <2>5, <3>2
      <4>2. 1 \in DOMAIN groups'[1]
        BY <4>1, EmptySeq
      <4> QED
        BY <4>1, <4>2 DEF Loaded, Range
    <3> QED
      BY <3>1, <3>2 DEF Grouped
  <2>7. Parsed' /\ Fitted' /\ Measured' /\ StartsOrRefuses'
    BY <2>0 DEF Parsed, Fitted, Measured, StartsOrRefuses
  <2> QED
    BY <2>1, <2>6, <2>7 DEF LoadInv
<1> QED
  BY <1>1, <1>2 DEF GenerateTrackGroups

(* A track that fits is looped within its samples, by the loop duration.    *)
LEMMA FitLoops ==
  ASSUME ProcessTypes, NEW g, NEW u, NEW loopMS \in Nat, FromFile(u),
         Fits(g, u, loopMS)
  PROVE  LET t == [u EXCEPT !.loopDur = LoopDur(g, u, loopMS)]
         IN  /\ FromFile(t) /\ Looped(t, loopMS)
             /\ t.duration = u.duration /\ t.timeScale = u.timeScale
<1> DEFINE t == [u EXCEPT !.loopDur = LoopDur(g, u, loopMS)]
<1>1. PICK f \in Range(dir) : LoadedFrom(u, f)
  BY DEF FromFile
<1>2. DOMAIN u = Fields
  BY <1>1 DEF LoadedFrom
<1>3. LoadedFrom(t, f)
  BY <1>1, <1>2 DEF LoadedFrom, Fields
<1>4. /\ t.duration = u.duration /\ t.timeScale = u.timeScale /\ t.type = u.type
      /\ t.loopDur = LoopDur(g, u, loopMS)
  BY <1>2 DEF Fields
<1>5. Looped(t, loopMS)
  <2> HIDE DEF t
  <2> QED
    BY <1>4 DEF Looped, Fits, LoopDur, Follows, Times
<1> QED
  BY <1>1, <1>3, <1>4, <1>5 DEF FromFile

(* The length of a track in milliseconds.                                   *)
LEMMA LoopsInTime ==
  ASSUME ProcessTypes, NEW t, FromFile(t)
  PROVE  Times(t.duration, 1000) \div t.timeScale \in Nat
<1> DEFINE d == t.duration
           product == Times(d, 1000)
           scale == t.timeScale
<1>1. d \in Nat /\ scale \in Nat \ {0}
  BY TrackNumbers DEF FromFile
<1>2. product \in Nat
  <2> HIDE DEF d
  <2>1. d * 1000 \in Nat
    BY <1>1
  <2> QED
    BY <2>1, Wrapped DEF Times
<1> HIDE DEF product, scale
<1>3. product \div scale \in Nat
  BY <1>1, <1>2, DivMod
<1> QED
  BY <1>3 DEF product, scale

LEMMA SetLoopDurationStep ==
  ASSUME LoadInv, SetLoopDuration
  PROVE  LoadInv'
<1>1. CASE Refuse
  BY <1>1, RefuseKeeps
<1>2. CASE /\ groups # << >>
           /\ \A g \in DOMAIN groups : \A t \in Range(groups[g]) :
                Fits(g, t, FirstLoopMS(groups))
           /\ loopDurMS' = FirstLoopMS(groups)
           /\ groups' = [g \in DOMAIN groups |-> [i \in DOMAIN groups[g] |->
                [groups[g][i] EXCEPT !.loopDur = LoopDur(g, groups[g][i], loopDurMS')]]]
           /\ Enter("offer") /\ UNCHANGED <<tracks, namespaces>>
  <2>0. phase = "loop" /\ phase' = "offer" /\ dir' = dir /\ config' = config /\ next' = 0
    BY <1>2 DEF SetLoopDuration, Enter
  <2>1. ProcessTypes'
    BY <1>2 DEF LoadInv, ProcessTypes, Enter, Phases
  <2> DEFINE first == groups[1][1]
             ms == FirstLoopMS(groups)
  <2>2. first \in Loaded /\ \A t \in Loaded : FromFile(t)
    BY <1>2, <2>0 DEF LoadInv, Grouped
  <2>3. ms \in Nat
    BY <2>2, LoopsInTime DEF FirstLoopMS, LoadInv
  <2>4. ms = Times(first.duration, 1000) \div first.timeScale
    BY DEF FirstLoopMS
  <2> HIDE DEF first
  <2> DEFINE Cut(g, u) == [u EXCEPT !.loopDur = LoopDur(g, u, ms)]
  <2>5. ASSUME NEW g \in DOMAIN groups, NEW i \in DOMAIN groups[g]
        PROVE  /\ g \in DOMAIN groups' /\ i \in DOMAIN groups'[g]
               /\ groups'[g][i] = Cut(g, groups[g][i])
    BY <1>2
  <2>6. DOMAIN groups' = DOMAIN groups
        /\ \A g \in DOMAIN groups : DOMAIN groups'[g] = DOMAIN groups[g]
    BY <1>2
  <2>7. loopDurMS' = ms
    BY <1>2
  <2> HIDE DEF ms, Cut
  <2>8. ASSUME NEW g \in DOMAIN groups, NEW i \in DOMAIN groups[g]
        PROVE  LET t == Cut(g, groups[g][i])
               IN  /\ FromFile(t) /\ Looped(t, ms)
                   /\ t.duration = groups[g][i].duration
                   /\ t.timeScale = groups[g][i].timeScale
    <3> DEFINE u == groups[g][i]
    <3>1. u \in Range(groups[g]) /\ u \in Loaded
      BY DEF Loaded, Range
    <3>2. FromFile(u) /\ Fits(g, u, ms)
      BY <1>2, <2>2, <3>1 DEF ms
    <3> HIDE DEF u
    <3> QED
      BY <2>3, <3>2, FitLoops DEF LoadInv, Cut, u
  <2>9. Fitted'
    <3>1. \A t \in Loaded' : FromFile(t)' /\ Looped(t, ms)
      <4> SUFFICES ASSUME NEW g \in DOMAIN groups, NEW i \in DOMAIN groups[g]
                   PROVE  FromFile(groups'[g][i]) /\ Looped(groups'[g][i], ms)
        BY <2>0, <2>6, SameProcess DEF Loaded, Range
      <4> QED
        BY <2>5, <2>8
    <3>2. \E t \in Loaded' : ms = Times(t.duration, 1000) \div t.timeScale
      <4>1. \E g \in DOMAIN groups : \E i \in DOMAIN groups[g] : first = groups[g][i]
        BY <2>2 DEF Loaded, Range
      <4>2. PICK g \in DOMAIN groups : \E i \in DOMAIN groups[g] : first = groups[g][i]
        BY <4>1
      <4>3. PICK i \in DOMAIN groups[g] : first = groups[g][i]
        BY <4>2
      <4> DEFINE t == groups'[g][i]
      <4>4. t \in Loaded'
        BY <2>5 DEF Loaded, Range
      <4>5. t.duration = first.duration /\ t.timeScale = first.timeScale
        BY <2>5, <2>8, <4>3
      <4> HIDE DEF t
      <4> QED
        BY <2>4, <4>4, <4>5
    <3> QED
      BY <2>7, <3>1, <3>2 DEF Fitted, Times, Looped
  <2>10. Parsed' /\ Grouped' /\ StartsOrRefuses'
    BY <2>0 DEF Parsed, Grouped, StartsOrRefuses
  <2>11. Measured'
    BY <2>0 DEF Measured
  <2> QED
    BY <2>1, <2>9, <2>10, <2>11 DEF LoadInv
<1> QED
  BY <1>1, <1>2 DEF SetLoopDuration

LEMMA AfterThree ==
  ASSUME NEW S, NEW x \in S, NEW y \in S, NEW z \in S, NEW b \in Seq(S)
  PROVE  LET c == <<x, y, z>> \o b
         IN  /\ Len(c) = 3 + Len(b) /\ c[3] = z
             /\ \A i \in DOMAIN b : i + 3 \in 1 .. Len(c) /\ c[i + 3] = b[i]
<1> DEFINE a == <<x, y, z>>
<1>1. a \in Seq(S)
  OBVIOUS
<1>2. Len(a) = 3 /\ a[3] = z
  OBVIOUS
<1> HIDE DEF a
<1>3. /\ Len(a \o b) = Len(a) + Len(b)
      /\ \A i \in 1 .. Len(a) + Len(b) : (a \o b)[i] = IF i <= Len(a) THEN a[i] ELSE b[i - Len(a)]
  BY <1>1, ConcatProperties
<1> DEFINE c == a \o b
<1>4. Len(b) \in Nat /\ DOMAIN b = 1 .. Len(b)
  OBVIOUS
<1> HIDE DEF c
<1>5. /\ Len(c) = 3 + Len(b) /\ c[3] = z
      /\ \A i \in DOMAIN b : i + 3 \in 1 .. Len(c) /\ c[i + 3] = b[i]
  BY <1>2, <1>3, <1>4 DEF c
<1> QED
  BY <1>5 DEF a, c

(* Every protection of a track has a turn.                                  *)
LEMMA KindsConsidered ==
  ASSUME ProcessTypes
  PROVE  /\ Len(Considered) \in Nat
         /\ Kinds \subseteq {"none", "drm", "eccp"}
         /\ \A k \in Kinds : \E i \in 1 .. Len(Considered) : Considered[i] = k
<1> DEFINE ps == config.protections
           types == [i \in DOMAIN ps |-> ps[i].type]
           start == <<"loc", "moqmi", "none">>
           S == {"loc", "moqmi", "none", "drm", "eccp"}
<1>1. ps \in Seq(Protection) /\ DOMAIN ps = 1 .. Len(ps) /\ Len(ps) \in Nat
  BY ConfigFields
<1>2. \A i \in DOMAIN ps : ps[i].type \in {"drm", "eccp"}
  BY KindTypes
<1>3. types \in Seq(S) /\ DOMAIN types = 1 .. Len(ps)
  <2> HIDE DEF ps
  <2> QED
    BY <1>1, <1>2
<1>4. /\ Len(Considered) = 3 + Len(types) /\ Considered[3] = "none"
      /\ \A i \in DOMAIN types : i + 3 \in 1 .. Len(Considered) /\ Considered[i + 3] = types[i]
  <2>1. Considered = <<"loc", "moqmi", "none">> \o types
    BY DEF Considered
  <2>2. "loc" \in S /\ "moqmi" \in S /\ "none" \in S
    OBVIOUS
  <2> HIDE DEF ps, types, S
  <2> QED
    BY <1>3, <2>1, <2>2, AfterThree
<1>5. Len(types) \in Nat
  BY <1>3
<1>6. 3 \in 1 .. Len(Considered)
  <2> HIDE DEF types
  <2> QED
    BY <1>4, <1>5
<1>7. \A i \in DOMAIN ps : types[i] = ps[i].type /\ i \in DOMAIN types
  OBVIOUS
<1>8. Kinds = {"none"} \union {ps[i].type : i \in DOMAIN ps}
  BY DEF Kinds
<1> HIDE DEF types, ps
<1> QED
  BY <1>2, <1>4, <1>5, <1>6, <1>7, <1>8

(* A short clip of two batches is measured without a panic.                 *)
LEMMA ShortClipsLoop ==
  ASSUME ProcessTypes, ShortClips, NEW f \in Range(dir), NEW h \in Range(dir),
         NEW t, LoadedFrom(t, f)
  PROVE  /\ t.nrSamples * t.sampleDur * 1000 < Word /\ t.nrSamples * t.sampleDur < Word
         /\ Times(t.duration, 1000) = t.nrSamples * t.sampleDur * 1000
         /\ t.duration = t.nrSamples * t.sampleDur
         /\ Times(t.duration, 1000) \div t.timeScale = LengthMS(f)
         /\ LengthMS(f) \in Nat /\ LengthMS(f) * h.timeScale >= 1000
         /\ Times(LengthMS(f), h.timeScale) = LengthMS(f) * h.timeScale
<1> DEFINE all == t.nrSamples * t.sampleDur
           product == all * 1000
           scale == t.timeScale
           ms == LengthMS(f)
<1>1. /\ t.timeScale \in Nat \ {0} /\ t.sampleDur \in Nat \ {0}
      /\ t.nrSamples \in Nat \ {0} /\ h.timeScale \in Nat \ {0}
  BY TrackNumbers, FilesOf, FileFields
<1>2. all \in Nat /\ product \in Nat /\ all <= product
  BY <1>1
<1>3. ms = product \div scale
  BY DEF LengthMS, LoadedFrom
<1>4. ms * h.timeScale >= 1000 /\ (ms + 1) * h.timeScale < Word /\ (ms + 1) * scale < Word
  BY DEF ShortClips, LoadedFrom
<1>5. Word \in Nat
  BY LoadingAssumption
<1>6. all < Word => t.duration = all
  BY TrackNumbers
<1> HIDE DEF ms, product, scale
<1>7. ms \in Nat /\ product < (ms + 1) * scale
  BY <1>1, <1>2, <1>3, DivBracket DEF scale
<1> DEFINE bound == (ms + 1) * scale
<1>8. bound \in Nat
  BY <1>1, <1>7 DEF scale
<1>9. product < Word
  <2> HIDE DEF bound
  <2> QED
    BY <1>2, <1>4, <1>5, <1>7, <1>8 DEF bound
<1> HIDE DEF all
<1>10. all < Word /\ t.duration = all
  BY <1>2, <1>5, <1>6, <1>9
<1>11. Times(t.duration, 1000) = product
  BY <1>2, <1>9, <1>10, Wrapped DEF Times, product
<1> DEFINE loop == ms * h.timeScale
           next1 == (ms + 1) * h.timeScale
<1>12. loop \in Nat /\ next1 \in Nat /\ loop <= next1
  BY <1>1, <1>7
<1>13. Times(ms, h.timeScale) = loop
  <2>1. loop < Word
    <3> HIDE DEF loop, next1
    <3> QED
      BY <1>4, <1>5, <1>12 DEF next1
  <2>2. Times(ms, h.timeScale) = loop % Word
    BY DEF Times
  <2> HIDE DEF loop
  <2> QED
    BY <1>12, <2>1, <2>2, Wrapped
<1> QED
  BY <1>3, <1>4, <1>7, <1>9, <1>10, <1>11, <1>13 DEF all, product, scale, ms

LEMMA MeasuresWell ==
  ASSUME LoadInv, phase = "offer", ShortClips, TwoBatches, NEW t \in Loaded
  PROVE  Measurable(t)
<1>0. ProcessTypes
  BY DEF LoadInv
<1>1. PICK f \in Range(dir) : LoadedFrom(t, f)
  BY DEF LoadInv, Fitted, FromFile
<1>2. PICK u \in Loaded : loopDurMS = Times(u.duration, 1000) \div u.timeScale
  BY DEF LoadInv, Fitted
<1>3. PICK h \in Range(dir) : LoadedFrom(u, h)
  BY <1>2 DEF LoadInv, Fitted, FromFile
<1>4. /\ t.nrSamples \in Nat \ {0} /\ t.sampleDur \in Nat \ {0}
      /\ t.sampleBatch \in Nat \ {0} /\ t.timeScale = f.timeScale
  BY <1>0, <1>1, TrackNumbers DEF LoadedFrom
<1>5. /\ t.duration = t.nrSamples * t.sampleDur
      /\ loopDurMS = LengthMS(h) /\ loopDurMS \in Nat
      /\ loopDurMS * t.timeScale >= 1000
      /\ Times(loopDurMS, t.timeScale) = loopDurMS * t.timeScale
  BY <1>0, <1>1, <1>2, <1>3, <1>4, ShortClipsLoop
<1>6. t.loopDur > 0
  <2>1. CASE t.loopDur = t.duration
    BY <1>4, <1>5, <2>1
  <2>2. CASE t.loopDur = Times(loopDurMS, t.timeScale) \div 1000
    <3> DEFINE loop == loopDurMS * t.timeScale
    <3>1. loop \in Nat /\ loop >= 1000
      BY <1>0, <1>1, <1>5, TrackNumbers
    <3>2. t.loopDur = loop \div 1000
      BY <1>5, <2>2
    <3> HIDE DEF loop
    <3> QED
      BY <3>1, <3>2
  <2> QED
    BY <2>1, <2>2 DEF LoadInv, Fitted, Looped
<1>7. 2 * MeasuredBatch(t) <= t.nrSamples
  <2>1. t.nrSamples >= 2 * t.sampleBatch
    BY <1>1 DEF TwoBatches, LoadedFrom
  <2> QED
    BY <1>4, <2>1 DEF MeasuredBatch, MinOf
<1> QED
  BY <1>6, <1>7 DEF Measurable

(* A namespace is offered, or not, after its tracks have been measured.     *)
LEMMA OfferAdvances ==
  ASSUME LoadInv, phase = "offer", Advance, UNCHANGED <<tracks, groups, loopDurMS>>,
         \A t \in Protected(Considered[next + 1]) : Measurable(t)
  PROVE  LoadInv'
<1>0. phase' = "offer" /\ dir' = dir /\ config' = config /\ next' = next + 1 /\ next \in Nat
  BY DEF Advance, LoadInv, ProcessTypes
<1>1. ProcessTypes'
  BY <1>0 DEF LoadInv, ProcessTypes
<1>2. Loaded' = Loaded /\ Considered' = Considered
  BY <1>0 DEF Loaded, Considered
<1>3. Fitted'
  BY <1>0, <1>2, SameProcess DEF LoadInv, Fitted, Looped, Times
<1>4. Measured'
  <2> SUFFICES ASSUME NEW i \in 1 .. next + 1, NEW t \in Protected(Considered[i])
               PROVE  Measurable(t)
    BY <1>0, <1>2 DEF Measured, Protected, Measurable, MeasuredBatch
  <2>1. CASE i = next + 1
    BY <2>1
  <2>2. CASE i # next + 1
    <3>1. i \in 1 .. next
      BY <1>0, <2>2
    <3> QED
      BY <3>1 DEF LoadInv, Measured
  <2> QED
    BY <2>1, <2>2
<1>5. Parsed' /\ Grouped' /\ StartsOrRefuses'
  BY <1>0 DEF Parsed, Grouped, StartsOrRefuses
<1> QED
  BY <1>1, <1>3, <1>4, <1>5 DEF LoadInv

(* LOC and moq-mi are no protections: nothing is measured for them.         *)
LEMMA OfferUnmeasured ==
  ASSUME LoadInv, phase = "offer", Considered[next + 1] \in {"loc", "moqmi"},
         Advance, UNCHANGED <<tracks, groups, loopDurMS>>
  PROVE  LoadInv'
<1>1. ASSUME NEW t \in Protected(Considered[next + 1]) PROVE FALSE
  <2>1. t \in Loaded /\ t.protection = Considered[next + 1]
    BY DEF Protected
  <2>2. t.protection \in Kinds
    BY <2>1 DEF LoadInv, Fitted, FromFile, LoadedFrom
  <2>3. t.protection \in {"none", "drm", "eccp"}
    BY <2>2, KindsConsidered DEF LoadInv
  <2> QED
    BY <2>1, <2>3
<1> QED
  BY <1>1, OfferAdvances

LEMMA OfferNextStep ==
  ASSUME LoadInv, OfferNext
  PROVE  LoadInv'
<1> DEFINE here == Considered[next + 1]
<1>0. phase = "offer"
  BY DEF OfferNext
<1>1. CASE here = "loc" /\ ConsiderLOC
  BY <1>0, <1>1, OfferUnmeasured DEF ConsiderLOC, Skips, Offers, asset
<1>2. CASE here = "moqmi" /\ ConsiderMoqMI
  BY <1>0, <1>2, OfferUnmeasured DEF ConsiderMoqMI, Skips, Offers, asset
<1>3. CASE ConsiderCMAF(here)
  <2> HIDE DEF here
  <2>1. CASE Refuse
    BY <2>1, RefuseKeeps
  <2>2. CASE (\E t \in Protected(here) : ~Measurable(t)) /\ Panic
    <3>1. PICK t \in Loaded : ~Measurable(t)
      BY <2>2 DEF Protected
    <3> QED
      BY <1>0, <2>2, <3>1, MeasuresWell, PanicExcused
  <2>3. CASE /\ \A t \in Protected(here) : Measurable(t)
             /\ Advance /\ UNCHANGED <<tracks, groups, loopDurMS>>
    BY <1>0, <2>3, OfferAdvances DEF here
  <2> QED
    BY <1>3, <2>1, <2>2, <2>3 DEF ConsiderCMAF, Offers
<1> QED
  BY <1>1, <1>2, <1>3 DEF OfferNext

LEMMA ServeStep ==
  ASSUME LoadInv, Serve
  PROVE  LoadInv'
<1>0. /\ phase = "offer" /\ phase' = "serving" /\ dir' = dir /\ config' = config
      /\ next = Len(Considered) /\ UNCHANGED asset
  BY DEF Serve, Enter
<1>1. ProcessTypes'
  BY DEF LoadInv, ProcessTypes, Serve, Enter, asset, Phases
<1>2. Loaded' = Loaded
  BY <1>0 DEF Loaded, asset
<1>3. Fitted'
  BY <1>0, <1>2, SameProcess DEF LoadInv, Fitted, Looped, Times, asset
<1>4. Measured'
  <2> SUFFICES ASSUME NEW t \in Loaded PROVE Measurable(t)
    BY <1>0, <1>2 DEF Measured, Measurable, MeasuredBatch
  <2>1. t.protection \in Kinds
    BY <1>0 DEF LoadInv, Fitted, FromFile, LoadedFrom
  <2>2. PICK i \in 1 .. next : Considered[i] = t.protection
    BY <1>0, <2>1, KindsConsidered DEF LoadInv
  <2>3. t \in Protected(Considered[i])
    BY <2>2 DEF Protected
  <2> QED
    BY <1>0, <2>3 DEF LoadInv, Measured
<1>5. Parsed' /\ Grouped' /\ StartsOrRefuses'
  BY <1>0 DEF Parsed, Grouped, StartsOrRefuses
<1> QED
  BY <1>1, <1>3, <1>4, <1>5 DEF LoadInv

LEMMA NextLoads == LoadInv /\ [Next]_vars => LoadInv'
<1> SUFFICES ASSUME LoadInv, [Next]_vars PROVE LoadInv'
  OBVIOUS
<1>1. CASE UNCHANGED vars
  <2>1. UNCHANGED <<phase, next>> /\ dir' = dir /\ config' = config /\ UNCHANGED asset
    BY <1>1 DEF vars
  <2>2. Loaded' = Loaded /\ Considered' = Considered
    BY <2>1 DEF Loaded, Considered, asset
  <2>3. ProcessTypes' /\ Parsed' /\ Grouped' /\ Fitted'
    BY <2>1, <2>2, SameProcess
    DEF LoadInv, ProcessTypes, Parsed, Grouped, Fitted, Looped, Times, asset
  <2>4. Measured' /\ StartsOrRefuses'
    BY <2>1, <2>2, SameProcess
    DEF LoadInv, Measured, StartsOrRefuses, Protected, Measurable, MeasuredBatch
  <2> QED
    BY <2>3, <2>4 DEF LoadInv
<1> QED
  BY <1>1, ParseFileStep, AllParsedStep, ProtectTracksStep, GenerateTrackGroupsStep,
     SetLoopDurationStep, OfferNextStep, ServeStep DEF Next
-----------------------------------------------------------------------------
(* Groups of pictures                                                      *)

(* What loader has tested: one distance between sync samples, from the      *)
(* first sample on.                                                         *)
LEMMA OneDistance ==
  ASSUME NEW s \in Seq(Sample), SameGop(s), GopLength(s) # 0
  PROVE  s[1].sync /\ SyncDistances(s) = {GopLength(s)}
<1>1. s[1].sync /\ SyncDistances(s) # {} /\ GopLength(s) \in SyncDistances(s)
  BY DEF GopLength
<1>2. IsFiniteSet(SyncDistances(s))
  <2>1. IsFiniteSet(1 .. Len(s))
    BY FS_Interval
  <2>2. SyncDistances(s) \subseteq 1 .. Len(s)
    BY DEF SyncDistances
  <2> QED
    BY <2>1, <2>2, FS_Subset
<1> DEFINE S == SyncDistances(s)
<1>3. Cardinality(S) <= 1
  BY <1>1 DEF SameGop
<1> HIDE DEF S
<1>4. Cardinality(S) \in Nat /\ Cardinality(S) # 0
  BY <1>1, <1>2, FS_CardinalityType, FS_EmptySet DEF S
<1>5. \E x \in S : S = {x}
  <2>1. IsFiniteSet(S) /\ Cardinality(S) = 1
    BY <1>2, <1>3, <1>4 DEF S
  <2> QED
    BY <2>1, FS_Singleton
<1> QED
  BY <1>1, <1>5 DEF S

(* After a sync sample that is not the last, the next is a GOP away.        *)
LEMMA NextSync ==
  ASSUME NEW s \in Seq(Sample), NEW G \in Nat \ {0}, SyncDistances(s) = {G},
         NEW i \in 1 .. Len(s), NEW j \in 1 .. Len(s), i < j, s[i].sync, s[j].sync
  PROVE  /\ i + G <= j /\ s[i + G].sync
         /\ \A k \in i + 1 .. i + G - 1 : ~s[k].sync
<1> DEFINE len == Len(s)
           later == {k \in 1 .. len : i < k /\ s[k].sync}
<1>1. len \in Nat /\ DOMAIN s = 1 .. len
  OBVIOUS
<1>2. later \in SUBSET Nat /\ j \in later
  BY <1>1
<1>3. PICK k \in later : \A m \in later : k <= m
  <2> HIDE DEF later
  <2> QED
    BY <1>2, Least
<1>4. k \in 1 .. len /\ i < k /\ s[k].sync /\ k <= j
  BY <1>2, <1>3
<1>5. \A m \in i + 1 .. k - 1 : ~s[m].sync
  <2> SUFFICES ASSUME NEW m \in i + 1 .. k - 1, s[m].sync PROVE FALSE
    OBVIOUS
  <2>1. m \in later /\ ~(k <= m)
    BY <1>1, <1>4
  <2> QED
    BY <1>3, <2>1
<1>6. k - i \in SyncDistances(s)
  <2> DEFINE n == k - i
  <2>1. n \in 1 .. Len(s) /\ i + n = k
    BY <1>1, <1>4
  <2> HIDE DEF n
  <2>2. \A m \in i + 1 .. i + n - 1 : ~s[m].sync
    BY <1>5, <2>1
  <2> QED
    BY <1>1, <1>4, <2>1, <2>2 DEF SyncDistances, n
<1>7. k - i = G
  BY <1>6
<1>8. k = i + G
  BY <1>1, <1>4, <1>7
<1> QED
  BY <1>1, <1>4, <1>5, <1>8

(* The remainder is the only one there is.                                  *)
LEMMA ModUnique ==
  ASSUME NEW a \in Nat, NEW b \in Nat \ {0}, NEW q \in Int, NEW r \in 0 .. b - 1,
         a = q * b + r
  PROVE  a % b = r
<1> DEFINE p == a \div b
           m == a % b
<1>1. p \in Nat /\ m \in 0 .. b - 1 /\ a = p * b + m
  <2>1. p \in Nat /\ m \in 0 .. b - 1 /\ a = b * p + m
    BY DivMod
  <2> HIDE DEF p, m
  <2> QED
    BY <2>1
<1> HIDE DEF p, m
<1>2. p * b < (q + 1) * b /\ q * b < (p + 1) * b
  BY <1>1
<1>3. p < q + 1 /\ q < p + 1
  BY <1>1, <1>2, MulLess
<1>4. p = q
  BY <1>1, <1>3
<1> QED
  BY <1>1, <1>4 DEF m

LEMMA ModShift ==
  ASSUME NEW a \in Nat, NEW b \in Nat \ {0}, NEW k \in Nat, k * b <= a
  PROVE  (a - k * b) % b = a % b
<1> DEFINE p == a \div b
           m == a % b
           c == a - k * b
<1>1. p \in Nat /\ m \in 0 .. b - 1 /\ a = p * b + m
  <2>1. p \in Nat /\ m \in 0 .. b - 1 /\ a = b * p + m
    BY DivMod
  <2> HIDE DEF p, m
  <2> QED
    BY <2>1
<1> HIDE DEF p, m
<1>2. c \in Nat /\ p - k \in Int /\ c = (p - k) * b + m
  BY <1>1
<1> HIDE DEF c
<1>3. c % b = m
  BY <1>1, <1>2, ModUnique
<1> QED
  BY <1>3 DEF c, m

(* The multiple at or below a number.                                       *)
LEMMA ModBelow ==
  ASSUME NEW a \in Nat, NEW b \in Nat \ {0}
  PROVE  /\ a % b \in 0 .. b - 1 /\ a - (a % b) \in Nat
         /\ (a - (a % b)) % b = 0
<1> DEFINE p == a \div b
           m == a % b
           c == a - m
<1>1. p \in Nat /\ m \in 0 .. b - 1 /\ a = p * b + m
  <2>1. p \in Nat /\ m \in 0 .. b - 1 /\ a = b * p + m
    BY DivMod
  <2> HIDE DEF p, m
  <2> QED
    BY <2>1
<1> HIDE DEF p, m
<1>2. c \in Nat /\ c = p * b + 0
  BY <1>1
<1> HIDE DEF c
<1>3. c % b = 0
  BY <1>1, <1>2, ModUnique
<1> QED
  BY <1>1, <1>2, <1>3 DEF c, m

(* Sync samples at one distance, the last a GOP before the end, are those   *)
(* at the multiples of it, and the samples are whole GOPs.                  *)
LEMMA WholeGops ==
  ASSUME NEW s \in Seq(Sample), NEW G \in 1 .. Len(s), SyncDistances(s) = {G},
         s[1].sync, s[Len(s) - G + 1].sync
  PROVE  /\ \A i \in 1 .. Len(s) : s[i].sync <=> (i - 1) % G = 0
         /\ Len(s) % G = 0
<1> DEFINE len == Len(s)
           InPlace(i) == s[i].sync <=> (i - 1) % G = 0
           odd == {i \in 1 .. len : ~InPlace(i)}
<1>1. len \in Nat /\ G \in Nat \ {0} /\ 1 \in 1 .. len
  OBVIOUS
<1>2. odd = {}
  <2> SUFFICES ASSUME odd # {} PROVE FALSE
    OBVIOUS
  <2>1. PICK i \in odd : \A j \in odd : i <= j
    <3>1. odd \in SUBSET Nat
      BY <1>1
    <3> HIDE DEF odd
    <3> QED
      BY <3>1, Least
  <2>2. i \in 1 .. len /\ ~InPlace(i) /\ \A j \in 1 .. i - 1 : InPlace(j)
    BY <1>1, <2>1
  <2>3. i # 1
    <3>1. 0 % G = 0
      <4>1. 0 = 0 * G + 0 /\ 0 \in 0 .. G - 1
        BY <1>1
      <4> QED
        BY <1>1, <4>1, ModUnique
    <3> QED
      BY <2>2, <3>1
  <2> DEFINE m == (i - 1) % G
             k == (i - 1) - m
  <2>4. m \in 0 .. G - 1 /\ k \in Nat /\ k % G = 0
    <3> DEFINE a == i - 1
    <3>1. a \in Nat
      BY <1>1, <2>2
    <3>2. m = a % G /\ k = a - (a % G)
      OBVIOUS
    <3> HIDE DEF a
    <3>3. a % G \in 0 .. G - 1 /\ a - (a % G) \in Nat /\ (a - (a % G)) % G = 0
      BY <1>1, <3>1, ModBelow
    <3> HIDE DEF m, k
    <3> QED
      BY <3>2, <3>3
  <2>5. m = (i - 1) % G /\ k = (i - 1) - m
    OBVIOUS
  <2> HIDE DEF m, k, InPlace
  <2>6. CASE m # 0
    <3>1. s[i].sync
      BY <2>2, <2>5, <2>6 DEF InPlace
    <3>2. k + 1 \in 1 .. i - 1 /\ (k + 1) - 1 = k
      BY <1>1, <2>2, <2>4, <2>5, <2>6
    <3>3. s[k + 1].sync
      BY <2>2, <2>4, <3>2 DEF InPlace
    <3>4. (k + 1) + G <= i
      <4>1. k + 1 \in 1 .. Len(s) /\ k + 1 < i /\ i \in 1 .. Len(s)
        BY <1>1, <2>2, <3>2
      <4> DEFINE h == k + 1
      <4> HIDE DEF h
      <4>2. h + G <= i
        BY <1>1, <3>1, <3>3, <4>1, NextSync DEF h
      <4> QED
        BY <4>2 DEF h
    <3>5. i \in Nat /\ m <= G - 1 /\ k = i - 1 - m /\ m \in Nat
      BY <1>1, <2>2, <2>4, <2>5
    <3>6. k + 1 + G = i + (G - m)
      BY <1>1, <3>5
    <3> QED
      BY <1>1, <3>4, <3>5, <3>6
  <2>7. CASE m = 0
    <3>1. ~s[i].sync
      BY <2>2, <2>5, <2>7 DEF InPlace
    <3>2. i - 1 >= G
      <4> SUFFICES ASSUME i - 1 < G PROVE FALSE
        BY <1>1, <2>2
      <4>1. i - 1 = 0 * G + (i - 1) /\ i - 1 \in 0 .. G - 1 /\ i - 1 \in Nat
        BY <1>1, <2>2
      <4> DEFINE a == i - 1
      <4> HIDE DEF a
      <4>2. a % G = a
        BY <1>1, <4>1, ModUnique, SMTT(40) DEF a
      <4> QED
        BY <2>2, <2>3, <2>5, <2>7, <4>2 DEF a
    <3> DEFINE h == i - G
    <3>3. h \in 1 .. i - 1 /\ h - 1 \in Nat /\ h + G = i
      BY <1>1, <2>2, <3>2
    <3>4. (h - 1) % G = 0
      <4> DEFINE a == i - 1
      <4>1. a \in Nat /\ 1 * G <= a /\ a - 1 * G = h - 1 /\ 1 \in Nat
        BY <1>1, <2>2, <3>2
      <4>2. a % G = 0
        BY <2>5, <2>7
      <4> HIDE DEF a
      <4>3. (a - 1 * G) % G = 0
        BY <1>1, <4>1, <4>2, ModShift
      <4> QED
        BY <4>1, <4>3
    <3> HIDE DEF h
    <3>5. s[h].sync
      BY <2>2, <3>3, <3>4 DEF InPlace
    <3> DEFINE last == len - G + 1
    <3>6. last \in 1 .. Len(s) /\ h < last /\ s[last].sync /\ h \in 1 .. Len(s)
      BY <1>1, <2>2, <3>3
    <3> HIDE DEF last
    <3>7. s[h + G].sync
      BY <1>1, <3>5, <3>6, NextSync
    <3> QED
      BY <3>1, <3>3, <3>7
  <2> QED
    BY <2>6, <2>7
<1>3. \A i \in 1 .. len : InPlace(i)
  BY <1>2
<1>4. len % G = 0
  <2> DEFINE last == len - G + 1
  <2>1. last \in 1 .. len /\ last - 1 = len - 1 * G /\ 1 * G <= len /\ s[last].sync
    BY <1>1
  <2>2. (last - 1) % G = 0
    BY <1>3, <2>1
  <2> HIDE DEF last, len
  <2>3. (len - 1 * G) % G = len % G
    BY <1>1, <2>1, ModShift
  <2> QED
    BY <2>1, <2>2, <2>3
<1> QED
  BY <1>3, <1>4

(* A track that loops by its own duration plays its samples round and       *)
(* round.                                                                   *)
LEMMA PlaysRound ==
  ASSUME NEW t, t.sampleDur \in Nat \ {0}, t.nrSamples \in Nat \ {0},
         t.loopDur = t.nrSamples * t.sampleDur, NEW n \in Nat
  PROVE  \E q \in Nat : /\ CalcSample(t, n) = n - q * t.nrSamples
                        /\ n - q * t.nrSamples \in 0 .. t.nrSamples - 1
<1> DEFINE D == t.sampleDur
           N == t.nrSamples
           L == t.loopDur
           q == (n * D) \div L
           c == CeilDiv(q * L, D)
<1>1. D \in Nat \ {0} /\ N \in Nat \ {0} /\ L = N * D /\ L \in Nat \ {0} /\ n * D \in Nat
  OBVIOUS
<1>2. q \in Nat /\ q * L <= n * D /\ n * D < (q + 1) * L
  <2> HIDE DEF D, N, L
  <2> DEFINE a == n * D
  <2>1. a \in Nat
    BY <1>1
  <2> HIDE DEF a
  <2>2. a \div L \in Nat /\ (a \div L) * L <= a /\ a < (a \div L + 1) * L
    BY <1>1, <2>1, DivBracket
  <2> QED
    BY <2>2 DEF a
<1>3. CalcSample(t, n) = n - c
  BY <1>1, CalcSampleFromRestart
<1> HIDE DEF q
<1>4. c = q * N
  <2> DEFINE w == q * L
             x == q * N
  <2>1. w \in Nat /\ x \in Int /\ x * D = w
    BY <1>1, <1>2
  <2> HIDE DEF w, x, D
  <2>2. x = CeilDiv(w, D)
    BY <1>1, <2>1, CeilDivUnique
  <2> QED
    BY <2>2 DEF w, x
<1>5. q * N <= n /\ n < (q + 1) * N
  <2> DEFINE x == q * N
             y == (q + 1) * N
  <2>1. x \in Int /\ y \in Int /\ x * D = q * L /\ y * D = (q + 1) * L
    BY <1>1, <1>2
  <2> HIDE DEF x, y
  <2>2. x * D < (n + 1) * D /\ n * D < y * D
    BY <1>1, <1>2, <2>1
  <2>3. x < n + 1 /\ n < y
    <3> HIDE DEF D
    <3> QED
      BY <1>1, <2>1, <2>2, MulLess
  <2> QED
    BY <2>1, <2>3 DEF x, y
<1>6. n - q * N \in 0 .. N - 1
  BY <1>1, <1>2, <1>5
<1> QED
  BY <1>2, <1>3, <1>4, <1>6

(* A track whose samples are whole GOPs plays a sync sample where a group   *)
(* starts and nowhere else, in every turn of its loop.                      *)
LEMMA PlaysGops ==
  ASSUME NEW t, t.samples \in Seq(Sample), t.nrSamples = Len(t.samples),
         t.sampleDur \in Nat \ {0}, t.loopDur = t.nrSamples * t.sampleDur,
         t.gopLength = GopLength(t.samples), SameGop(t.samples),
         t.gopLength \in 1 .. t.nrSamples,
         t.samples[t.nrSamples - t.gopLength + 1].sync, NEW n \in Nat
  PROVE  t.samples[CalcSample(t, n) + 1].sync <=> n % t.gopLength = 0
<1> DEFINE s == t.samples
           N == t.nrSamples
           G == t.gopLength
<1>1. N \in Nat \ {0} /\ G \in Nat \ {0} /\ G \in 1 .. N /\ s \in Seq(Sample) /\ N = Len(s)
  OBVIOUS
<1>2. s[1].sync /\ SyncDistances(s) = {G}
  <2>1. SameGop(s) /\ G = GopLength(s)
    OBVIOUS
  <2> HIDE DEF s, G
  <2> QED
    BY <1>1, <2>1, OneDistance
<1>3. PICK q \in Nat : CalcSample(t, n) = n - q * N /\ n - q * N \in 0 .. N - 1
  BY <1>1, PlaysRound
<1>4. s[N - G + 1].sync
  OBVIOUS
<1> DEFINE c == CalcSample(t, n)
<1>5. c = n - q * N /\ c \in 0 .. N - 1
  BY <1>3
<1> HIDE DEF c, s, N, G
<1>6. /\ \A i \in 1 .. N : s[i].sync <=> (i - 1) % G = 0
      /\ N % G = 0
  BY <1>1, <1>2, <1>4, WholeGops
<1>7. c % G = n % G
  <2> DEFINE m == N \div G
             k == q * m
  <2>1. m \in Nat /\ N = G * m
    <3> DEFINE r == N % G
    <3>1. m \in Nat /\ N = G * m + r
      BY <1>1, DivMod
    <3>2. r = 0
      BY <1>6
    <3> HIDE DEF m, r
    <3> QED
      BY <1>1, <3>1, <3>2
  <2> HIDE DEF m
  <2>2. k \in Nat /\ k * G = q * N
    BY <1>1, <2>1
  <2>3. k * G <= n /\ n - k * G = c
    <3> DEFINE x == q * N
    <3> HIDE DEF k
    <3>1. x \in Int /\ k * G = x /\ c = n - x /\ c \in Nat
      BY <1>1, <1>5, <2>2
    <3> DEFINE y == k * G
    <3>2. y = x
      BY <3>1
    <3> HIDE DEF x, y
    <3>3. y <= n /\ n - y = c
      BY <3>1, <3>2
    <3> QED
      BY <3>3 DEF y
  <2> HIDE DEF k
  <2> QED
    BY <1>1, <2>2, <2>3, ModShift
<1>8. s[c + 1].sync <=> c % G = 0
  <2>1. c + 1 \in 1 .. N /\ (c + 1) - 1 = c
    BY <1>1, <1>5
  <2> DEFINE i == c + 1
  <2> HIDE DEF i
  <2>2. s[i].sync <=> (i - 1) % G = 0
    BY <1>6, <2>1 DEF i
  <2> QED
    BY <2>1, <2>2 DEF i
<1> QED
  BY <1>7, <1>8 DEF c, s, G
-----------------------------------------------------------------------------
(* Results                                                                 *)

(* The inductive invariant: what each phase of starting has established.    *)
THEOREM LoadInductive == Spec => []LoadInv
BY InitLoads, NextLoads, PTL DEF Spec

(* Every track that is served plays: its loop is not empty and lies within  *)
(* its samples, for any directory and any width of the products.            *)
THEOREM TracksPlay == Spec => []ServedTracksPlay
<1>1. LoadInv => ServedTracksPlay
  <2> SUFFICES ASSUME LoadInv, phase = "serving", NEW t \in Loaded
               PROVE  t.loopDur \in 1 .. t.nrSamples * t.sampleDur
    BY DEF ServedTracksPlay, Served
  <2>1. PICK f \in Range(dir) : LoadedFrom(t, f)
    BY DEF LoadInv, Fitted, FromFile
  <2> DEFINE all == t.nrSamples * t.sampleDur
             product == Times(t.duration, 1000)
             loop == Times(loopDurMS, t.timeScale)
  <2>2. /\ t.timeScale \in Nat \ {0} /\ t.duration \in Nat
        /\ all \in Nat /\ t.duration <= all
    BY <2>1, TrackNumbers DEF LoadInv
  <2>3. loopDurMS \in Nat
    BY LoopsInTime DEF LoadInv, Fitted
  <2>4. product \in Nat /\ product <= t.duration * 1000
    <3>1. t.duration * 1000 \in Nat
      BY <2>2
    <3> QED
      BY <3>1, Wrapped DEF Times
  <2>5. loop \in Nat
    <3>1. loopDurMS * t.timeScale \in Nat
      BY <2>2, <2>3
    <3> QED
      BY <3>1, Wrapped DEF Times
  <2>6. t.loopDur > 0
    BY DEF LoadInv, Measured, Measurable
  <2>7. t.loopDur = t.duration \/ (product >= loop /\ t.loopDur = loop \div 1000)
    BY DEF LoadInv, Fitted, Looped
  <2> HIDE DEF all, product, loop
  <2>8. t.loopDur \in Nat /\ t.loopDur <= t.duration
    BY <2>2, <2>4, <2>5, <2>7
  <2> QED
    BY <2>2, <2>6, <2>8 DEF all
<1> QED
  BY <1>1, LoadInductive, PTL

(* Clips that are short enough for 32 bits loop together, to within a tick, *)
(* whichever track the loop duration was taken from.                        *)
THEOREM ClipsLoopTogether == Spec => []LoopsTogether
<1>1. LoadInv => LoopsTogether
  <2> SUFFICES ASSUME LoadInv, ShortClips, phase = "serving", NEW t \in Loaded
               PROVE  loopDurMS * t.timeScale - t.loopDur * 1000 \in 0 .. 999
    BY DEF LoopsTogether, Served
  <2>0. ProcessTypes
    BY DEF LoadInv
  <2>1. PICK f \in Range(dir) : LoadedFrom(t, f)
    BY DEF LoadInv, Fitted, FromFile
  <2>2. PICK u \in Loaded : loopDurMS = Times(u.duration, 1000) \div u.timeScale
    BY DEF LoadInv, Fitted
  <2>3. PICK h \in Range(dir) : LoadedFrom(u, h)
    BY <2>2 DEF LoadInv, Fitted, FromFile
  <2> DEFINE loop == loopDurMS * t.timeScale
  <2>4. /\ loopDurMS \in Nat /\ Times(loopDurMS, t.timeScale) = loop
        /\ t.timeScale \in Nat
    <3>1. t.timeScale = f.timeScale /\ t.timeScale \in Nat
      BY <2>0, <2>1, TrackNumbers DEF LoadedFrom
    <3> QED
      BY <2>0, <2>1, <2>2, <2>3, <3>1, ShortClipsLoop
  <2>5. /\ Times(t.duration, 1000) = t.duration * 1000 /\ t.duration \in Nat
    BY <2>0, <2>1, ShortClipsLoop, TrackNumbers
  <2>6. loop \in Nat
    BY <2>4
  <2>7. \/ loop = t.duration * 1000 /\ t.loopDur = t.duration
        \/ t.loopDur = loop \div 1000
    BY <2>4, <2>5 DEF LoadInv, Fitted, Looped
  <2> HIDE DEF loop
  <2>8. loop - t.loopDur * 1000 \in 0 .. 999
    BY <2>5, <2>6, <2>7, SMTT(40)
  <2> QED
    BY <2>8 DEF loop
<1> QED
  BY <1>1, LoadInductive, PTL

(* On short clips of two batches each, with a complete DRM configuration,   *)
(* the process serves or refuses and never panics.                          *)
THEOREM NoPanic == Spec => []StartsOrRefuses
<1>1. LoadInv => StartsOrRefuses
  BY DEF LoadInv
<1> QED
  BY <1>1, LoadInductive, PTL

(* A served track plays for as long as the process runs: no sample number   *)
(* underflows or leads beyond the samples that were loaded, and the loop    *)
(* begins again exactly where a loop period does (asset.go, CalcSample).    *)
ServedForEver == \A t \in Served : \A n \in Nat : PlaysAt(t, n)

THEOREM TracksPlayOn == Spec => []ServedForEver
<1>1. LoadInv /\ ServedTracksPlay => ServedForEver
  <2> SUFFICES ASSUME LoadInv, ServedTracksPlay, phase = "serving", NEW t \in Loaded,
                      NEW n \in Nat
               PROVE  PlaysAt(t, n)
    BY DEF ServedForEver, Served
  <2>1. PICK f \in Range(dir) : LoadedFrom(t, f)
    BY DEF LoadInv, Fitted, FromFile
  <2>2. t.sampleDur \in Nat \ {0} /\ t.nrSamples \in Nat \ {0}
    BY <2>1, TrackNumbers DEF LoadInv
  <2>3. t.loopDur \in 1 .. t.nrSamples * t.sampleDur
    BY DEF ServedTracksPlay, Served
  <2> DEFINE all == t.nrSamples * t.sampleDur
  <2>4. all \in Nat
    BY <2>2
  <2> HIDE DEF all
  <2>5. t.loopDur \in Nat \ {0} /\ t.loopDur <= all
    BY <2>3, <2>4 DEF all
  <2> QED
    BY <2>2, <2>5, PlaysOn DEF all
<1> QED
  BY <1>1, LoadInductive, TracksPlay, PTL

(* Every group of a video track is a GOP of its file, in every turn of the  *)
(* loop, when the last GOP is whole and the duration has not wrapped: not   *)
(* only in the turns a run looks at (publishMoqMIVideo makes a group of      *)
(* gopLength samples).                                                      *)
GopsForEver ==
  \A t \in {u \in Served : u.type = "video" /\ LastGopWhole(u)} : \A n \in Nat :
    t.samples[CalcSample(t, n) + 1].sync <=> n % t.gopLength = 0

THEOREM GopsPlayOn == Spec => []GopsForEver
<1>1. LoadInv => GopsForEver
  <2> SUFFICES ASSUME LoadInv, phase = "serving", NEW t \in Loaded, t.type = "video",
                      LastGopWhole(t), NEW n \in Nat
               PROVE  t.samples[CalcSample(t, n) + 1].sync <=> n % t.gopLength = 0
    BY DEF GopsForEver, Served
  <2>1. PICK f \in Range(dir) : LoadedFrom(t, f)
    BY DEF LoadInv, Fitted, FromFile
  <2>2. /\ f \in File /\ t.sampleDur \in Nat \ {0} /\ t.nrSamples \in Nat \ {0}
        /\ t.nrSamples * t.sampleDur < Word => t.duration = t.nrSamples * t.sampleDur
    BY <2>1, TrackNumbers DEF LoadInv
  <2>3. t.loopDur = t.duration
    BY DEF LoadInv, Fitted, Looped
  <2>4. t.loopDur = t.nrSamples * t.sampleDur
    BY <2>2, <2>3 DEF LastGopWhole
  <2>5. /\ t.samples \in Seq(Sample) /\ t.nrSamples = Len(t.samples)
        /\ t.gopLength = GopLength(t.samples) /\ SameGop(t.samples)
    BY <2>1, <2>2, AfterEditFacts DEF LoadedFrom
  <2> QED
    BY <2>2, <2>4, <2>5, PlaysGops DEF LastGopWhole
<1> QED
  BY <1>1, LoadInductive, PTL

(* Every group is a GOP in the turns of the loop that a run looks at.       *)
THEOREM GroupsPlayGops == Spec => []GroupsAreGops
<1>1. GopsForEver => GroupsAreGops
  BY DEF GopsForEver, GroupsAreGops
<1> QED
  BY <1>1, GopsPlayOn, PTL

(* What the publishing goroutines assume of a track is what is loaded: with *)
(* any packaging, a served track is one that TrackLayout is about, if no    *)
(* GOP is shorter than a millisecond.                                       *)
Layout == INSTANCE TrackLayout

Published(t, packaging) ==
  [packaging |-> packaging, timeScale |-> t.timeScale, sampleDur |-> t.sampleDur,
   sampleBatch |-> t.sampleBatch, gopLength |-> t.gopLength]

ServedAsAssumed ==
  \A t \in Served : \A packaging \in Layout!Packagings \ {"subtitle"} :
    (t.gopLength # 0 => t.gopLength * t.sampleDur * 1000 >= t.timeScale) =>
      Layout!LoadedTrack(Published(t, packaging))

THEOREM LoadedAsPublished == Spec => []ServedAsAssumed
<1>1. LoadInv => ServedAsAssumed
  <2> SUFFICES ASSUME LoadInv, phase = "serving", NEW t \in Loaded,
                      NEW packaging \in Layout!Packagings \ {"subtitle"},
                      t.gopLength # 0 => t.gopLength * t.sampleDur * 1000 >= t.timeScale
               PROVE  Layout!LoadedTrack(Published(t, packaging))
    BY DEF ServedAsAssumed, Served
  <2>1. PICK f \in Range(dir) : LoadedFrom(t, f)
    BY DEF LoadInv, Fitted, FromFile
  <2>2. /\ f \in File /\ t.timeScale \in Nat \ {0} /\ t.sampleDur \in Nat \ {0}
        /\ t.sampleBatch \in Nat \ {0}
    BY <2>1, TrackNumbers DEF LoadInv
  <2>3. t.gopLength \in Nat
    <3>1. t.gopLength = GopLength(t.samples)
      BY <2>1 DEF LoadedFrom
    <3>2. \A n \in SyncDistances(t.samples) : n \in Nat
      BY DEF SyncDistances
    <3> QED
      BY <3>1, <3>2 DEF GopLength
  <2> DEFINE p == Published(t, packaging)
  <2>4. /\ p \in [packaging : Layout!Packagings, timeScale : Nat \ {0},
                   sampleDur : Nat \ {0}, sampleBatch : Nat \ {0}, gopLength : Nat]
        /\ p.packaging # "subtitle" /\ p.gopLength = t.gopLength
        /\ p.sampleDur = t.sampleDur /\ p.timeScale = t.timeScale
    BY <2>2, <2>3 DEF Published
  <2> HIDE DEF p
  <2>5. Layout!LoadedTrack(p)
    BY <2>4 DEF Layout!LoadedTrack
  <2> QED
    BY <2>5 DEF p
<1> QED
  BY <1>1, LoadInductive, PTL
-----------------------------------------------------------------------------
(* The offer                                                               *)

(* What the catalogs need of a track, which is a copy of a file.           *)
Listing(t) ==
  [name |-> t.name, type |-> t.type, codec |-> t.codec, bitrate |-> t.bitrate,
   protection |-> t.protection]

CopyOf(f, protection) ==
  [name |-> NameOf(f, protection), type |-> f.type, codec |-> f.codec,
   bitrate |-> f.bitrate, protection |-> protection]

Has(ts, f, protection) ==
  \E t \in ts : LoadedFrom(t, f) /\ t.protection = protection

KindsAdded == {"none"} \union {config.protections[i].type : i \in 1 .. next}

(* Every file that was parsed has its track, in the list of its type, and  *)
(* a copy for each protection that was added.                              *)
Copied ==
  /\ phase = "parse" =>
       /\ next <= Len(dir)
       /\ \A i \in 1 .. next : Has(tracks[dir[i].type], dir[i], "none")
  /\ phase = "protect" =>
       /\ next <= Len(config.protections)
       /\ \A f \in Range(dir) : \A p \in KindsAdded : Has(tracks[f.type], f, p)
  /\ phase \in {"parse", "protect"} =>
       \A type \in Types : \A t \in tracks[type] : t.type = type
  /\ phase \in {"loop", "offer", "serving"} =>
       \A f \in Range(dir) : \A p \in Kinds : Has(Loaded, f, p)

(* Tracks of a codec are in one group, by ascending bitrate.               *)
Sorted(gs) ==
  /\ DOMAIN gs \subseteq Nat
  /\ \A g \in DOMAIN gs : DOMAIN gs[g] \subseteq Nat
  /\ \A g, h \in DOMAIN gs : \A i \in DOMAIN gs[g], j \in DOMAIN gs[h] :
       gs[g][i].codec = gs[h][j].codec =>
         g = h /\ (i < j => gs[g][i].bitrate <= gs[g][j].bitrate)

(* What a turn of the offer adds.                                          *)
Offered(k) ==
  CASE k = "loc"   -> Offer!GenLOCCatalogEntry # {}
    [] k = "moqmi" -> Offer!HasMoqMI
    [] OTHER       -> TRUE

Entry(k) ==
  CASE k = "loc"   -> Offer!NamespaceEntry("msf/clear", "loc", Offer!GenLOCCatalogEntry,
                                           Offer!NoTracks)
    [] k = "moqmi" -> Offer!NamespaceEntry("moq-mi/clear", "moqmi", {},
                                           Offer!BuildMoqMITrackMap)
    [] OTHER       -> Offer!NamespaceEntry(NamespaceOf(k), "cmaf",
                                           Offer!GenCMAFCatalogEntry(k), Offer!NoTracks)

Turn(k) == IF Offered(k) THEN <<Entry(k)>> ELSE << >>

OfferedBy(n) ==
  CASE n = 0 -> << >>
    [] n = 1 -> Turn("loc")
    [] n = 2 -> Turn("loc") \o Turn("moqmi")
    [] n = 3 -> Turn("loc") \o Turn("moqmi") \o Turn("none")
    [] n = 4 -> Turn("loc") \o Turn("moqmi") \o Turn("none") \o Turn(Considered[4])
    [] n = 5 -> Turn("loc") \o Turn("moqmi") \o Turn("none") \o Turn(Considered[4])
                  \o Turn(Considered[5])

Offering ==
  /\ phase \in {"parse", "protect", "loop"} => namespaces = << >>
  /\ phase = "offer" => next <= Len(Considered) /\ namespaces = OfferedBy(next)
  /\ phase = "serving" => namespaces = Offer!Namespaces

Placed == phase \in {"loop", "offer"} => Sorted(groups)

OfferInv == LoadInv /\ Copied /\ Placed /\ Offering
-----------------------------------------------------------------------------
(* A sorting holds the tracks it sorts.                                     *)
LEMMA SortingsHold ==
  ASSUME NEW ts, IsFiniteSet(ts), NEW s \in Sortings(ts)
  PROVE  Range(s) = ts
<1> DEFINE D == 1 .. Cardinality(ts)
<1>1. Cardinality(ts) \in Nat
  BY FS_CardinalityType
<1>2. s \in [D -> ts] /\ \A i, j \in D : i # j => s[i] # s[j]
  BY DEF Sortings, SetToSeqs
<1>3. Cardinality(D) = Cardinality(ts)
  BY <1>1, FS_Interval
<1> HIDE DEF D
<1>4. s \in Injection(D, ts)
  BY <1>2 DEF Injection, IsInjective
<1>5. s \in Surjection(D, ts)
  BY <1>3, <1>4, FS_Injection
<1> QED
  BY <1>2, <1>5 DEF Surjection, Range

(* Sorting is by the rank of the codec among video tracks, then by bitrate. *)
RankOf(t) == IF t.type = "video" THEN CodecRank(t) ELSE 0

AtMost(t, u) == RankOf(t) < RankOf(u) \/ (RankOf(t) = RankOf(u) /\ t.bitrate <= u.bitrate)

LEMMA RankFacts ==
  ASSUME NEW type \in Types, NEW t, NEW u, t.type = type, u.type = type,
         t.codec \in CodecsOf(type), u.codec \in CodecsOf(type)
  PROVE  /\ RankOf(t) \in Nat
         /\ t.codec = u.codec => RankOf(t) = RankOf(u)
         /\ MayPrecede(t, u) => AtMost(t, u)
<1>1. DOMAIN VideoCodecs = 1 .. 3
  BY DEF VideoCodecs
<1>2. CASE type = "video"
  <2>1. ASSUME NEW v, v.type = type, v.codec \in CodecsOf(type)
        PROVE  CodecRank(v) \in 1 .. 3 /\ VideoCodecs[CodecRank(v)] = v.codec
    <3>1. \E i \in DOMAIN VideoCodecs : VideoCodecs[i] = v.codec
      BY <1>2, <2>1 DEF CodecsOf, Range
    <3> QED
      BY <1>1, <3>1 DEF CodecRank
  <2>2. t.codec = u.codec => CodecRank(t) = CodecRank(u)
    BY DEF CodecRank
  <2> QED
    BY <1>2, <2>1, <2>2 DEF RankOf, MayPrecede, AtMost
<1>3. CASE type # "video"
  BY <1>3 DEF RankOf, MayPrecede, AtMost
<1> QED
  BY <1>2, <1>3

LEMMA Ascending ==
  ASSUME NEW type \in Types, NEW ts, IsFiniteSet(ts), NEW s \in Sortings(ts),
         \A t \in ts : t.type = type /\ t.codec \in CodecsOf(type) /\ t.bitrate \in Nat,
         NEW i \in DOMAIN s, NEW j \in DOMAIN s, i < j, s[i].codec = s[j].codec
  PROVE  s[i].bitrate <= s[j].bitrate
<1> DEFINE len == Len(s)
<1>1. s \in Seq(ts) /\ len \in Nat /\ DOMAIN s = 1 .. len
  BY SortedTracks
<1>2. \A k \in 1 .. len : s[k] \in ts
  BY <1>1
<1>3. \A k, m \in 1 .. len :
        /\ RankOf(s[k]) \in Nat /\ s[k].bitrate \in Nat
        /\ s[k].codec = s[m].codec => RankOf(s[k]) = RankOf(s[m])
        /\ MayPrecede(s[k], s[m]) => AtMost(s[k], s[m])
  BY <1>2, RankFacts
<1>4. \A k \in 1 .. len - 1 : AtMost(s[k], s[k + 1])
  BY <1>1, <1>3 DEF Sortings
<1> DEFINE odd == {k \in i + 1 .. len : ~AtMost(s[i], s[k])}
<1>5. odd = {}
  <2> SUFFICES ASSUME odd # {} PROVE FALSE
    OBVIOUS
  <2>1. PICK k \in odd : \A m \in odd : k <= m
    <3>1. odd \in SUBSET Nat
      BY <1>1
    <3> HIDE DEF odd
    <3> QED
      BY <3>1, Least
  <2>2. k \in i + 1 .. len /\ ~AtMost(s[i], s[k]) /\ k - 1 \in 1 .. len - 1
    BY <1>1, <2>1
  <2>3. AtMost(s[k - 1], s[k])
    <3> DEFINE h == k - 1
    <3>1. h \in 1 .. len - 1 /\ h + 1 = k
      BY <1>1, <2>2
    <3> HIDE DEF h
    <3>2. AtMost(s[h], s[k])
      BY <1>4, <3>1
    <3> QED
      BY <3>2 DEF h
  <2>4. CASE k = i + 1
    BY <1>1, <2>2, <2>3, <2>4
  <2>5. CASE k # i + 1
    <3>1. k - 1 \in i + 1 .. len /\ ~(k <= k - 1)
      BY <1>1, <2>2, <2>5
    <3>2. AtMost(s[i], s[k - 1])
      BY <2>1, <3>1
    <3>3. k \in 1 .. len /\ k - 1 \in 1 .. len /\ i \in 1 .. len
      BY <1>1, <2>2
    <3> DEFINE x == RankOf(s[i])
               y == RankOf(s[k - 1])
               z == RankOf(s[k])
               a == s[i].bitrate
               b == s[k - 1].bitrate
               c == s[k].bitrate
    <3>4. x \in Nat /\ y \in Nat /\ z \in Nat /\ a \in Nat /\ b \in Nat /\ c \in Nat
      BY <1>3, <3>3
    <3>5. (x < y \/ (x = y /\ a <= b)) /\ (y < z \/ (y = z /\ b <= c))
      BY <2>3, <3>2 DEF AtMost
    <3>6. ~(x < z \/ (x = z /\ a <= c))
      BY <2>2 DEF AtMost
    <3> HIDE DEF x, y, z, a, b, c
    <3> QED
      BY <3>4, <3>5, <3>6
  <2> QED
    BY <2>4, <2>5
<1>6. AtMost(s[i], s[j])
  <2>1. j \in i + 1 .. len
    BY <1>1
  <2> QED
    BY <1>5, <2>1
<1>7. RankOf(s[i]) = RankOf(s[j]) /\ RankOf(s[i]) \in Nat
  BY <1>1, <1>3
<1> QED
  BY <1>6, <1>7 DEF AtMost

(* Some clear track of a codec comes first, and none has a lower bitrate.   *)
LEMMA FirstIsLowest ==
  ASSUME Sorted(groups), NEW codec, ClearOf(codec) # {}
  PROVE  /\ First(ClearOf(codec)) \in Loaded
         /\ IsClear(First(ClearOf(codec))) /\ First(ClearOf(codec)).codec = codec
         /\ \A t \in Loaded : IsClear(t) /\ t.codec = codec
              => \/ First(ClearOf(codec)).bitrate <= t.bitrate
                 \/ First(ClearOf(codec)) = t
<1> DEFINE places == ClearOf(codec)
           gs == {p[1] : p \in places}
<1>1. \A p \in places : /\ p = <<p[1], p[2]>>
                        /\ p[1] \in DOMAIN groups /\ p[2] \in DOMAIN groups[p[1]]
                        /\ p[1] \in Nat /\ p[2] \in Nat
                        /\ IsClear(groups[p[1]][p[2]])
                        /\ groups[p[1]][p[2]].codec = codec
  BY DEF ClearOf, Sorted
<1>2. \A g \in DOMAIN groups : \A i \in DOMAIN groups[g] :
        IsClear(groups[g][i]) /\ groups[g][i].codec = codec => <<g, i>> \in places
  BY DEF ClearOf
<1>3. \E p \in places : TRUE
  OBVIOUS
<1> HIDE DEF places
<1>4. PICK g \in gs : \A h \in gs : g <= h
  <2>1. gs \in SUBSET Nat /\ gs # {}
    BY <1>1, <1>3
  <2> HIDE DEF gs
  <2> QED
    BY <2>1, Least
<1> DEFINE is == {p[2] : p \in {q \in places : q[1] = g}}
<1>5. PICK i \in is : \A j \in is : i <= j
  <2>1. is \in SUBSET Nat /\ is # {}
    BY <1>1, <1>4
  <2> HIDE DEF is
  <2> QED
    BY <2>1, Least
<1>6. \E q \in places : \A r \in places : Before(q, r)
  <2>1. PICK q \in places : q[1] = g /\ q[2] = i
    BY <1>5
  <2>2. ASSUME NEW r \in places PROVE Before(q, r)
    <3>1. g <= r[1] /\ (r[1] = g => i <= r[2])
      BY <1>4, <1>5, <2>2
    <3>2. g \in Nat /\ r[1] \in Nat
      BY <1>1, <2>1, <2>2
    <3> QED
      BY <2>1, <3>1, <3>2 DEF Before
  <2> QED
    BY <2>2
<1> DEFINE p == CHOOSE q \in places : \A r \in places : Before(q, r)
<1>7. p \in places /\ \A r \in places : Before(p, r)
  BY <1>6
<1>8. First(places) = groups[p[1]][p[2]]
  BY DEF First
<1> HIDE DEF p
<1>9. /\ First(places) \in Loaded
      /\ IsClear(First(places)) /\ First(places).codec = codec
  BY <1>1, <1>7, <1>8 DEF Loaded, Range
<1>10. ASSUME NEW t \in Loaded, IsClear(t), t.codec = codec
       PROVE  First(places).bitrate <= t.bitrate \/ First(places) = t
  <2>1. PICK h \in DOMAIN groups : \E j \in DOMAIN groups[h] : t = groups[h][j]
    BY DEF Loaded, Range
  <2>2. PICK j \in DOMAIN groups[h] : t = groups[h][j]
    BY <2>1
  <2>3. <<h, j>> \in places
    BY <1>2, <1>10, <2>2
  <2>4. Before(p, <<h, j>>)
    BY <1>7, <2>3
  <2>5. p[1] = h
    BY <1>1, <1>7, <1>10, <2>2 DEF Sorted
  <2>6. h \in Nat /\ p[2] \in Nat /\ j \in Nat /\ p[2] <= j
    BY <1>1, <1>7, <2>3, <2>4, <2>5 DEF Before
  <2>7. CASE p[2] = j
    BY <1>8, <2>2, <2>5, <2>7
  <2>8. CASE p[2] # j
    <3>1. p[2] < j
      BY <2>6, <2>8
    <3> QED
      BY <1>1, <1>7, <1>8, <1>10, <2>2, <2>5, <3>1 DEF Sorted
  <2> QED
    BY <2>7, <2>8
<1> QED
  BY <1>9, <1>10 DEF places
-----------------------------------------------------------------------------
(* Copies                                                                  *)

LEMMA SameCopies ==
  ASSUME dir' = dir, config' = config
  PROVE  /\ \A ts, f, p : Has(ts, f, p)' <=> Has(ts, f, p)
         /\ Kinds' = Kinds /\ Range(dir)' = Range(dir)
BY DEF Has, LoadedFrom, Kinds, Range

LEMMA MoreTracks ==
  ASSUME NEW ts, NEW us, ts \subseteq us, NEW f, NEW p, Has(ts, f, p)
  PROVE  Has(us, f, p)
BY DEF Has

LEMMA StoppedCopies ==
  ASSUME phase' \in {"refused", "panicked"}
  PROVE  Copied' /\ Placed'
BY DEF Copied, Placed

LEMMA ParseFileCopies ==
  ASSUME OfferInv, ParseFile
  PROVE  Copied' /\ Placed'
<1> DEFINE f == dir[next + 1]
<1>0. /\ ProcessTypes /\ Copied /\ phase = "parse"
      /\ dir \in Seq(File) /\ next \in Nat /\ next < Len(dir)
  BY LoadingAssumption DEF OfferInv, LoadInv, ProcessTypes, ParseFile
<1>1. f \in Range(dir) /\ f.type \in Types
  <2>1. next + 1 \in DOMAIN dir
    BY <1>0
  <2>2. f \in Range(dir)
    BY <1>0, <2>1 DEF Range
  <2> QED
    BY <1>0, <2>2, FilesOf, FileFields
<1>2. CASE Refuse \/ Panic
  BY <1>2, StoppedCopies DEF Refuse, Panic, Stop
<1>3. CASE /\ AfterEdit(f) # << >> /\ SameGop(AfterEdit(f))
           /\ tracks' = [tracks EXCEPT ![f.type] = @ \union {ContentTrack(f)}]
           /\ Advance /\ UNCHANGED <<groups, loopDurMS, namespaces>>
  <2> DEFINE new == ContentTrack(f)
  <2>1. LoadedFrom(new, f) /\ new.protection = "none" /\ new.type = f.type
    BY <1>0, <1>1, <1>3, ContentTrackLoads DEF LoadedFrom
  <2>2. /\ phase' = "parse" /\ dir' = dir /\ config' = config /\ next' = next + 1
        /\ tracks'[f.type] = tracks[f.type] \union {new}
        /\ \A type \in Types \ {f.type} : tracks'[type] = tracks[type]
        /\ \A type \in Types : tracks[type] \subseteq tracks'[type]
    BY <1>0, <1>1, <1>3 DEF Advance, ProcessTypes
  <2> HIDE DEF new
  <2>3. ASSUME NEW i \in 1 .. next + 1 PROVE Has(tracks'[dir[i].type], dir[i], "none")
    <3>1. CASE i = next + 1
      BY <2>1, <2>2, <3>1 DEF Has
    <3>2. CASE i # next + 1
      <4>1. i \in 1 .. next /\ i \in DOMAIN dir
        BY <1>0, <2>3, <3>2
      <4>2. dir[i] \in Range(dir)
        BY <4>1 DEF Range
      <4>3. dir[i].type \in Types
        BY <1>0, <4>2, FilesOf, FileFields
      <4> QED
        BY <1>0, <2>2, <4>1, <4>3, MoreTracks DEF Copied
    <3> QED
      BY <3>1, <3>2
  <2>4. \A type \in Types : \A t \in tracks'[type] : t.type = type
    BY <1>0, <1>1, <2>1, <2>2 DEF Copied
  <2>5. next + 1 <= Len(dir)
    BY <1>0
  <2> HIDE DEF f
  <2>6. Copied'
    BY <2>2, <2>3, <2>4, <2>5, SameCopies DEF Copied
  <2> QED
    BY <2>2, <2>6 DEF Placed
<1> QED
  BY <1>2, <1>3 DEF ParseFile

LEMMA AllParsedCopies ==
  ASSUME OfferInv, AllParsed
  PROVE  Copied' /\ Placed'
<1>0. /\ ProcessTypes /\ Copied /\ phase = "parse" /\ next = Len(dir)
      /\ dir \in Seq(File) /\ config.protections \in Seq(Protection)
      /\ phase' = "protect" /\ next' = 0 /\ dir' = dir /\ config' = config
      /\ tracks' = tracks
  BY LoadingAssumption, ConfigFields DEF OfferInv, LoadInv, ProcessTypes, AllParsed, Enter, asset
<1>1. 0 <= Len(config.protections)
  BY <1>0
<1>2. ASSUME NEW f \in Range(dir), NEW p \in KindsAdded'
      PROVE  Has(tracks[f.type], f, p)
  <2>1. p = "none"
    BY <1>0 DEF KindsAdded
  <2>2. PICK i \in DOMAIN dir : f = dir[i]
    BY DEF Range
  <2>3. i \in 1 .. next
    BY <1>0, <2>2
  <2> QED
    BY <1>0, <2>1, <2>2, <2>3 DEF Copied
<1>3. Copied'
  <2>1. \A type \in Types : \A t \in tracks[type] : t.type = type
    BY <1>0 DEF Copied
  <2> QED
    BY <1>0, <1>1, <1>2, <2>1, SameCopies DEF Copied
<1> QED
  BY <1>0, <1>3 DEF Placed

LEMMA ProtectTracksCopies ==
  ASSUME OfferInv, ProtectTracks
  PROVE  Copied' /\ Placed'
<1> DEFINE p == config.protections[next + 1]
<1>0. /\ ProcessTypes /\ Copied /\ phase = "protect"
      /\ config.protections \in Seq(Protection) /\ next \in Nat
      /\ next < Len(config.protections)
  BY ConfigFields DEF OfferInv, LoadInv, ProcessTypes, ProtectTracks
<1>1. next + 1 \in DOMAIN config.protections /\ next + 1 <= Len(config.protections)
  BY <1>0
<1>2. p.type \in Kinds \ {"none"}
  BY <1>0, <1>1, KindTypes
<1>3. CASE Refuse \/ Panic
  BY <1>3, StoppedCopies DEF Refuse, Panic, Stop
<1>4. CASE /\ tracks' = [t \in Types |-> tracks[t] \union Copies(tracks[t], p.type)]
           /\ Advance /\ UNCHANGED <<groups, loopDurMS, namespaces>>
  <2>1. phase' = "protect" /\ dir' = dir /\ config' = config /\ next' = next + 1
    BY <1>0, <1>4 DEF Advance
  <2>2. KindsAdded' = KindsAdded \union {p.type}
    BY <1>0, <2>1 DEF KindsAdded
  <2> DEFINE kind == p.type
  <2>3. \A type \in Types : tracks'[type] = tracks[type] \union Copies(tracks[type], kind)
    BY <1>4
  <2> HIDE DEF kind, p
  <2>4. ASSUME NEW f \in Range(dir), NEW k \in KindsAdded \union {kind}
        PROVE  Has(tracks'[f.type], f, k)
    <3>1. f.type \in Types
      BY <1>0, <2>4, FilesOf, FileFields
    <3>2. CASE k \in KindsAdded
      <4>1. Has(tracks[f.type], f, k)
        BY <1>0, <3>2 DEF Copied
      <4> QED
        BY <2>3, <3>1, <4>1, MoreTracks
    <3>3. CASE k = kind
      <4>1. PICK t \in tracks[f.type] : LoadedFrom(t, f) /\ t.protection = "none"
        BY <1>0 DEF Copied, KindsAdded, Has
      <4>2. IsClear(t)
        BY <4>1 DEF IsClear
      <4>3. AddProtectionInfo(t, kind) \in Copies(tracks[f.type], kind)
        BY <4>1, <4>2 DEF Copies
      <4>4. LoadedFrom(AddProtectionInfo(t, kind), f) /\ AddProtectionInfo(t, kind).protection = kind
        BY <1>2, <4>1, <4>2, CopyLoads DEF kind
      <4> QED
        BY <2>3, <3>1, <3>3, <4>3, <4>4 DEF Has
    <3> QED
      BY <3>2, <3>3
  <2>5. ASSUME NEW type \in Types, NEW t \in tracks'[type] PROVE t.type = type
    <3>1. \A u \in tracks[type] : u.type = type
      BY <1>0 DEF Copied
    <3>2. CASE t \in tracks[type]
      BY <3>1, <3>2
    <3>3. CASE t \in Copies(tracks[type], kind)
      <4>1. PICK u \in tracks[type] : IsClear(u) /\ t = AddProtectionInfo(u, kind)
        BY <3>3 DEF Copies
      <4>2. FromFile(u)
        BY <1>0, <4>1 DEF OfferInv, LoadInv, Parsed
      <4>3. t.type = u.type
        BY <4>1, <4>2 DEF AddProtectionInfo, FromFile, LoadedFrom, Fields
      <4> QED
        BY <3>1, <4>3
    <3> QED
      BY <2>3, <2>5, <3>2, <3>3
  <2>6. Copied'
    BY <1>1, <2>1, <2>2, <2>4, <2>5, SameCopies DEF Copied, kind
  <2> QED
    BY <2>1, <2>6 DEF Placed
<1> QED
  BY <1>3, <1>4 DEF ProtectTracks
(* The groups are the two that are not empty.                               *)
GroupsOf(gs, v, a) ==
  /\ DOMAIN gs \subseteq Nat
  /\ \A g \in DOMAIN gs : gs[g] \in {v, a} /\ gs[g] # << >>
  /\ \A g, h \in DOMAIN gs : g # h => gs[g] # gs[h] \/ v = a
  /\ v # << >> => \E g \in DOMAIN gs : gs[g] = v
  /\ a # << >> => \E g \in DOMAIN gs : gs[g] = a

LEMMA Grouping ==
  ASSUME NEW S, NEW v \in Seq(S), NEW a \in Seq(S),
         NEW gs, gs = TrackGroup(v) \o TrackGroup(a)
  PROVE  GroupsOf(gs, v, a)
<1>1. CASE v = << >> /\ a = << >>
  <2>1. gs = << >>
    BY <1>1 DEF TrackGroup
  <2> QED
    BY <1>1, <2>1 DEF GroupsOf
<1>2. CASE v = << >> /\ a # << >>
  <2>1. gs = <<a>>
    BY <1>2 DEF TrackGroup
  <2>2. DOMAIN gs = {1} /\ gs[1] = a
    BY <2>1
  <2> QED
    BY <1>2, <2>2 DEF GroupsOf
<1>3. CASE v # << >> /\ a = << >>
  <2>1. gs = <<v>>
    BY <1>3 DEF TrackGroup
  <2>2. DOMAIN gs = {1} /\ gs[1] = v
    BY <2>1
  <2> QED
    BY <1>3, <2>2 DEF GroupsOf
<1>4. CASE v # << >> /\ a # << >>
  <2>1. gs = <<v>> \o <<a>>
    BY <1>4 DEF TrackGroup
  <2>2. DOMAIN gs = {1, 2} /\ gs[1] = v /\ gs[2] = a
    BY <2>1
  <2> QED
    BY <1>4, <2>2 DEF GroupsOf
<1> QED
  BY <1>1, <1>2, <1>3, <1>4

LEMMA CodecsApart == CodecsOf("video") \cap CodecsOf("audio") = {}
BY DEF CodecsOf, VideoCodecs, AudioCodecs, Range

(* A codec is that of its type.                                             *)
LEMMA CodecOfType ==
  ASSUME ProcessTypes, NEW t, FromFile(t)
  PROVE  t.type \in Types /\ t.codec \in CodecsOf(t.type) /\ t.bitrate \in Nat
<1>1. PICK f \in Range(dir) : LoadedFrom(t, f)
  BY DEF FromFile
<1>2. f \in File
  BY FilesOf
<1>3. f.type \in Types /\ f.codec \in CodecsOf(f.type) /\ f.bitrate \in Nat
  BY <1>2 DEF File, FileOfType, Types
<1> QED
  BY <1>1, <1>3 DEF LoadedFrom

LEMMA GenerateTrackGroupsCopies ==
  ASSUME OfferInv, GenerateTrackGroups
  PROVE  Copied' /\ Placed'
<1>1. CASE Refuse
  BY <1>1, StoppedCopies DEF Refuse, Stop
<1>2. CASE /\ \E v \in Sortings(tracks["video"]), a \in Sortings(tracks["audio"]) :
                groups' = TrackGroup(v) \o TrackGroup(a)
           /\ Enter("loop") /\ UNCHANGED <<tracks, loopDurMS, namespaces>>
  <2> DEFINE vs == tracks["video"]
             as == tracks["audio"]
  <2>0. /\ ProcessTypes /\ Copied /\ phase = "protect" /\ next = Len(config.protections)
        /\ config.protections \in Seq(Protection)
        /\ phase' = "loop" /\ dir' = dir /\ config' = config
    BY <1>2, ConfigFields DEF OfferInv, LoadInv, GenerateTrackGroups, Enter
  <2>1. PICK v \in Sortings(vs), a \in Sortings(as) : groups' = TrackGroup(v) \o TrackGroup(a)
    BY <1>2
  <2>2. IsFiniteSet(vs) /\ IsFiniteSet(as)
    BY <2>0 DEF OfferInv, LoadInv, Parsed, Types
  <2>3. /\ \A t \in vs : FromFile(t) /\ t.type = "video"
        /\ \A t \in as : FromFile(t) /\ t.type = "audio"
    BY <2>0 DEF OfferInv, LoadInv, Parsed, Types, Copied
  <2>4. /\ \A t \in vs : t.codec \in CodecsOf("video") /\ t.bitrate \in Nat
        /\ \A t \in as : t.codec \in CodecsOf("audio") /\ t.bitrate \in Nat
    BY <2>0, <2>3, CodecOfType
  <2>5. ASSUME NEW f \in Range(dir), NEW p \in Kinds
        PROVE  Has(tracks[f.type], f, p) /\ f.type \in {"video", "audio"}
    <3>1. Kinds = KindsAdded
      BY <2>0 DEF Kinds, KindsAdded
    <3>2. f.type \in {"video", "audio"}
      BY <2>0, <2>5, FilesOf, FileFields DEF Types
    <3> QED
      BY <2>0, <2>5, <3>1, <3>2 DEF Copied
  <2> HIDE DEF vs, as
  <2> DEFINE all == vs \union as
  <2>6. Range(v) = vs /\ Range(a) = as /\ v \in Seq(all) /\ a \in Seq(all)
        /\ DOMAIN v \subseteq Nat /\ DOMAIN a \subseteq Nat
    <3>1. Range(v) = vs /\ Range(a) = as
      BY <2>1, <2>2, SortingsHold
    <3>2. v \in Seq(vs) /\ a \in Seq(as)
      BY <2>1, <2>2, SortedTracks
    <3>3. v \in Seq(all) /\ a \in Seq(all)
      BY <3>2, SeqMonotonic
    <3>4. DOMAIN v \subseteq Nat /\ DOMAIN a \subseteq Nat
      BY <3>2
    <3> QED
      BY <3>1, <3>3, <3>4
  <2>7. /\ DOMAIN groups' \subseteq Nat
        /\ \A g \in DOMAIN groups' : groups'[g] \in {v, a} /\ groups'[g] # << >>
        /\ \A g, h \in DOMAIN groups' : g # h => groups'[g] # groups'[h] \/ v = a
        /\ v # << >> => \E g \in DOMAIN groups' : groups'[g] = v
        /\ a # << >> => \E g \in DOMAIN groups' : groups'[g] = a
    <3> DEFINE gs == groups'
    <3>1. v \in Seq(all) /\ a \in Seq(all) /\ gs = TrackGroup(v) \o TrackGroup(a)
      BY <2>1, <2>6
    <3> HIDE DEF all, gs
    <3>2. GroupsOf(gs, v, a)
      BY <3>1, Grouping
    <3> QED
      BY <3>2 DEF gs, GroupsOf
  <2>8. \A t \in all : t \in Loaded'
    <3>1. ASSUME NEW s \in {v, a}, NEW i \in DOMAIN s PROVE s[i] \in Loaded'
      <4>1. s # << >>
        BY <3>1
      <4>2. PICK g \in DOMAIN groups' : groups'[g] = s
        BY <2>7, <4>1
      <4> QED
        BY <3>1, <4>2 DEF Loaded, Range
    <3>2. \A t \in all : \E s \in {v, a} : \E i \in DOMAIN s : t = s[i]
      BY <2>6 DEF Range
    <3> QED
      BY <3>1, <3>2
  <2>9. Copied'
    <3>1. ASSUME NEW f \in Range(dir), NEW p \in Kinds PROVE Has(Loaded', f, p)
      <4>1. PICK t \in tracks[f.type] : LoadedFrom(t, f) /\ t.protection = p
        BY <2>5, <3>1 DEF Has
      <4>2. t \in Loaded'
        BY <2>5, <2>8, <4>1 DEF vs, as
      <4> QED
        BY <4>1, <4>2 DEF Has
    <3> QED
      BY <2>0, <3>1, SameCopies DEF Copied
  <2>10. ASSUME NEW g \in DOMAIN groups', NEW h \in DOMAIN groups',
                NEW i \in DOMAIN groups'[g], NEW j \in DOMAIN groups'[h],
                groups'[g][i].codec = groups'[h][j].codec
         PROVE  g = h /\ (i < j => groups'[g][i].bitrate <= groups'[g][j].bitrate)
    <3>1. /\ \A k \in DOMAIN v : v[k] \in vs
          /\ \A k \in DOMAIN a : a[k] \in as
      BY <2>6 DEF Range
    <3>2. \A t \in vs : \A u \in as : t.codec # u.codec
      BY <2>4, CodecsApart
    <3>3. groups'[g] = groups'[h]
      BY <2>7, <2>10, <3>1, <3>2
    <3>4. v # a
      BY <2>7, <3>1, <3>2
    <3>5. g = h
      BY <2>7, <3>3, <3>4
    <3>6. ASSUME i < j PROVE groups'[g][i].bitrate <= groups'[g][j].bitrate
      <4>0. "video" \in Types /\ "audio" \in Types
        BY DEF Types
      <4>1. CASE groups'[g] = v
        BY <2>1, <2>2, <2>3, <2>4, <2>10, <3>5, <3>6, <4>0, <4>1, Ascending
      <4>2. CASE groups'[g] = a
        BY <2>1, <2>2, <2>3, <2>4, <2>10, <3>5, <3>6, <4>0, <4>2, Ascending
      <4> QED
        BY <2>7, <4>1, <4>2
    <3> QED
      BY <3>5, <3>6
  <2>11. \A g \in DOMAIN groups' : DOMAIN groups'[g] \subseteq Nat
    BY <2>6, <2>7
  <2>12. Placed'
    BY <2>7, <2>10, <2>11 DEF Placed, Sorted
  <2> QED
    BY <2>9, <2>12
<1> QED
  BY <1>1, <1>2 DEF GenerateTrackGroups

(* The loop duration is all that changes.                                   *)
LEMMA CutIsLoaded ==
  ASSUME NEW u, NEW f, LoadedFrom(u, f), NEW d
  PROVE  LET t == [u EXCEPT !.loopDur = d]
         IN  /\ LoadedFrom(t, f) /\ t.protection = u.protection
             /\ t.codec = u.codec /\ t.bitrate = u.bitrate
<1> DEFINE t == [u EXCEPT !.loopDur = d]
<1>1. DOMAIN u = Fields
  BY DEF LoadedFrom
<1>2. DOMAIN t = Fields /\ \A field \in Fields \ {"loopDur"} : t[field] = u[field]
  BY <1>1
<1> HIDE DEF t
<1>3. LoadedFrom(t, f) /\ t.protection = u.protection /\ t.codec = u.codec
      /\ t.bitrate = u.bitrate
  BY <1>2 DEF LoadedFrom, Fields
<1> QED
  BY <1>3 DEF t

LEMMA SetLoopDurationCopies ==
  ASSUME OfferInv, SetLoopDuration
  PROVE  Copied' /\ Placed'
<1>1. CASE Refuse
  BY <1>1, StoppedCopies DEF Refuse, Stop
<1>2. CASE /\ groups' = [g \in DOMAIN groups |-> [i \in DOMAIN groups[g] |->
                [groups[g][i] EXCEPT !.loopDur = LoopDur(g, groups[g][i], loopDurMS')]]]
           /\ Enter("offer") /\ UNCHANGED <<tracks, namespaces>>
  <2>0. /\ phase = "loop" /\ phase' = "offer" /\ dir' = dir /\ config' = config
        /\ Copied /\ Sorted(groups)
    BY <1>2 DEF OfferInv, Placed, SetLoopDuration, Enter
  <2>1. DOMAIN groups' = DOMAIN groups
        /\ \A g \in DOMAIN groups : DOMAIN groups'[g] = DOMAIN groups[g]
    BY <1>2
  <2>2. ASSUME NEW g \in DOMAIN groups, NEW i \in DOMAIN groups[g]
        PROVE  /\ groups'[g][i] \in Loaded'
               /\ groups'[g][i].codec = groups[g][i].codec
               /\ groups'[g][i].bitrate = groups[g][i].bitrate
               /\ groups'[g][i].protection = groups[g][i].protection
               /\ \A f : LoadedFrom(groups[g][i], f) => LoadedFrom(groups'[g][i], f)
    <3>1. groups'[g][i] = [groups[g][i] EXCEPT !.loopDur = LoopDur(g, groups[g][i], loopDurMS')]
      BY <1>2
    <3>2. groups'[g][i] \in Loaded'
      BY <2>1 DEF Loaded, Range
    <3>3. groups[g][i] \in Loaded
      BY DEF Loaded, Range
    <3>4. \E f : LoadedFrom(groups[g][i], f)
      BY <2>0, <3>3 DEF OfferInv, LoadInv, Grouped, FromFile
    <3> QED
      BY <3>1, <3>2, <3>4, CutIsLoaded
  <2>3. ASSUME NEW f \in Range(dir), NEW p \in Kinds PROVE Has(Loaded', f, p)
    <3>1. PICK t \in Loaded : LoadedFrom(t, f) /\ t.protection = p
      BY <2>0 DEF Copied, Has
    <3>2. PICK g \in DOMAIN groups : \E i \in DOMAIN groups[g] : t = groups[g][i]
      BY DEF Loaded, Range
    <3>3. PICK i \in DOMAIN groups[g] : t = groups[g][i]
      BY <3>2
    <3> QED
      BY <2>2, <3>1, <3>3 DEF Has
  <2>4. Copied'
    BY <2>0, <2>3, SameCopies DEF Copied
  <2>5. Placed'
    BY <2>0, <2>1, <2>2 DEF Placed, Sorted
  <2> QED
    BY <2>4, <2>5
<1> QED
  BY <1>1, <1>2 DEF SetLoopDuration

(* From here on tracks and groups stay what they are.                       *)
LEMMA SettledCopies ==
  ASSUME OfferInv, phase \in {"offer", "serving"}, UNCHANGED <<dir, config, groups>>,
         phase' \in {"offer", "serving", "refused", "panicked"},
         phase' = "offer" => phase = "offer"
  PROVE  Copied' /\ Placed'
<1>1. Loaded' = Loaded
  BY DEF Loaded
<1>2. Copied'
  BY <1>1, SameCopies DEF OfferInv, Copied
<1> QED
  BY <1>2 DEF OfferInv, Placed
-----------------------------------------------------------------------------
(* What is offered                                                         *)

(* The tracks of the offer are the copies of the files.                     *)
LEMMA OfferTracks ==
  ASSUME ProcessTypes
  PROVE  Offer!AssetTracks = {CopyOf(f, p) : f \in Range(dir), p \in Kinds}
<1> DEFINE Fs == Range(dir)
           Made(kinds) == {CopyOf(f, p) : f \in Fs, p \in kinds}
           drm == \E p \in Range(config.protections) : p.type = "drm"
           eccp == \E p \in Range(config.protections) : p.type = "eccp"
<1>1. Offer!ClearTracks = Made({"none"})
  <2>1. Offer!ClearTracks = {Offer!ClearTrack(g) :
           g \in {[name |-> f.name, type |-> f.type, codec |-> f.codec,
                   bitrate |-> f.bitrate] : f \in Fs}}
    BY DEF Offer!ClearTracks
  <2>2. \A f : Offer!ClearTrack([name |-> f.name, type |-> f.type, codec |-> f.codec,
                                 bitrate |-> f.bitrate]) = CopyOf(f, "none")
    BY DEF Offer!ClearTrack, CopyOf, NameOf
  <2> HIDE DEF Fs
  <2>3. Offer!ClearTracks = {CopyOf(f, "none") : f \in Fs}
    BY <2>1, <2>2
  <2>4. Made({"none"}) = {CopyOf(f, "none") : f \in Fs}
    OBVIOUS
  <2> QED
    BY <2>3, <2>4
<1>2. ASSUME NEW f, NEW p \in {"drm", "eccp"}
      PROVE  Offer!AddProtectionInfo(CopyOf(f, "none"), p) = CopyOf(f, p)
  <2> DEFINE n == ProtectedName(f.name, p)
  <2>1. n = Append(f.name, Offer!SuffixOf(p)) /\ n = NameOf(f, p)
    BY <1>2 DEF ProtectedName, NameOf, Offer!SuffixOf
  <2>2. Offer!AddProtectionInfo(CopyOf(f, "none"), p) =
          [[CopyOf(f, "none") EXCEPT !.name = n] EXCEPT !.protection = p]
    BY <2>1 DEF Offer!AddProtectionInfo, CopyOf, NameOf
  <2> HIDE DEF n
  <2>3. [CopyOf(f, "none") EXCEPT !.name = n] =
          [name |-> n, type |-> f.type, codec |-> f.codec, bitrate |-> f.bitrate,
           protection |-> "none"]
    BY DEF CopyOf
  <2>4. [[name |-> n, type |-> f.type, codec |-> f.codec, bitrate |-> f.bitrate,
          protection |-> "none"] EXCEPT !.protection = p] =
          [name |-> n, type |-> f.type, codec |-> f.codec, bitrate |-> f.bitrate,
           protection |-> p]
    OBVIOUS
  <2> QED
    BY <2>1, <2>2, <2>3, <2>4 DEF CopyOf
<1>3. ASSUME NEW kinds, "none" \in kinds, NEW p \in {"drm", "eccp"}
      PROVE  Offer!CreateProtectedTracks(Made(kinds), p) = Made(kinds \union {p})
  <2> DEFINE ts == Made(kinds)
  <2>1. Offer!CreateProtectedTracks(ts, p) =
          ts \union {Offer!AddProtectionInfo(t, p) : t \in {u \in ts : u.protection = "none"}}
    BY DEF Offer!CreateProtectedTracks
  <2>2. {u \in ts : u.protection = "none"} = {CopyOf(f, "none") : f \in Fs}
    BY <1>3 DEF CopyOf
  <2>3. {Offer!AddProtectionInfo(t, p) : t \in {CopyOf(f, "none") : f \in Fs}}
          = {CopyOf(f, p) : f \in Fs}
    BY <1>2
  <2>4. Made(kinds \union {p}) = ts \union {CopyOf(f, p) : f \in Fs}
    <3> HIDE DEF Fs
    <3> QED
      OBVIOUS
  <2> HIDE DEF ts, Made
  <2> QED
    BY <2>1, <2>2, <2>3, <2>4 DEF ts
<1>4. Kinds = {"none"} \union (IF drm THEN {"drm"} ELSE {})
                       \union (IF eccp THEN {"eccp"} ELSE {})
  <2>1. \A i \in DOMAIN config.protections :
           config.protections[i].type \in {"drm", "eccp"}
    BY KindTypes
  <2> QED
    BY <2>1 DEF Kinds, Range
<1>5. Offer!AssetTracks =
        LET withDRM == IF drm THEN Offer!CreateProtectedTracks(Offer!ClearTracks, "drm")
                       ELSE Offer!ClearTracks
        IN  IF eccp THEN Offer!CreateProtectedTracks(withDRM, "eccp") ELSE withDRM
  BY DEF Offer!AssetTracks
<1> HIDE DEF Made, drm, eccp
<1>6. Offer!AssetTracks = Made(Kinds)
  <2>1. "none" \in {"none"} /\ "none" \in {"none"} \union {"drm"}
    OBVIOUS
  <2>2. CASE drm /\ eccp
    <3>1. Offer!AssetTracks = Made(({"none"} \union {"drm"}) \union {"eccp"})
      BY <1>1, <1>3, <1>5, <2>1, <2>2
    <3>2. Kinds = ({"none"} \union {"drm"}) \union {"eccp"}
      BY <1>4, <2>2
    <3> QED
      BY <3>1, <3>2
  <2>3. CASE drm /\ ~eccp
    <3>1. Offer!AssetTracks = Made({"none"} \union {"drm"})
      BY <1>1, <1>3, <1>5, <2>1, <2>3
    <3>2. Kinds = {"none"} \union {"drm"}
      BY <1>4, <2>3
    <3> QED
      BY <3>1, <3>2
  <2>4. CASE ~drm /\ eccp
    <3>1. Offer!AssetTracks = Made({"none"} \union {"eccp"})
      BY <1>1, <1>3, <1>5, <2>1, <2>4
    <3>2. Kinds = {"none"} \union {"eccp"}
      BY <1>4, <2>4
    <3> QED
      BY <3>1, <3>2
  <2>5. CASE ~drm /\ ~eccp
    <3>1. Offer!AssetTracks = Made({"none"})
      BY <1>1, <1>5, <2>5
    <3>2. Kinds = {"none"}
      BY <1>4, <2>5
    <3> QED
      BY <3>1, <3>2
  <2> QED
    BY <2>2, <2>3, <2>4, <2>5
<1> QED
  BY <1>6 DEF Made

(* While it is offered, the asset lists the tracks of the offer.            *)
LEMMA LoadedAreOffered ==
  ASSUME OfferInv, phase = "offer"
  PROVE  Offer!AssetTracks = {Listing(t) : t \in Loaded}
<1>0. ProcessTypes
  BY DEF OfferInv, LoadInv
<1>1. ASSUME NEW t, NEW f, LoadedFrom(t, f) PROVE Listing(t) = CopyOf(f, t.protection)
  BY <1>1 DEF LoadedFrom, Listing, CopyOf
<1>2. \A t \in Loaded : \E f \in Range(dir) : LoadedFrom(t, f) /\ t.protection \in Kinds
  BY DEF OfferInv, LoadInv, Fitted, FromFile, LoadedFrom
<1>3. \A f \in Range(dir) : \A p \in Kinds :
        \E t \in Loaded : LoadedFrom(t, f) /\ t.protection = p
  BY DEF OfferInv, Copied, Has
<1> DEFINE made == {CopyOf(f, p) : f \in Range(dir), p \in Kinds}
           listed == {Listing(t) : t \in Loaded}
<1>4. ASSUME NEW x \in listed PROVE x \in made
  <2>1. PICK t \in Loaded : x = Listing(t)
    BY <1>4
  <2> QED
    BY <1>1, <1>2, <2>1
<1>5. ASSUME NEW x \in made PROVE x \in listed
  <2>1. PICK f \in Range(dir), p \in Kinds : x = CopyOf(f, p)
    BY <1>5
  <2> QED
    BY <1>1, <1>3, <2>1
<1>6. made = listed
  BY <1>4, <1>5
<1> QED
  BY <1>0, <1>6, OfferTracks

LEMMA ListingFields ==
  ASSUME NEW t
  PROVE  /\ Listing(t).name = t.name /\ Listing(t).type = t.type
         /\ Listing(t).codec = t.codec /\ Listing(t).bitrate = t.bitrate
         /\ Listing(t).protection = t.protection
         /\ \A n, p : Offer!CatalogTrack(t, n, p) = Offer!CatalogTrack(Listing(t), n, p)
BY DEF Listing, Offer!CatalogTrack

(* The catalogs generated from the asset are those of the offer.            *)
LEMMA CatalogsOffered ==
  ASSUME OfferInv, phase = "offer"
  PROVE  /\ GenLOCCatalogEntry = Offer!GenLOCCatalogEntry
         /\ \A k : GenCMAFCatalogEntry(k) = Offer!GenCMAFCatalogEntry(k)
<1> DEFINE all == Offer!AssetTracks
<1>1. all = {Listing(t) : t \in Loaded}
  BY LoadedAreOffered
<1> HIDE DEF all
<1>2. GenLOCCatalogEntry = Offer!GenLOCCatalogEntry
  <2>1. GenLOCCatalogEntry =
          {Offer!CatalogTrack(t, t.name, "loc") :
             t \in {u \in Loaded : u.protection = "none" /\ u.codec # "ac3"}}
    BY DEF GenLOCCatalogEntry, Protected
  <2>2. Offer!GenLOCCatalogEntry =
          {Offer!CatalogTrack(t, t.name, "loc") :
             t \in {u \in all : u.protection = "none" /\ u.codec # "ac3"}}
    BY DEF Offer!GenLOCCatalogEntry, all
  <2> QED
    BY <1>1, <2>1, <2>2, ListingFields
<1>3. ASSUME NEW k PROVE GenCMAFCatalogEntry(k) = Offer!GenCMAFCatalogEntry(k)
  <2> DEFINE Cmaf(ts) == {Offer!CatalogTrack(t, t.name, "cmaf") : t \in ts}
             Locmaf(ts) == {Offer!CatalogTrack(t, Offer!LocmafName(t.name), "locmaf") : t \in ts}
             here == {t \in Loaded : t.protection = k}
             there == {t \in all : t.protection = k}
             subs == {Offer!SubtitleEntry(n) : n \in Subtitles}
  <2>1. GenCMAFCatalogEntry(k) = Cmaf(here) \union Locmaf(here) \union subs
    BY DEF GenCMAFCatalogEntry, Protected
  <2>2. Offer!GenCMAFCatalogEntry(k) = Cmaf(there) \union Locmaf(there) \union subs
    BY DEF Offer!GenCMAFCatalogEntry, all
  <2>3. there = {Listing(t) : t \in here}
    BY <1>1, ListingFields
  <2> HIDE DEF here, there, subs
  <2>4. Cmaf(here) = Cmaf(there) /\ Locmaf(here) = Locmaf(there)
    BY <2>3, ListingFields
  <2> QED
    BY <2>1, <2>2, <2>4
<1> QED
  BY <1>2, <1>3
(* Clear tracks of one codec and bitrate are one track.                     *)
LEMMA OneClearTrack ==
  ASSUME OfferInv, phase = "offer", NEW t \in Loaded, NEW u \in Loaded,
         IsClear(t), IsClear(u), t.codec = u.codec, t.bitrate = u.bitrate
  PROVE  Listing(t) = Listing(u)
<1>1. PICK f \in Range(dir) : LoadedFrom(t, f)
  BY DEF OfferInv, LoadInv, Fitted, FromFile
<1>2. PICK g \in Range(dir) : LoadedFrom(u, g)
  BY DEF OfferInv, LoadInv, Fitted, FromFile
<1>3. dir \in Directories /\ f.codec = g.codec /\ f.bitrate = g.bitrate
  BY <1>1, <1>2 DEF OfferInv, LoadInv, ProcessTypes, LoadedFrom
<1>4. f = g
  BY <1>3, LoadingAssumption DEF Range
<1> QED
  BY <1>1, <1>2, <1>4 DEF Listing, LoadedFrom, IsClear, NameOf

(* The clear track that comes first is the first of the offer.              *)
LEMMA FirstOffered ==
  ASSUME OfferInv, phase = "offer", NEW codec
  PROVE  /\ ClearOf(codec) # {} <=> Offer!Clear(codec) # {}
         /\ ClearOf(codec) # {}
              => First(ClearOf(codec)).name = Offer!FirstOf(Offer!Clear(codec)).name
<1> DEFINE clear == {t \in Loaded : IsClear(t) /\ t.codec = codec}
           listed == Offer!Clear(codec)
<1>1. listed = {Listing(t) : t \in clear}
  <2> DEFINE all == Offer!AssetTracks
  <2>1. listed = {t \in all : t.protection = "none" /\ t.codec = codec}
    BY DEF Offer!Clear
  <2>2. all = {Listing(t) : t \in Loaded}
    BY LoadedAreOffered
  <2> HIDE DEF all, listed
  <2> QED
    BY <2>1, <2>2, ListingFields DEF IsClear
<1>2. ClearOf(codec) # {} <=> clear # {}
  <2>1. ASSUME NEW g \in DOMAIN groups, NEW i \in DOMAIN groups[g]
        PROVE  groups[g][i] \in clear <=> <<g, i>> \in ClearOf(codec)
    BY DEF ClearOf, Loaded, Range
  <2>2. \A p \in ClearOf(codec) : \E g \in DOMAIN groups : \E i \in DOMAIN groups[g] : p = <<g, i>>
    BY DEF ClearOf
  <2>3. \A t \in clear : \E g \in DOMAIN groups : \E i \in DOMAIN groups[g] : t = groups[g][i]
    BY DEF Loaded, Range
  <2> DEFINE places == ClearOf(codec)
  <2> HIDE DEF clear, places
  <2>4. ASSUME NEW p \in places PROVE clear # {}
    <3>1. PICK g \in DOMAIN groups : \E i \in DOMAIN groups[g] : p = <<g, i>>
      BY <2>2, <2>4 DEF places
    <3> QED
      BY <2>1, <2>4, <3>1 DEF places
  <2>5. ASSUME NEW t \in clear PROVE places # {}
    <3>1. PICK g \in DOMAIN groups : \E i \in DOMAIN groups[g] : t = groups[g][i]
      BY <2>3, <2>5
    <3> QED
      BY <2>1, <2>5, <3>1 DEF places
  <2> QED
    BY <2>4, <2>5 DEF places
<1>3. ASSUME ClearOf(codec) # {}
      PROVE  First(ClearOf(codec)).name = Offer!FirstOf(listed).name
  <2> DEFINE first == First(ClearOf(codec))
  <2>1. Sorted(groups)
    BY DEF OfferInv, Placed
  <2>2. first \in clear /\ \A t \in clear : first.bitrate <= t.bitrate \/ first = t
    BY <1>3, <2>1, FirstIsLowest
  <2>3. \A t \in clear : t.bitrate \in Nat
    BY CodecOfType DEF OfferInv, LoadInv, Fitted
  <2>4. \A t, u \in clear : t.bitrate = u.bitrate => Listing(t) = Listing(u)
    BY OneClearTrack
  <2> HIDE DEF first, clear, listed
  <2>5. \A t \in clear : first.bitrate <= t.bitrate
    BY <2>2, <2>3
  <2>6. Listing(first) \in listed /\ \A x \in listed : Listing(first).bitrate <= x.bitrate
    BY <1>1, <2>2, <2>5, ListingFields
  <2> DEFINE x == Offer!FirstOf(listed)
  <2>7. x \in listed /\ \A y \in listed : x.bitrate <= y.bitrate
    <3>1. x = CHOOSE t \in listed : \A u \in listed : t.bitrate <= u.bitrate
      BY DEF Offer!FirstOf
    <3> HIDE DEF x
    <3> QED
      BY <2>6, <3>1
  <2> HIDE DEF x
  <2>8. PICK t \in clear : x = Listing(t)
    BY <1>1, <2>7
  <2>9. t.bitrate = first.bitrate
    <3>1. x.bitrate <= Listing(first).bitrate /\ Listing(first).bitrate <= x.bitrate
      BY <2>6, <2>7
    <3>2. t.bitrate <= first.bitrate /\ first.bitrate <= t.bitrate
      BY <2>8, <3>1, ListingFields
    <3> QED
      BY <2>2, <2>3, <3>2
  <2>10. Listing(t) = Listing(first)
    BY <2>2, <2>4, <2>9
  <2>11. x.name = first.name
    BY <2>8, <2>10, ListingFields
  <2> QED
    BY <2>11 DEF x, first
<1> HIDE DEF clear, listed
<1>4. clear # {} <=> listed # {}
  BY <1>1
<1> QED
  BY <1>2, <1>3, <1>4 DEF listed

LEMMA MoqMIOffered ==
  ASSUME OfferInv, phase = "offer"
  PROVE  /\ ClearOf("avc") # {} <=> Offer!HasMoqMI
         /\ ClearOf("avc") # {} => BuildMoqMITrackMap = Offer!BuildMoqMITrackMap
<1>1. ClearOf("avc") # {} <=> Offer!HasMoqMI
  BY FirstOffered DEF Offer!HasMoqMI
<1>2. ASSUME ClearOf("avc") # {} PROVE BuildMoqMITrackMap = Offer!BuildMoqMITrackMap
  <2>1. First(ClearOf("avc")).name = Offer!FirstOf(Offer!Clear("avc")).name
    BY <1>2, FirstOffered
  <2>2. /\ MoqMIAudio = {} <=> Offer!MoqMIAudio = {}
        /\ MoqMIAudio # {} => First(MoqMIAudio).name = Offer!FirstOf(Offer!MoqMIAudio).name
    BY FirstOffered DEF MoqMIAudio, Offer!MoqMIAudio
  <2> DEFINE D == {<<"video0">>} \union (IF MoqMIAudio = {} THEN {} ELSE {<<"audio0">>})
             E == IF Offer!MoqMIAudio = {} THEN {<<"video0">>} ELSE Offer!MoqMINames
             here == First(MoqMIAudio).name
             there == Offer!FirstOf(Offer!MoqMIAudio).name
  <2>3. D = E
    BY <2>2 DEF Offer!MoqMINames
  <2>4. <<"video0">> # <<"audio0">>
    <3>1. <<"video0">>[1] # <<"audio0">>[1]
      OBVIOUS
    <3> QED
      BY <3>1
  <2>5. \A n \in D : n # <<"video0">> => here = there
    BY <2>2, <2>4
  <2>6. BuildMoqMITrackMap =
          [n \in D |-> IF n = <<"video0">> THEN First(ClearOf("avc")).name ELSE here]
    BY DEF BuildMoqMITrackMap
  <2>7. Offer!BuildMoqMITrackMap =
          [n \in E |-> IF n = <<"video0">> THEN Offer!FirstOf(Offer!Clear("avc")).name ELSE there]
    BY DEF Offer!BuildMoqMITrackMap
  <2> HIDE DEF D, E, here, there
  <2> QED
    BY <2>1, <2>3, <2>5, <2>6, <2>7
<1> QED
  BY <1>1, <1>2

(* The offer depends on the directory and the configuration only.           *)
LEMMA SameOffer ==
  ASSUME dir' = dir, config' = config
  PROVE  /\ Offer!Namespaces' = Offer!Namespaces /\ Considered' = Considered
         /\ \A n : OfferedBy(n)' = OfferedBy(n)
<1>1. Offer!AssetTracks' = Offer!AssetTracks /\ Considered' = Considered
  BY DEF Offer!AssetTracks, Offer!ClearTracks, Considered
<1>2. /\ Offer!GenLOCCatalogEntry' = Offer!GenLOCCatalogEntry
      /\ \A k : Offer!GenCMAFCatalogEntry(k)' = Offer!GenCMAFCatalogEntry(k)
      /\ \A codec : Offer!Clear(codec)' = Offer!Clear(codec)
  BY <1>1 DEF Offer!GenLOCCatalogEntry, Offer!GenCMAFCatalogEntry, Offer!Clear
<1>3. /\ Offer!HasMoqMI' = Offer!HasMoqMI
      /\ Offer!BuildMoqMITrackMap' = Offer!BuildMoqMITrackMap
  BY <1>2 DEF Offer!HasMoqMI, Offer!BuildMoqMITrackMap, Offer!MoqMIAudio
<1>4. \A k : Turn(k)' = Turn(k)
  BY <1>2, <1>3 DEF Turn, Offered, Entry
<1>5. Offer!Namespaces' = Offer!Namespaces
  BY <1>2, <1>3 DEF Offer!Namespaces
<1>6. \A n : OfferedBy(n)' = OfferedBy(n)
  BY <1>1, <1>4 DEF OfferedBy
<1> QED
  BY <1>1, <1>5, <1>6
-----------------------------------------------------------------------------
(* Turn by turn                                                            *)

Turns == {"loc", "moqmi", "none", "drm", "eccp"}

LEMMA TurnsConsidered ==
  ASSUME ProcessTypes
  PROVE  /\ Len(Considered) = 3 + Len(config.protections)
         /\ Len(config.protections) \in 0 .. 2
         /\ Considered[1] = "loc" /\ Considered[2] = "moqmi" /\ Considered[3] = "none"
         /\ \A i \in DOMAIN config.protections :
              Considered[i + 3] = config.protections[i].type
         /\ \A i, j \in DOMAIN config.protections : i < j =>
              config.protections[i].type = "drm" /\ config.protections[j].type = "eccp"
<1> DEFINE ps == config.protections
           types == [i \in DOMAIN ps |-> ps[i].type]
<1>1. /\ ps \in Seq(Protection) /\ DOMAIN ps = 1 .. Len(ps) /\ Len(ps) \in Nat
      /\ \A i, j \in DOMAIN ps : i < j => ps[i].type = "drm" /\ ps[j].type = "eccp"
  BY LoadingAssumption DEF ProcessTypes, Config, Protections
<1>2. \A i \in DOMAIN ps : ps[i].type \in Turns
  BY KindTypes DEF Turns
<1>3. types \in Seq(Turns) /\ Len(types) = Len(ps) /\ DOMAIN types = DOMAIN ps
  <2> HIDE DEF ps
  <2> QED
    BY <1>1, <1>2
<1>4. \A i \in DOMAIN ps : types[i] = ps[i].type
  OBVIOUS
<1>5. /\ Len(Considered) = 3 + Len(types)
      /\ Considered[1] = "loc" /\ Considered[2] = "moqmi" /\ Considered[3] = "none"
      /\ \A i \in DOMAIN types : Considered[i + 3] = types[i]
  <2> DEFINE a == <<"loc", "moqmi", "none">>
  <2>1. Considered = a \o types
    BY DEF Considered
  <2>2. a \in Seq(Turns)
    BY DEF Turns
  <2>3. Len(a) = 3 /\ a[1] = "loc" /\ a[2] = "moqmi" /\ a[3] = "none"
    OBVIOUS
  <2> HIDE DEF a, types, ps
  <2>4. /\ Len(a \o types) = Len(a) + Len(types)
        /\ \A i \in 1 .. Len(a) + Len(types) :
             (a \o types)[i] = IF i <= Len(a) THEN a[i] ELSE types[i - Len(a)]
    BY <1>3, <2>2, ConcatProperties
  <2> DEFINE c == a \o types
  <2>5. Len(types) \in Nat /\ DOMAIN types = 1 .. Len(types)
    BY <1>3
  <2> HIDE DEF c
  <2>6. /\ Len(c) = 3 + Len(types)
        /\ c[1] = a[1] /\ c[2] = a[2] /\ c[3] = a[3]
        /\ \A i \in DOMAIN types : c[i + 3] = types[i]
    BY <2>3, <2>4, <2>5 DEF c
  <2> QED
    BY <2>1, <2>3, <2>6 DEF c
<1>6. Len(ps) <= 2
  <2> HIDE DEF ps
  <2> SUFFICES ASSUME Len(ps) > 2 PROVE FALSE
    BY <1>1
  <2>1. 1 \in DOMAIN ps /\ 2 \in DOMAIN ps /\ 3 \in DOMAIN ps
    BY <1>1
  <2>2. ps[2].type = "drm" /\ ps[2].type = "eccp"
    BY <1>1, <2>1
  <2> QED
    BY <2>2
<1> HIDE DEF types
<1>7. \A i \in DOMAIN ps : Considered[i + 3] = ps[i].type
  BY <1>3, <1>4, <1>5
<1>8. Len(ps) \in 0 .. 2 /\ Len(Considered) = 3 + Len(ps)
  <2> HIDE DEF ps
  <2> QED
    BY <1>1, <1>3, <1>5, <1>6
<1> QED
  BY <1>1, <1>5, <1>7, <1>8

Entries == {Entry(k) : k \in Turns}

LEMMA TurnsAreEntries ==
  ASSUME ProcessTypes, NEW n \in 0 .. Len(Considered)
  PROVE  /\ OfferedBy(n) \in Seq(Entries)
         /\ n < Len(Considered) =>
              /\ Considered[n + 1] \in Turns
              /\ OfferedBy(n + 1) = OfferedBy(n) \o Turn(Considered[n + 1])
<1> DEFINE len == Len(config.protections)
<1>1. /\ Len(Considered) = 3 + len /\ len \in 0 .. 2
      /\ Considered[1] = "loc" /\ Considered[2] = "moqmi" /\ Considered[3] = "none"
  BY TurnsConsidered
<1>2. /\ len >= 1 => Considered[4] \in Turns
      /\ len >= 2 => Considered[5] \in Turns
  <2>1. ASSUME NEW i \in 1 .. len PROVE Considered[i + 3] \in Turns
    <3>1. i \in DOMAIN config.protections
      BY ConfigFields
    <3> QED
      BY <3>1, KindTypes, TurnsConsidered DEF Turns
  <2>2. 1 + 3 = 4 /\ 2 + 3 = 5
    OBVIOUS
  <2> QED
    BY <1>1, <2>1, <2>2
<1>3. \A k \in Turns : Turn(k) \in Seq(Entries)
  <2> SUFFICES ASSUME NEW k \in Turns PROVE Turn(k) \in Seq(Entries)
    OBVIOUS
  <2>1. Entry(k) \in Entries
    BY DEF Entries
  <2> QED
    BY <2>1 DEF Turn
<1>4. "loc" \in Turns /\ "moqmi" \in Turns /\ "none" \in Turns
  BY DEF Turns
<1> DEFINE a == Turn("loc")
           b == Turn("moqmi")
           c == Turn("none")
           d == Turn(Considered[4])
           e == Turn(Considered[5])
<1>5. a \in Seq(Entries) /\ b \in Seq(Entries) /\ c \in Seq(Entries)
      /\ (len >= 1 => d \in Seq(Entries)) /\ (len >= 2 => e \in Seq(Entries))
  BY <1>2, <1>3, <1>4
<1>6. /\ OfferedBy(0) = << >> /\ OfferedBy(1) = a /\ OfferedBy(2) = a \o b
      /\ OfferedBy(3) = a \o b \o c /\ OfferedBy(4) = a \o b \o c \o d
      /\ OfferedBy(5) = a \o b \o c \o d \o e
  BY SMTT(40) DEF OfferedBy
<1> HIDE DEF a, b, c, d, e, len
<1>7. << >> \in Seq(Entries) /\ << >> \o a = a
  BY <1>5, ConcatEmptySeq
<1>8. a \o b \in Seq(Entries) /\ a \o b \o c \in Seq(Entries)
  BY <1>5
<1>9. /\ len >= 1 => a \o b \o c \o d \in Seq(Entries)
      /\ len >= 2 => a \o b \o c \o d \o e \in Seq(Entries)
  BY <1>1, <1>5, <1>8
<1>10. n \in 0 .. 5 /\ n <= 3 + len
  BY <1>1
<1>11. CASE n = 0
  <2>1. n + 1 = 1 /\ (n < 3 + len => len >= 0)
    BY <1>1, <1>11
  <2>2. n < 3 + len => Considered[n + 1] \in Turns
    BY <1>1, <1>2, <1>4, <2>1
  <2>3. OfferedBy(n) \in Seq(Entries)
    BY <1>6, <1>7, <1>11
  <2>4. OfferedBy(n + 1) = OfferedBy(n) \o Turn(Considered[n + 1])
    BY <1>1, <1>6, <1>7, <1>11, <2>1 DEF a
  <2> QED
    BY <1>1, <2>2, <2>3, <2>4
<1>12. CASE n = 1
  <2>1. n + 1 = 2 /\ (n < 3 + len => len >= 0)
    BY <1>1, <1>12
  <2>2. n < 3 + len => Considered[n + 1] \in Turns
    BY <1>1, <1>2, <1>4, <2>1
  <2>3. OfferedBy(n) \in Seq(Entries)
    BY <1>5, <1>6, <1>12
  <2>4. OfferedBy(n + 1) = OfferedBy(n) \o Turn(Considered[n + 1])
    BY <1>1, <1>6, <1>7, <1>12, <2>1 DEF b
  <2> QED
    BY <1>1, <2>2, <2>3, <2>4
<1>13. CASE n = 2
  <2>1. n + 1 = 3 /\ (n < 3 + len => len >= 0)
    BY <1>1, <1>13
  <2>2. n < 3 + len => Considered[n + 1] \in Turns
    BY <1>1, <1>2, <1>4, <2>1
  <2>3. OfferedBy(n) \in Seq(Entries)
    BY <1>6, <1>8, <1>13
  <2>4. OfferedBy(n + 1) = OfferedBy(n) \o Turn(Considered[n + 1])
    BY <1>1, <1>6, <1>7, <1>13, <2>1 DEF c
  <2> QED
    BY <1>1, <2>2, <2>3, <2>4
<1>14. CASE n = 3
  <2>1. n + 1 = 4 /\ (n < 3 + len => len >= 1)
    BY <1>1, <1>14
  <2>2. n < 3 + len => Considered[n + 1] \in Turns
    BY <1>1, <1>2, <1>4, <2>1
  <2>3. OfferedBy(n) \in Seq(Entries)
    BY <1>6, <1>8, <1>14
  <2>4. OfferedBy(n + 1) = OfferedBy(n) \o Turn(Considered[n + 1])
    BY <1>1, <1>6, <1>7, <1>14, <2>1 DEF d
  <2> QED
    BY <1>1, <2>2, <2>3, <2>4
<1>15. CASE n = 4
  <2>1. n + 1 = 5 /\ (n < 3 + len => len >= 2)
    BY <1>1, <1>15
  <2>2. n < 3 + len => Considered[n + 1] \in Turns
    BY <1>1, <1>2, <1>4, <2>1
  <2>3. OfferedBy(n) \in Seq(Entries)
    <3>1. len >= 1
      BY <1>1, <1>10, <1>15
    <3>2. a \o b \o c \o d \in Seq(Entries)
      BY <1>9, <3>1
    <3> QED
      BY <1>6, <1>15, <3>2
  <2>4. OfferedBy(n + 1) = OfferedBy(n) \o Turn(Considered[n + 1])
    BY <1>1, <1>6, <1>7, <1>15, <2>1 DEF e
  <2> QED
    BY <1>1, <2>2, <2>3, <2>4
<1>16. CASE n = 5
  <2>1. len >= 2 /\ ~(n < 3 + len)
    BY <1>1, <1>10, <1>16
  <2>2. a \o b \o c \o d \o e \in Seq(Entries)
    BY <1>9, <2>1
  <2>3. OfferedBy(n) \in Seq(Entries)
    BY <1>6, <1>16, <2>2
  <2> QED
    BY <1>1, <2>1, <2>3
<1> QED
  BY <1>10, <1>11, <1>12, <1>13, <1>14, <1>15, <1>16, SMTT(40)
(* A turn adds what the offer has for it.                                   *)
LEMMA TurnTaken ==
  ASSUME OfferInv, phase = "offer", next < Len(Considered),
         NEW k, k = Considered[next + 1],
         namespaces' = IF Offered(k) THEN Append(namespaces, Entry(k)) ELSE namespaces
  PROVE  namespaces' = OfferedBy(next + 1)
<1>1. /\ ProcessTypes /\ next \in Nat /\ next \in 0 .. Len(Considered)
      /\ namespaces = OfferedBy(next)
  BY TurnsConsidered DEF OfferInv, LoadInv, ProcessTypes, Offering
<1>2. /\ namespaces \in Seq(Entries) /\ k \in Turns
      /\ OfferedBy(next + 1) = namespaces \o Turn(k)
  BY <1>1, TurnsAreEntries
<1>3. CASE Offered(k)
  <2>1. Entry(k) \in Entries
    BY <1>2 DEF Entries
  <2>2. Append(namespaces, Entry(k)) = namespaces \o <<Entry(k)>>
    BY <1>2, <2>1, AppendIsConcat
  <2> QED
    BY <1>2, <1>3, <2>2 DEF Turn
<1>4. CASE ~Offered(k)
  <2>1. namespaces \o << >> = namespaces
    BY <1>2, ConcatEmptySeq
  <2> QED
    BY <1>2, <1>4, <2>1 DEF Turn
<1> QED
  BY <1>3, <1>4

LEMMA OfferNextOffers ==
  ASSUME OfferInv, OfferNext
  PROVE  Copied' /\ Placed' /\ Offering'
<1> DEFINE k == Considered[next + 1]
<1>0. /\ phase = "offer" /\ next < Len(Considered) /\ ProcessTypes /\ next \in Nat
      /\ k \in Turns
  <2>1. phase = "offer" /\ next < Len(Considered) /\ ProcessTypes /\ next \in Nat
    BY DEF OfferNext, OfferInv, LoadInv, ProcessTypes
  <2>2. next \in 0 .. Len(Considered)
    BY <2>1, TurnsConsidered
  <2> QED
    BY <2>1, <2>2, TurnsAreEntries
<1>1. ASSUME UNCHANGED <<groups, dir, config, phase>>, next' = next + 1,
             namespaces' = IF Offered(k) THEN Append(namespaces, Entry(k)) ELSE namespaces
      PROVE  Copied' /\ Placed' /\ Offering'
  <2>1. PICK n \in Nat : n = next + 1
    BY <1>0
  <2>2. namespaces' = OfferedBy(n) /\ next' = n
    BY <1>0, <1>1, <2>1, TurnTaken
  <2>3. OfferedBy(n)' = OfferedBy(n) /\ Considered' = Considered
    BY <1>1, SameOffer
  <2>4. n <= Len(Considered)
    <3>1. Len(Considered) \in Nat
      BY <1>0, TurnsConsidered
    <3> DEFINE len == Len(Considered)
    <3> HIDE DEF len
    <3>2. next < len /\ len \in Nat
      BY <1>0, <3>1 DEF len
    <3>3. n <= len
      BY <1>0, <2>1, <3>2
    <3> QED
      BY <3>3 DEF len
  <2>5. OfferedBy(next)' = OfferedBy(n)
    BY <2>2, <2>3
  <2>6. Offering'
    BY <1>0, <1>1, <2>2, <2>3, <2>4, <2>5 DEF Offering
  <2> QED
    BY <1>0, <1>1, <2>6, SettledCopies
<1>2. ASSUME phase' \in {"refused", "panicked"}
      PROVE  Copied' /\ Placed' /\ Offering'
  BY <1>2, StoppedCopies DEF Offering
<1> HIDE DEF k
<1>3. CASE k = "loc" /\ ConsiderLOC
  <2>1. /\ Offered(k) <=> GenLOCCatalogEntry # {}
        /\ Entry(k) = Offer!NamespaceEntry("msf/clear", "loc", GenLOCCatalogEntry,
                                           Offer!NoTracks)
    BY <1>0, <1>3, CatalogsOffered DEF Offered, Entry
  <2> QED
    BY <1>1, <1>3, <2>1 DEF ConsiderLOC, Skips, Offers, Advance, asset
<1>4. CASE k = "moqmi" /\ ConsiderMoqMI
  <2>1. /\ Offered(k) <=> ClearOf("avc") # {}
        /\ ClearOf("avc") # {} =>
             Entry(k) = Offer!NamespaceEntry("moq-mi/clear", "moqmi", {}, BuildMoqMITrackMap)
    BY <1>0, <1>4, MoqMIOffered DEF Offered, Entry
  <2> QED
    BY <1>1, <1>4, <2>1 DEF ConsiderMoqMI, Skips, Offers, Advance, asset
<1>5. CASE k \notin {"loc", "moqmi"} /\ ConsiderCMAF(k)
  <2>1. /\ Offered(k)
        /\ Entry(k) = Offer!NamespaceEntry(NamespaceOf(k), "cmaf", GenCMAFCatalogEntry(k),
                                           Offer!NoTracks)
    BY <1>0, <1>5, CatalogsOffered DEF Offered, Entry
  <2>2. CASE Refuse \/ Panic
    BY <1>2, <2>2 DEF Refuse, Panic, Stop
  <2>3. CASE Offers(Offer!NamespaceEntry(NamespaceOf(k), "cmaf", GenCMAFCatalogEntry(k),
                                         Offer!NoTracks))
    BY <1>1, <2>1, <2>3 DEF Offers, Advance
  <2> QED
    BY <1>5, <2>2, <2>3 DEF ConsiderCMAF
<1> QED
  BY <1>3, <1>4, <1>5 DEF OfferNext, k

(* All turns together are the offer.                                        *)
LEMMA AllOffered ==
  ASSUME ProcessTypes
  PROVE  OfferedBy(Len(Considered)) = Offer!Namespaces
<1> DEFINE ps == config.protections
           a == Turn("loc")
           b == Turn("moqmi")
           c == Turn("none")
           d == Turn("drm")
           e == Turn("eccp")
           drm == \E p \in Range(ps) : p.type = "drm"
           eccp == \E p \in Range(ps) : p.type = "eccp"
<1>1. Offer!Namespaces = a \o b \o c \o (IF drm THEN d ELSE << >>)
                           \o (IF eccp THEN e ELSE << >>)
  BY DEF Offer!Namespaces, Offer!When, Turn, Offered, Entry, NamespaceOf
<1>2. a \o b \o c \in Seq(Entries) /\ d \in Seq(Entries) /\ e \in Seq(Entries)
  <2>1. ASSUME NEW k \in Turns PROVE Turn(k) \in Seq(Entries)
    <3>1. Entry(k) \in Entries
      BY DEF Entries
    <3> QED
      BY <3>1 DEF Turn
  <2>2. a \in Seq(Entries) /\ b \in Seq(Entries) /\ c \in Seq(Entries)
        /\ d \in Seq(Entries) /\ e \in Seq(Entries)
    BY <2>1 DEF Turns
  <2> HIDE DEF a, b, c, d, e
  <2> QED
    BY <2>2
<1>3. /\ Len(Considered) = 3 + Len(ps) /\ Len(ps) \in 0 .. 2
      /\ DOMAIN ps = 1 .. Len(ps)
      /\ \A i \in DOMAIN ps : Considered[i + 3] = ps[i].type /\ ps[i].type \in {"drm", "eccp"}
      /\ \A i, j \in DOMAIN ps : i < j => ps[i].type = "drm" /\ ps[j].type = "eccp"
  BY TurnsConsidered, ConfigFields, KindTypes
<1>4. /\ drm <=> \E i \in DOMAIN ps : ps[i].type = "drm"
      /\ eccp <=> \E i \in DOMAIN ps : ps[i].type = "eccp"
  BY DEF Range
<1> DEFINE abc == a \o b \o c
<1>5. /\ OfferedBy(3) = abc /\ OfferedBy(4) = abc \o Turn(Considered[4])
      /\ OfferedBy(5) = abc \o Turn(Considered[4]) \o Turn(Considered[5])
  BY DEF OfferedBy
<1> DEFINE Offers2(x, y) == abc \o x \o y
<1>6. Offer!Namespaces = Offers2(IF drm THEN d ELSE << >>, IF eccp THEN e ELSE << >>)
  BY <1>1
<1>7. /\ abc \o << >> = abc
      /\ Offers2(<< >>, << >>) = abc /\ Offers2(d, << >>) = abc \o d
      /\ Offers2(<< >>, e) = abc \o e /\ Offers2(d, e) = abc \o d \o e
  <2> HIDE DEF abc, d, e
  <2>1. abc \in Seq(Entries) /\ abc \o d \in Seq(Entries)
    BY <1>2 DEF abc
  <2>2. abc \o << >> = abc /\ (abc \o d) \o << >> = abc \o d
    BY <2>1, ConcatEmptySeq
  <2> QED
    BY <2>2
<1> HIDE DEF Offers2, abc, drm, eccp, ps
<1>8. CASE Len(ps) = 0
  <2>1. ~drm /\ ~eccp /\ Len(Considered) = 3
    BY <1>3, <1>4, <1>8
  <2> QED
    BY <1>5, <1>6, <1>7, <2>1
<1>9. CASE Len(ps) = 1
  <2>1. 1 \in DOMAIN ps /\ \A i \in DOMAIN ps : i = 1
    BY <1>3, <1>9
  <2>2. Considered[4] = ps[1].type /\ ps[1].type \in {"drm", "eccp"} /\ Len(Considered) = 4
    BY <1>3, <1>9, <2>1
  <2>3. CASE ps[1].type = "drm"
    <3>1. drm /\ ~eccp
      BY <1>4, <2>1, <2>3
    <3> QED
      BY <1>5, <1>6, <1>7, <2>2, <2>3, <3>1
  <2>4. CASE ps[1].type = "eccp"
    <3>1. ~drm /\ eccp
      BY <1>4, <2>1, <2>4
    <3> QED
      BY <1>5, <1>6, <1>7, <2>2, <2>4, <3>1
  <2> QED
    BY <2>2, <2>3, <2>4
<1>10. CASE Len(ps) = 2
  <2>1. 1 \in DOMAIN ps /\ 2 \in DOMAIN ps
    BY <1>3, <1>10
  <2>2. ps[1].type = "drm" /\ ps[2].type = "eccp"
    BY <1>3, <2>1
  <2>3. Considered[4] = "drm" /\ Considered[5] = "eccp" /\ Len(Considered) = 5
    <3>1. 1 + 3 = 4 /\ 2 + 3 = 5
      OBVIOUS
    <3> QED
      BY <1>3, <1>10, <2>1, <2>2, <3>1
  <2>4. drm /\ eccp
    BY <1>4, <2>1, <2>2
  <2> QED
    BY <1>5, <1>6, <1>7, <2>3, <2>4
<1> QED
  BY <1>3, <1>8, <1>9, <1>10
LEMMA ServeOffers ==
  ASSUME OfferInv, Serve
  PROVE  Copied' /\ Placed' /\ Offering'
<1>1. /\ phase = "offer" /\ phase' = "serving" /\ next = Len(Considered)
      /\ UNCHANGED <<dir, config, groups, namespaces>>
      /\ ProcessTypes /\ namespaces = OfferedBy(next)
  BY DEF OfferInv, LoadInv, Offering, Serve, Enter, asset
<1>2. namespaces = Offer!Namespaces
  BY <1>1, AllOffered
<1>3. Offer!Namespaces' = Offer!Namespaces
  BY <1>1, SameOffer
<1>4. Offering'
  BY <1>1, <1>2, <1>3 DEF Offering
<1> QED
  BY <1>1, <1>4, SettledCopies

LEMMA InitOffers == Init => OfferInv
<1> SUFFICES ASSUME Init PROVE OfferInv
  OBVIOUS
<1>1. LoadInv /\ phase = "parse" /\ next = 0 /\ tracks = [t \in Types |-> {}]
      /\ namespaces = << >> /\ dir \in Seq(File)
  BY InitLoads, LoadingAssumption DEF Init
<1>2. 0 <= Len(dir)
  BY <1>1
<1>3. Copied
  BY <1>1, <1>2 DEF Copied
<1> QED
  BY <1>1, <1>3 DEF OfferInv, Placed, Offering

LEMMA NextOffers == OfferInv /\ [Next]_vars => OfferInv'
<1> SUFFICES ASSUME OfferInv, [Next]_vars PROVE OfferInv'
  OBVIOUS
<1>1. LoadInv'
  BY NextLoads DEF OfferInv
<1>2. ASSUME ParseFile \/ AllParsed \/ ProtectTracks \/ GenerateTrackGroups
      PROVE  Offering'
  <2>1. namespaces = << >>
    BY <1>2 DEF OfferInv, Offering, ParseFile, AllParsed, ProtectTracks, GenerateTrackGroups
  <2>2. namespaces' = namespaces
        /\ phase' \in {"parse", "protect", "loop", "refused", "panicked"}
    BY <1>2 DEF ParseFile, AllParsed, ProtectTracks, GenerateTrackGroups, Refuse, Panic,
                Stop, Enter, Advance, asset
  <2> QED
    BY <2>1, <2>2 DEF Offering
<1>3. ASSUME SetLoopDuration PROVE Offering'
  <2>1. namespaces = << >>
    BY <1>3 DEF OfferInv, Offering, SetLoopDuration
  <2>2. /\ namespaces' = namespaces
        /\ \/ phase' \in {"refused", "panicked"}
           \/ phase' = "offer" /\ next' = 0 /\ dir' = dir /\ config' = config
    <3>1. CASE Refuse
      BY <3>1 DEF Refuse, Stop, asset
    <3>2. CASE Enter("offer") /\ UNCHANGED <<tracks, namespaces>>
      BY <3>2 DEF Enter
    <3> QED
      BY <1>3, <3>1, <3>2 DEF SetLoopDuration
  <2>3. OfferedBy(0)' = << >>
    BY DEF OfferedBy
  <2>4. CASE phase' = "offer"
    <3>1. Considered' = Considered /\ Len(Considered) \in Nat
      BY <2>2, <2>4, SameOffer, TurnsConsidered DEF OfferInv, LoadInv
    <3>2. OfferedBy(next)' = << >> /\ 0 <= Len(Considered)
      BY <2>2, <2>3, <2>4, <3>1
    <3> QED
      BY <2>1, <2>2, <2>4, <3>1, <3>2 DEF Offering
  <2> QED
    BY <2>2, <2>4 DEF Offering
<1>4. CASE UNCHANGED vars
  <2>1. UNCHANGED <<phase, next, tracks, groups, namespaces>> /\ dir' = dir /\ config' = config
    BY <1>4 DEF vars, asset
  <2>2. Loaded' = Loaded /\ KindsAdded' = KindsAdded
    BY <2>1 DEF Loaded, KindsAdded
  <2>3. Copied'
    BY <2>1, <2>2, SameCopies DEF OfferInv, Copied
  <2>4. Offering'
    BY <2>1, SameOffer DEF OfferInv, Offering
  <2> QED
    BY <1>1, <2>1, <2>3, <2>4 DEF OfferInv, Placed
<1>5. CASE Next
  BY <1>1, <1>2, <1>3, <1>5, ParseFileCopies, AllParsedCopies, ProtectTracksCopies,
     GenerateTrackGroupsCopies, SetLoopDurationCopies, OfferNextOffers, ServeOffers
  DEF Next, OfferInv
<1> QED
  BY <1>4, <1>5

(* Serving, the publisher offers what module Catalogs says it does, the     *)
(* offer that the sessions are about: whatever order the sorting left equal *)
(* tracks in.                                                               *)
THEOREM TheWholeOffer == Spec => []OffersCatalogs
<1>1. OfferInv => OffersCatalogs
  BY DEF OfferInv, Offering, OffersCatalogs
<1> QED
  BY <1>1, InitOffers, NextOffers, PTL DEF Spec
=============================================================================
