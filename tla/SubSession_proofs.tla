------------------------- MODULE SubSession_proofs -------------------------
(***************************************************************************)
(* Safety of the catalog retrieval for any number of catalogs, any of them *)
(* malformed, every mode, publisher and transport; then of a run of the    *)
(* subscriber, for any catalogs, outputs and flags.  What is chosen from   *)
(* the catalogs is proved for a publisher whose catalogs only grow         *)
(* (CatalogsGrow).                                                         *)
(***************************************************************************)
EXTENDS SubSession, SequenceTheorems, FiniteSetTheorems, TLAPS

Joining == setting.mode = "joining"

(* Which calls belong to which mode, and what is open during each.         *)
Stages ==
  /\ sync = "subscribe" => setting.mode \in {"joining", "subscribe"}
  /\ sync = "first" => setting.mode = "subscribe"
  /\ sync \in {"fetch", "read"} => setting.mode \in {"joining", "fetch"}
  /\ sync \in {"start", "subscribe"} => ~subscribed /\ inflight = {}
  /\ setting.mode = "fetch" => ~subscribed /\ inflight = {} /\ updater = "none"
  /\ sync # "read" => ~fetching
  /\ sync = "failed" \/ updater = "ended" => ~subscribed
  /\ subscribed /\ sync = "ok" => updater = "run"
  /\ updater # "none" => sync = "ok"
  /\ sync = "ok" /\ Joining => catalog # 0

(* The last catalog applied is the one in use, and there is none before    *)
(* the retrieval is over.                                                  *)
LastApplied ==
  /\ sync \notin {"ok", "failed"} => applied = << >>
  /\ catalog = IF applied = << >> THEN 0 ELSE applied[Len(applied)]

(* A catalog is applied once: what was applied is no longer in flight, or  *)
(* it is what the fetch covers and will be skipped.                        *)
AppliedOnce ==
  /\ \A i, j \in DOMAIN applied : applied[i] = applied[j] => i = j
  /\ \A i \in DOMAIN applied :
       applied[i] \in inflight => Joining /\ applied[i] <= largest

(* Joining, the fetched catalog is the one at the largest location of the  *)
(* subscription, and all others are later.                                 *)
FetchedFirst ==
  Joining =>
    /\ sync = "read" => fetched = largest
    /\ \A i \in DOMAIN applied : applied[i] >= largest
    /\ applied # << >> => applied[1] = largest

(* With groups in order, what is still to come is later than the catalog   *)
(* in use, or will be skipped.                                             *)
LaterToCome ==
  setting.ordered =>
    \A v \in inflight : v > catalog \/ (Joining /\ v <= largest)

SyncInv ==
  SyncTypeOK /\ Stages /\ LastApplied /\ AppliedOnce /\ FetchedFirst /\ LaterToCome
-----------------------------------------------------------------------------
(* Constants and sequences                                                 *)

LEMMA SettingFields ==
  ASSUME SyncTypeOK
  PROVE  /\ setting.mode \in Mode /\ setting.ordered \in BOOLEAN
         /\ setting.replays \in BOOLEAN
BY SyncAssumption DEF SyncTypeOK, Setting

(* Object 0 of a later group comes after object 0 of an earlier one.       *)
LEMMA LaterLocation ==
  ASSUME NEW v \in Nat \ {0}, NEW u \in Nat
  PROVE  AfterLocation(Location(v), Location(u)) <=> v > u
BY DEF AfterLocation, Location

(* More publications do not take any away.                                 *)
LEMMA SeqUpTo ==
  ASSUME NEW n \in Nat, NEW m \in Nat, n <= m, NEW s \in Seq(1 .. n)
  PROVE  s \in Seq(1 .. m)
OBVIOUS

LEMMA Appended ==
  ASSUME NEW n \in Nat, NEW s \in Seq(1 .. n), NEW v \in 1 .. n
  PROVE  /\ Append(s, v) \in Seq(1 .. n)
         /\ Append(s, v) # << >>
         /\ Len(Append(s, v)) = Len(s) + 1
         /\ DOMAIN Append(s, v) = 1 .. Len(s) + 1
         /\ \A i \in 1 .. Len(s) : Append(s, v)[i] = s[i]
         /\ Append(s, v)[Len(s) + 1] = v
OBVIOUS

LEMMA InitSyncInv == SyncInit => SyncInv
<1> SUFFICES ASSUME SyncInit PROVE SyncInv
  OBVIOUS
<1> USE DEF SyncInit
<1>1. setting.mode \in Mode
  BY SyncAssumption DEF Setting
<1>2. SyncTypeOK
  <2>1. applied \in Seq(1 .. published)
    BY EmptySeq
  <2>2. published \in 0 .. MaxCatalog /\ largest \in 0 .. published
        /\ inflight \subseteq 1 .. published /\ fetched \in 0 .. published
        /\ catalog \in 0 .. published
    BY SyncAssumption
  <2>3. setting \in Settings /\ subscribed \in BOOLEAN /\ fetching \in BOOLEAN
        /\ ctxDone \in BOOLEAN /\ gone \in BOOLEAN
    OBVIOUS
  <2> QED
    BY <2>1, <2>2, <2>3 DEF SyncTypeOK
<1>3. Stages
  BY DEF Stages
<1>4. LastApplied /\ AppliedOnce /\ FetchedFirst /\ LaterToCome
  BY DEF LastApplied, AppliedOnce, FetchedFirst, LaterToCome
<1> QED
  BY <1>2, <1>3, <1>4 DEF SyncInv
-----------------------------------------------------------------------------
(* The steps                                                               *)

(* A step that neither delivers nor applies a catalog.                     *)
LEMMA QuietInv ==
  ASSUME SyncInv,
         UNCHANGED <<setting, published, inflight, largest, fetched, catalogVars>>,
         SyncTypeOK', Stages',
         sync' \in {"ok", "failed"} \/ sync \notin {"ok", "failed"},
         sync' = "read" => sync = "read"
  PROVE  SyncInv'
<1>1. LastApplied' /\ AppliedOnce'
  BY DEF SyncInv, LastApplied, AppliedOnce, catalogVars, Joining
<1>2. FetchedFirst' /\ LaterToCome'
  BY DEF SyncInv, FetchedFirst, LaterToCome, catalogVars, Joining
<1> QED
  BY <1>1, <1>2 DEF SyncInv

LEMMA StartInv ==
  ASSUME SyncInv, Start PROVE SyncInv'
<1>1. SyncTypeOK' /\ Stages'
  BY SettingFields
     DEF SyncInv, SyncTypeOK, Stages, Start, Mode, Joining, requestVars, catalogVars, outsideVars
<1> QED
  BY <1>1, QuietInv DEF SyncInv, SyncTypeOK, Start, requestVars, catalogVars, outsideVars

LEMMA EndInv ==
  ASSUME SyncInv,
         \/ SubscribeFails \/ FetchFails \/ ReadFetchEnds \/ ReadFirstEnds \/ UpdaterEnds
  PROVE  SyncInv'
<1>1. SyncTypeOK'
  BY DEF SyncInv, SyncTypeOK, SubscribeFails, FetchFails, ReadFetchEnds,
         ReadFirstEnds, UpdaterEnds, Fail, catalogVars, outsideVars
<1>2. Stages'
  BY DEF SyncInv, Stages, SubscribeFails, FetchFails, ReadFetchEnds,
         ReadFirstEnds, UpdaterEnds, Fail, Joining, catalogVars, outsideVars
<1>3. /\ UNCHANGED <<setting, published, inflight, largest, fetched, catalogVars>>
      /\ sync' \in {"ok", "failed"} \/ sync' = sync
  BY DEF SubscribeFails, FetchFails, ReadFetchEnds, ReadFirstEnds, UpdaterEnds, Fail,
         outsideVars
<1> QED
  BY <1>1, <1>2, <1>3, QuietInv

(* Only the context and the connection change.                             *)
LEMMA OutsideInv ==
  ASSUME SyncInv, ctxDone' \in BOOLEAN, gone' \in BOOLEAN,
         UNCHANGED <<setting, published, sync, inflight, updater, requestVars, catalogVars>>
  PROVE  SyncInv'
<1>1. SyncTypeOK' /\ Stages'
  BY DEF SyncInv, SyncTypeOK, Stages, Joining, requestVars, catalogVars
<1> QED
  BY <1>1, QuietInv DEF requestVars

LEMMA PublishInv ==
  ASSUME SyncInv, Publish PROVE SyncInv'
<1> USE DEF Publish, requestVars, catalogVars, outsideVars
<1>1. published \in Nat /\ published' = published + 1 /\ applied \in Seq(1 .. published)
  BY SyncAssumption DEF SyncInv, SyncTypeOK
<1>2. applied' \in Seq(1 .. published')
  BY <1>1, SeqUpTo
<1>3. SyncTypeOK'
  <2>1. published' \in 0 .. MaxCatalog
    BY SyncAssumption DEF SyncInv, SyncTypeOK
  <2>2. inflight' \subseteq 1 .. published'
    BY <1>1 DEF SyncInv, SyncTypeOK
  <2> QED
    BY <1>1, <1>2, <2>1, <2>2 DEF SyncInv, SyncTypeOK
<1>4. Stages'
  BY DEF SyncInv, Stages, Joining
<1>5. \A i \in DOMAIN applied : applied[i] \in Nat /\ applied[i] <= published
  BY <1>1
<1>6. LastApplied' /\ AppliedOnce' /\ FetchedFirst'
  BY <1>1, <1>5 DEF SyncInv, LastApplied, AppliedOnce, FetchedFirst, Joining
<1>7. LaterToCome'
  BY <1>1 DEF SyncInv, SyncTypeOK, LaterToCome, Joining
<1> QED
  BY <1>3, <1>4, <1>6, <1>7 DEF SyncInv

LEMMA SubscribeOKInv ==
  ASSUME SyncInv, SubscribeOK PROVE SyncInv'
<1> USE DEF SubscribeOK, catalogVars, outsideVars
<1>1. sync = "subscribe" /\ applied = << >> /\ catalog = 0 /\ published \in Nat
  BY SyncAssumption DEF SyncInv, SyncTypeOK, LastApplied
<1>2. inflight' \subseteq 1 .. published'
  BY <1>1
<1>3. SyncTypeOK'
  <2>1. /\ sync' \in {"fetch", "first", "failed"}
        /\ subscribed' \in BOOLEAN /\ fetching' \in BOOLEAN
    BY DEF SyncInv, SyncTypeOK, Fail
  <2>2. largest' \in 0 .. published'
    BY <1>1
  <2> QED
    BY <1>2, <2>1, <2>2 DEF SyncInv, SyncTypeOK
<1>4. Stages'
  BY <1>1 DEF SyncInv, Stages, Joining, Fail
<1>5. LastApplied' /\ AppliedOnce' /\ FetchedFirst'
  BY <1>1 DEF SyncInv, LastApplied, AppliedOnce, FetchedFirst, Fail
<1>6. LaterToCome'
  BY <1>1, <1>2 DEF LaterToCome
<1> QED
  BY <1>3, <1>4, <1>5, <1>6 DEF SyncInv

LEMMA FetchOKInv ==
  ASSUME SyncInv, FetchOK PROVE SyncInv'
<1> USE DEF FetchOK, catalogVars, outsideVars
<1>1. applied = << >> /\ catalog = 0
  BY DEF SyncInv, LastApplied
<1>2. SyncTypeOK'
  BY DEF SyncInv, SyncTypeOK
<1>3. Stages'
  BY DEF SyncInv, Stages, Joining
<1>4. LastApplied' /\ AppliedOnce' /\ FetchedFirst' /\ LaterToCome'
  BY <1>1 DEF SyncInv, LastApplied, AppliedOnce, FetchedFirst, LaterToCome, Joining
<1> QED
  BY <1>2, <1>3, <1>4 DEF SyncInv

(* A step that applies catalog v, one that was not applied before.         *)
LEMMA ApplyInv ==
  ASSUME SyncInv, NEW v \in 1 .. published, ApplyCatalog(v),
         UNCHANGED <<setting, published, largest, fetched>>,
         inflight' \subseteq inflight, sync' \in {"ok", "failed"},
         \A i \in DOMAIN applied : applied[i] # v,
         v \in inflight' => Joining /\ v <= largest,
         Joining => v >= largest /\ (applied = << >> => v = largest),
         setting.ordered => \A u \in inflight' : u > v \/ (Joining /\ u <= largest)
  PROVE  /\ catalog' \in 1 .. published' /\ applied' \in Seq(1 .. published')
         /\ LastApplied' /\ AppliedOnce' /\ FetchedFirst' /\ LaterToCome'
<1>1. published \in Nat /\ applied \in Seq(1 .. published) /\ largest \in Nat
  BY SyncAssumption DEF SyncInv, SyncTypeOK
<1>2. catalog' = v /\ applied' = Append(applied, v)
  BY DEF ApplyCatalog
<1>3. /\ applied' \in Seq(1 .. published)
      /\ applied' # << >>
      /\ Len(applied') = Len(applied) + 1
      /\ DOMAIN applied' = 1 .. Len(applied) + 1
      /\ \A i \in 1 .. Len(applied) : applied'[i] = applied[i]
      /\ applied'[Len(applied) + 1] = v
  BY <1>1, <1>2, Appended
<1>4. Len(applied) \in Nat /\ DOMAIN applied = 1 .. Len(applied)
  BY <1>1
<1>5. LastApplied'
  BY <1>2, <1>3 DEF LastApplied
<1>6. ASSUME NEW i \in DOMAIN applied'
      PROVE  \/ i \in DOMAIN applied /\ applied'[i] = applied[i]
             \/ i = Len(applied) + 1 /\ applied'[i] = v
  BY <1>3, <1>4
<1>7. AppliedOnce'
  <2>1. \A i, j \in DOMAIN applied' : applied'[i] = applied'[j] => i = j
    BY <1>6 DEF SyncInv, AppliedOnce
  <2>2. \A i \in DOMAIN applied' :
          applied'[i] \in inflight' => Joining /\ applied'[i] <= largest
    BY <1>6 DEF SyncInv, AppliedOnce
  <2> QED
    BY <2>1, <2>2 DEF AppliedOnce, Joining
<1>8. FetchedFirst'
  <2> SUFFICES ASSUME Joining
               PROVE  /\ \A i \in DOMAIN applied' : applied'[i] >= largest
                      /\ applied'[1] = largest
    BY DEF FetchedFirst, Joining
  <2>1. \A i \in DOMAIN applied' : applied'[i] >= largest
    BY <1>6 DEF SyncInv, FetchedFirst
  <2>2. CASE applied = << >>
    BY <1>3, <2>1, <2>2
  <2>3. CASE applied # << >>
    <3>1. applied[1] = largest /\ 1 \in 1 .. Len(applied)
      BY <1>1, <1>4, <2>3, EmptySeq DEF SyncInv, FetchedFirst
    <3> QED
      BY <1>3, <2>1, <3>1
  <2> QED
    BY <2>1, <2>2, <2>3
<1>9. LaterToCome'
  BY <1>2 DEF LaterToCome, Joining
<1> QED
  BY <1>2, <1>3, <1>5, <1>7, <1>8, <1>9

LEMMA ReadFetchedInv ==
  ASSUME SyncInv, ReadFetched PROVE SyncInv'
<1> USE DEF ReadFetched, outsideVars
<1>1. /\ sync = "read" /\ applied = << >> /\ catalog = 0
      /\ fetched \in 1 .. published /\ published \in Nat
  BY SyncAssumption DEF SyncInv, SyncTypeOK, LastApplied
<1>2. Stages'
  BY <1>1 DEF SyncInv, Stages, Joining, Fail, ApplyCatalog
<1>3. CASE fetched \in Malformed
  <2>1. UNCHANGED <<catalog, applied, updater>> /\ Fail
    BY <1>3 DEF catalogVars
  <2>2. SyncTypeOK'
    BY <2>1 DEF SyncInv, SyncTypeOK, Fail
  <2> QED
    BY <1>2, <2>1, <2>2, QuietInv DEF Fail, catalogVars
<1>4. CASE fetched \notin Malformed
  <2>1. /\ ApplyCatalog(fetched) /\ sync' \in {"ok", "failed"}
        /\ subscribed' \in BOOLEAN /\ fetching' \in BOOLEAN
        /\ updater' \in {"none", "run", "ended"}
    BY <1>4 DEF SyncInv, SyncTypeOK, Fail
  <2>2. Joining => fetched = largest
    BY <1>1 DEF SyncInv, FetchedFirst
  <2>3. ~Joining => inflight = {}
    BY <1>1 DEF SyncInv, Stages, Joining
  <2>4. setting.ordered =>
          \A u \in inflight : u > fetched \/ (Joining /\ u <= largest)
    BY <1>1, <2>2, <2>3 DEF SyncInv, SyncTypeOK
  <2>5. /\ catalog' \in 1 .. published' /\ applied' \in Seq(1 .. published')
        /\ LastApplied' /\ AppliedOnce' /\ FetchedFirst' /\ LaterToCome'
    <3>1. \A i \in DOMAIN applied : applied[i] # fetched
      BY <1>1
    <3>2. fetched \in inflight' => Joining /\ fetched <= largest
      BY <1>1, <2>2, <2>3
    <3>3. Joining => fetched >= largest /\ (applied = << >> => fetched = largest)
      BY <1>1, <2>2
    <3>4. UNCHANGED <<setting, published, largest, fetched, inflight>>
      OBVIOUS
    <3> HIDE DEF ReadFetched
    <3> QED
      BY <1>1, <2>1, <2>4, <3>1, <3>2, <3>3, <3>4, ApplyInv
  <2>6. SyncTypeOK'
    BY <1>1, <2>1, <2>5 DEF SyncInv, SyncTypeOK
  <2> QED
    BY <1>2, <2>5, <2>6 DEF SyncInv
<1> QED
  BY <1>3, <1>4

(* With groups in order, what is left after a read is later than what was  *)
(* read.                                                                   *)
LEMMA OrderedReads ==
  ASSUME SyncInv, NEW v \in Readable, inflight' = inflight \ {v}, setting.ordered
  PROVE  \A u \in inflight' : u > v
BY SyncAssumption DEF Readable, SyncInv, SyncTypeOK

LEMMA ReadableInflight == Readable \subseteq inflight
BY DEF Readable

LEMMA ReadFirstInv ==
  ASSUME SyncInv, ReadFirst PROVE SyncInv'
<1> USE DEF ReadFirst, outsideVars
<1>1. /\ sync = "first" /\ applied = << >> /\ catalog = 0 /\ published \in Nat /\ ~Joining
  BY SyncAssumption DEF SyncInv, SyncTypeOK, Stages, LastApplied, Joining
<1>2. Stages'
  BY <1>1 DEF SyncInv, Stages, Joining, Fail, ApplyCatalog
<1>3. PICK v \in Readable :
        /\ inflight' = inflight \ {v}
        /\ IF v \in Malformed
           THEN Fail /\ UNCHANGED <<updater, catalogVars>>
           ELSE /\ ApplyCatalog(v)
                /\ sync' = "ok" /\ updater' = "run" /\ UNCHANGED <<subscribed, fetching>>
  OBVIOUS
<1>4. v \in 1 .. published /\ inflight' \subseteq 1 .. published
  BY <1>3, ReadableInflight DEF SyncInv, SyncTypeOK
<1>5. CASE v \in Malformed
  <2>1. Fail /\ UNCHANGED <<updater, catalog, applied>>
    BY <1>3, <1>5 DEF catalogVars
  <2>2. SyncTypeOK'
    BY <1>4, <2>1 DEF SyncInv, SyncTypeOK, Fail
  <2>3. LastApplied' /\ AppliedOnce' /\ FetchedFirst' /\ LaterToCome'
    BY <1>1, <1>4, <2>1 DEF Fail, LastApplied, AppliedOnce, FetchedFirst, LaterToCome, Joining
  <2> QED
    BY <1>2, <2>2, <2>3 DEF SyncInv
<1>6. CASE v \notin Malformed
  <2>1. /\ ApplyCatalog(v) /\ sync' = "ok" /\ updater' = "run"
        /\ UNCHANGED <<subscribed, fetching>>
    BY <1>3, <1>6
  <2>2. /\ catalog' \in 1 .. published' /\ applied' \in Seq(1 .. published')
        /\ LastApplied' /\ AppliedOnce' /\ FetchedFirst' /\ LaterToCome'
    <3>1. \A i \in DOMAIN applied : applied[i] # v
      BY <1>1
    <3>2. setting.ordered => \A u \in inflight' : u > v \/ (Joining /\ u <= largest)
      BY <1>3, OrderedReads
    <3> QED
      BY <1>1, <1>3, <1>4, <2>1, <3>1, <3>2, ApplyInv
  <2>3. SyncTypeOK'
    BY <1>1, <1>4, <2>1, <2>2 DEF SyncInv, SyncTypeOK
  <2> QED
    BY <1>2, <2>2, <2>3 DEF SyncInv
<1> QED
  BY <1>5, <1>6

LEMMA UpdaterReadsInv ==
  ASSUME SyncInv, UpdaterReads PROVE SyncInv'
<1> USE DEF UpdaterReads, outsideVars, requestVars
<1> DEFINE Applies(v) ==
      /\ v \notin Malformed
      /\ Joining => AfterLocation(Location(v), Location(largest))
<1>1. /\ sync = "ok" /\ updater = "run" /\ published \in Nat /\ largest \in Nat
      /\ Joining => applied # << >>
  BY SyncAssumption DEF SyncInv, SyncTypeOK, Stages, LastApplied
<1>2. PICK v \in Readable :
        /\ inflight' = inflight \ {v}
        /\ IF Applies(v) THEN ApplyCatalog(v) ELSE UNCHANGED catalogVars
  BY DEF Joining
<1>3. v \in 1 .. published /\ v \in inflight /\ inflight' \subseteq 1 .. published
  BY <1>2, ReadableInflight DEF SyncInv, SyncTypeOK
<1>4. CASE ~Applies(v)
  <2>1. UNCHANGED <<catalog, applied>>
    BY <1>2, <1>4 DEF catalogVars
  <2>2. SyncTypeOK' /\ Stages'
    BY <1>3, <2>1 DEF SyncInv, SyncTypeOK, Stages, Joining
  <2>3. LastApplied' /\ AppliedOnce' /\ FetchedFirst' /\ LaterToCome'
    BY <1>2, <2>1
       DEF SyncInv, LastApplied, AppliedOnce, FetchedFirst, LaterToCome, Joining
  <2> QED
    BY <2>2, <2>3 DEF SyncInv
<1>5. CASE Applies(v)
  <2>1. ApplyCatalog(v)
    BY <1>2, <1>5
  <2>2. Joining => v > largest
    BY <1>1, <1>3, <1>5, LaterLocation
  <2>3. /\ catalog' \in 1 .. published' /\ applied' \in Seq(1 .. published')
        /\ LastApplied' /\ AppliedOnce' /\ FetchedFirst' /\ LaterToCome'
    <3>1. \A i \in DOMAIN applied : applied[i] # v
      BY <1>1, <1>3, <2>2 DEF SyncInv, AppliedOnce
    <3>2. setting.ordered => \A u \in inflight' : u > v \/ (Joining /\ u <= largest)
      BY <1>2, OrderedReads
    <3>3. Joining => v >= largest /\ (applied = << >> => v = largest)
      BY <1>1, <1>3, <2>2
    <3> QED
      BY <1>1, <1>2, <1>3, <2>1, <3>1, <3>2, <3>3, ApplyInv
  <2>4. SyncTypeOK'
    BY <1>1, <1>3, <2>3 DEF SyncInv, SyncTypeOK
  <2>5. Stages'
    BY <1>1, <1>3, <2>3 DEF SyncInv, Stages, Joining
  <2> QED
    BY <2>3, <2>4, <2>5 DEF SyncInv
<1> QED
  BY <1>4, <1>5

LEMMA SyncNextInv ==
  ASSUME SyncInv, [SyncNext]_syncVars PROVE SyncInv'
<1>1. CASE CancelSync \/ PeerGone
  BY <1>1, OutsideInv
     DEF CancelSync, PeerGone, SyncInv, SyncTypeOK
<1>2. CASE RetrieveStep
  BY <1>2, StartInv, EndInv, SubscribeOKInv, FetchOKInv, ReadFetchedInv, ReadFirstInv
     DEF RetrieveStep
<1>3. CASE UpdaterStep
  BY <1>3, EndInv, UpdaterReadsInv DEF UpdaterStep
<1>4. CASE UNCHANGED syncVars
  BY <1>4, OutsideInv DEF syncVars, outsideVars, SyncInv, SyncTypeOK
<1> QED
  BY <1>1, <1>2, <1>3, <1>4, PublishInv DEF SyncNext

(* A step applies one catalog, or none.                                    *)
LEMMA Applications ==
  ASSUME SyncInv, SyncNext
  PROVE  UNCHANGED catalogVars \/ \E v \in 1 .. published : ApplyCatalog(v)
<1>1. CASE ReadFetched
  BY <1>1, SyncAssumption DEF ReadFetched, SyncInv, SyncTypeOK
<1>2. CASE ReadFirst \/ UpdaterReads
  <2>1. UNCHANGED catalogVars \/ \E v \in Readable : ApplyCatalog(v)
    BY <1>2 DEF ReadFirst, UpdaterReads
  <2> QED
    BY <2>1, ReadableInflight DEF SyncInv, SyncTypeOK
<1>3. CASE SyncNext /\ ~ReadFetched /\ ~ReadFirst /\ ~UpdaterReads
  BY <1>3 DEF SyncNext, RetrieveStep, UpdaterStep, Publish, CancelSync, PeerGone, Start,
              SubscribeFails, SubscribeOK, FetchFails, FetchOK, ReadFetchEnds,
              ReadFirstEnds, UpdaterEnds
<1> QED
  BY <1>1, <1>2, <1>3

(* What was applied stays applied.                                         *)
LEMMA AppliedStays ==
  ASSUME SyncInv, SyncNext
  PROVE  /\ catalog # 0 => catalog' # 0
         /\ \A i \in DOMAIN applied : i \in DOMAIN applied' /\ applied'[i] = applied[i]
<1>1. CASE UNCHANGED catalogVars
  BY <1>1 DEF catalogVars
<1>2. CASE \E v \in 1 .. published : ApplyCatalog(v)
  <2>1. PICK v \in 1 .. published : ApplyCatalog(v)
    BY <1>2
  <2>2. published \in Nat /\ applied \in Seq(1 .. published)
    BY SyncAssumption DEF SyncInv, SyncTypeOK
  <2>3. catalog' = v /\ applied' = Append(applied, v)
    BY <2>1 DEF ApplyCatalog
  <2> QED
    BY <2>2, <2>3
<1> QED
  BY <1>1, <1>2, Applications

(* The catalog in use is one that was applied.                             *)
LEMMA InUseApplied ==
  ASSUME SyncInv, catalog # 0
  PROVE  /\ catalog \in 1 .. MaxCatalog
         /\ \E k \in DOMAIN applied : applied[k] = catalog
<1>1. /\ applied # << >> /\ catalog = applied[Len(applied)]
      /\ published \in 0 .. MaxCatalog /\ applied \in Seq(1 .. published)
      /\ catalog \in 0 .. published
  BY DEF SyncInv, LastApplied, SyncTypeOK
<1>2. Len(applied) \in DOMAIN applied
  BY <1>1, EmptySeq
<1> QED
  BY <1>1, <1>2, SyncAssumption

LEMMA AppliedTypes ==
  ASSUME SyncInv, NEW k \in DOMAIN applied
  PROVE  applied[k] \in 1 .. MaxCatalog
BY SyncAssumption DEF SyncInv, SyncTypeOK

THEOREM SyncInductive == SyncSpec => []SyncInv
<1>1. SyncInit => SyncInv
  BY InitSyncInv
<1>2. SyncInv /\ [SyncNext]_syncVars => SyncInv'
  BY SyncNextInv
<1> QED
  BY <1>1, <1>2, PTL DEF SyncSpec
-----------------------------------------------------------------------------
(* The properties                                                          *)

(* The types of the retrieval's variables.                                 *)
THEOREM SyncTypeCorrect == SyncSpec => []SyncTypeOK
<1>1. SyncInv => SyncTypeOK
  BY DEF SyncInv
<1> QED
  BY <1>1, SyncInductive, PTL

(* However fetch and subscription overlap, no catalog is applied twice, and *)
(* after a joining fetch none older than the fetched one                    *)
(* (joiningCatalog, sub.go:431 to 497).                                     *)
THEOREM NothingReturns == SyncSpec => []NothingComesBack
<1>1. SyncInv => NothingComesBack
  <2> SUFFICES ASSUME SyncInv PROVE NothingComesBack
    OBVIOUS
  <2>1. \A i, j \in DOMAIN applied : applied[i] = applied[j] => i = j
    BY DEF SyncInv, AppliedOnce
  <2>2. ASSUME Joining, NEW i \in DOMAIN applied PROVE applied[1] <= applied[i]
    <3>1. applied # << >> /\ largest \in Nat /\ applied[i] \in Nat
      BY SyncAssumption DEF SyncInv, SyncTypeOK
    <3> QED
      BY <2>2, <3>1 DEF SyncInv, FetchedFirst
  <2> QED
    BY <2>1, <2>2 DEF NothingComesBack, Joining
<1> QED
  BY <1>1, SyncInductive, PTL

(* A retrieval that failed and a goroutine that ended leave nothing open,   *)
(* and a joining retrieval that succeeds has a catalog.                     *)
THEOREM RetrievalSettles == SyncSpec => []RetrievalSettled
<1>1. SyncInv => RetrievalSettled
  BY DEF SyncInv, Stages, RetrievalSettled, RequestsClosed, JoinedHasCatalog, Joining
<1> QED
  BY <1>1, SyncInductive, PTL
-----------------------------------------------------------------------------
(* The refinement                                                          *)

LEMMA InitMaps == SyncInit => Abstract!Init
BY SyncAssumption DEF SyncInit, Abstract!Init, InUse

(* Applying a catalog is adopting a later one, if groups come in order.    *)
LEMMA ApplyAdopts ==
  ASSUME SyncInv, NEW v \in 1 .. published, ApplyCatalog(v),
         UNCHANGED <<setting, published>>, setting.ordered => v > catalog
  PROVE  [Abstract!Next]_(Abstract!vars)
<1>1. published \in Nat /\ catalog \in Nat
  BY SyncAssumption DEF SyncInv, SyncTypeOK
<1>2. CASE setting.ordered
  <2>1. InUse' \in InUse + 1 .. published
    BY <1>1, <1>2 DEF InUse, ApplyCatalog
  <2> QED
    BY <2>1 DEF Abstract!Next, Abstract!Adopt
<1>3. CASE ~setting.ordered
  BY <1>3 DEF Abstract!vars, InUse
<1> QED
  BY <1>2, <1>3

LEMMA CatalogUnchanged ==
  ASSUME UNCHANGED <<setting, published, catalog>>
  PROVE  [Abstract!Next]_(Abstract!vars)
BY DEF Abstract!vars, InUse

LEMMA RetrieveMaps ==
  ASSUME SyncInv, RetrieveStep
  PROVE  [Abstract!Next]_(Abstract!vars)
<1>1. CASE Start \/ SubscribeFails \/ SubscribeOK \/ FetchFails \/ FetchOK
             \/ ReadFetchEnds \/ ReadFirstEnds
  BY <1>1, CatalogUnchanged
     DEF Start, SubscribeFails, SubscribeOK, FetchFails, FetchOK, ReadFetchEnds,
         ReadFirstEnds, catalogVars, outsideVars
<1>2. CASE ReadFetched
  <2>1. catalog = 0 /\ fetched \in 1 .. published
    BY <1>2, SyncAssumption DEF ReadFetched, SyncInv, SyncTypeOK, LastApplied
  <2>2. \/ ApplyCatalog(fetched) \/ UNCHANGED catalog
    BY <1>2 DEF ReadFetched, catalogVars
  <2>3. UNCHANGED <<setting, published>> /\ fetched > catalog
    BY <1>2, <2>1 DEF ReadFetched, outsideVars
  <2> QED
    BY <2>1, <2>2, <2>3, ApplyAdopts, CatalogUnchanged
<1>3. CASE ReadFirst
  <2>1. catalog = 0 /\ UNCHANGED <<setting, published>>
    BY <1>3 DEF ReadFirst, SyncInv, LastApplied, outsideVars
  <2>2. PICK v \in inflight : ApplyCatalog(v) \/ UNCHANGED catalog
    BY <1>3, ReadableInflight DEF ReadFirst, catalogVars
  <2>3. v \in 1 .. published /\ v > catalog
    BY <2>1, <2>2 DEF SyncInv, SyncTypeOK
  <2> QED
    BY <2>1, <2>2, <2>3, ApplyAdopts, CatalogUnchanged
<1> QED
  BY <1>1, <1>2, <1>3 DEF RetrieveStep

LEMMA UpdaterMaps ==
  ASSUME SyncInv, UpdaterStep
  PROVE  [Abstract!Next]_(Abstract!vars)
<1>1. CASE UpdaterEnds
  BY <1>1, CatalogUnchanged DEF UpdaterEnds, catalogVars, outsideVars
<1>2. CASE UpdaterReads
  <2>1. UNCHANGED <<setting, published>> /\ published \in Nat /\ largest \in Nat
    BY <1>2, SyncAssumption DEF UpdaterReads, SyncInv, SyncTypeOK, outsideVars
  <2>2. PICK v \in inflight :
          \/ UNCHANGED catalog
          \/ ApplyCatalog(v) /\ (Joining => AfterLocation(Location(v), Location(largest)))
    BY <1>2, ReadableInflight DEF UpdaterReads, catalogVars, Joining
  <2>3. v \in 1 .. published
    BY <2>2 DEF SyncInv, SyncTypeOK
  <2>4. CASE UNCHANGED catalog
    BY <2>1, <2>4, CatalogUnchanged
  <2>5. CASE ApplyCatalog(v) /\ (Joining => AfterLocation(Location(v), Location(largest)))
    <3>1. Joining => v > largest
      BY <2>1, <2>3, <2>5, LaterLocation
    <3>2. setting.ordered => v > catalog
      BY <2>1, <2>2, <2>3, <3>1 DEF SyncInv, LaterToCome
    <3> QED
      BY <2>1, <2>3, <2>5, <3>2, ApplyAdopts
  <2> QED
    BY <2>2, <2>4, <2>5
<1> QED
  BY <1>1, <1>2 DEF UpdaterStep

LEMMA NextMaps == SyncInv /\ [SyncNext]_syncVars => [Abstract!Next]_(Abstract!vars)
<1> SUFFICES ASSUME SyncInv, [SyncNext]_syncVars PROVE [Abstract!Next]_(Abstract!vars)
  OBVIOUS
<1>1. CASE Publish
  BY <1>1 DEF Publish, Abstract!Next, Abstract!Publish, InUse, catalogVars, outsideVars
<1>2. CASE CancelSync \/ PeerGone \/ UNCHANGED syncVars
  BY <1>2, CatalogUnchanged DEF CancelSync, PeerGone, syncVars, catalogVars, outsideVars
<1> QED
  BY <1>1, <1>2, RetrieveMaps, UpdaterMaps DEF SyncNext

(* With groups in order the catalog in use only moves forward, to one that  *)
(* was published: the retrieval implements CatalogInUse.                    *)
THEOREM OnlyForward == SyncSpec => MovesForward
<1>1. SyncInit => Abstract!Init
  BY InitMaps
<1>2. SyncInv /\ [SyncNext]_syncVars => [Abstract!Next]_(Abstract!vars)
  BY NextMaps
<1> QED
  BY <1>1, <1>2, SyncInductive, PTL DEF SyncSpec, MovesForward, Abstract!Spec
-----------------------------------------------------------------------------
(* The run                                                                 *)

(* In the loop over the tracks; and the catalog the track of an iteration  *)
(* is from.                                                                *)
Selecting == {"select", "licence"}
Source == IF pc = "licence" THEN asked ELSE catalog

(* What is set at which point of the run.                                  *)
Flow ==
  /\ pc \in {"catalog", "select", "licence", "lookup"} => main = "catalog"
  /\ pc = "subscribe" => main # "discover"
  /\ pc \in {"select", "licence", "subscribe", "lookup", "wait"} /\ main = "catalog" =>
       catalog # 0
  /\ pc \in Selecting => index >= 1
  /\ pc = "lookup" => turn <= 3 /\ Wanted(Order[turn])
  /\ pc = "wait" => turn = 4
  /\ pc \in {"run", "catalog"} =>
       /\ chosen = [role \in Roles |-> ""]
       /\ locWriter = {} /\ inits = {} /\ plainInits = {} /\ lostInits = {} /\ muxInits = {}
       /\ cenc.infos = {}
  /\ pc \in {"run", "catalog", "select", "licence"} =>
       turn = 1 /\ written = {} /\ reader = [role \in Roles |-> "none"]

(* While a licence is asked for, its track is one the loop has come to, in *)
(* a catalog that was applied.                                             *)
Asking ==
  pc = "licence" =>
    /\ index <= count /\ index <= Len(TracksOf[asked])
    /\ \E k \in DOMAIN applied : applied[k] = asked
    /\ Encrypted(TracksOf[asked][index])

(* Who reads was wanted, and whoever was wanted so far reads.              *)
Readers ==
  /\ \A role \in Roles : reader[role] # "none" =>
       Wanted(role) /\ readAs[role].packaging # "none"
  /\ pc \in {"subscribe", "lookup", "wait"} /\ main = "catalog" =>
       \A k \in 1 .. turn - 1 : Wanted(Order[k]) => reader[Order[k]] # "none"
  /\ pc = "wait" => AnySubscribed

RunInv == SyncInv /\ TypeOK /\ Flow /\ Asking /\ Readers /\ GivesUpClosing
-----------------------------------------------------------------------------
Match(v, i, role) ==
  TracksOf[v][i].role = role /\ TracksOf[v][i].name \in filter[role]

(* What is chosen for a role is the first match among the tracks of        *)
(* catalog v before place n.                                               *)
FirstBefore(v, n, role) ==
  \/ chosen[role] = "" /\ \A i \in 1 .. n - 1 : ~Match(v, i, role)
  \/ \E i \in 1 .. n - 1 :
       /\ Match(v, i, role) /\ chosen[role] = TracksOf[v][i].name
       /\ \A j \in 1 .. n - 1 : Match(v, j, role) => i <= j

(* The choice follows the catalog with which the loop was entered.         *)
ChoiceFollows ==
  pc \in {"select", "licence", "subscribe", "lookup", "wait"} /\ main = "catalog" =>
    /\ pc \notin Selecting => index = count + 1
    /\ \E k \in DOMAIN applied :
         /\ count = Len(TracksOf[applied[k]])
         /\ \A role \in Roles : FirstBefore(applied[k], index, role)

(* What was set up for a role belongs to the track chosen for it: its init *)
(* segment was written or lost, and if written it is clear if and only if  *)
(* its objects will be.                                                    *)
SetUpFor(role, t) ==
  /\ t.name = chosen[role] /\ t.role = role
  /\ role \in locWriter <=> t.packaging = "loc" /\ role \in Outs /\ t.supported
  /\ role \in inits \union lostInits <=>
       (t.packaging # "loc" \/ role = "subtitle") /\ role \in Outs
  /\ role \in muxInits => t.packaging # "loc"
  /\ role \in inits => (role \in plainInits <=> ~Encrypted(t) \/ t.name \in cenc.infos)

(* Track t was in an applied catalog, at a place the loop has passed.      *)
SeenTrack(t) ==
  \E k \in DOMAIN applied : \E j \in DOMAIN TracksOf[applied[k]] :
    j < index /\ t = TracksOf[applied[k]][j]

OfferedTrack(t) ==
  \E k \in DOMAIN applied : \E j \in DOMAIN TracksOf[applied[k]] :
    t = TracksOf[applied[k]][j]

SetUp ==
  \A role \in Roles :
    \/ chosen[role] = "" /\ role \notin locWriter \union inits \union lostInits \union muxInits
    \/ \E t \in Track : SeenTrack(t) /\ SetUpFor(role, t)

(* Only tracks the loop has passed can be decrypted, with a key that was   *)
(* offered.                                                                *)
Granted ==
  /\ \A n \in cenc.infos : \E t \in Track : SeenTrack(t) /\ t.name = n
  /\ cenc.infos # {} => cenc.key \in KeysOffered

ReadsChosen ==
  \A role \in Roles : reader[role] # "none" =>
    IF main = "catalog"
    THEN /\ chosen[role] # ""
         /\ \E t \in Track :
              /\ OfferedTrack(t) /\ t.name = chosen[role]
              /\ readAs[role] = [packaging |-> t.packaging, kid |-> t.kid]
    ELSE readAs[role] = [packaging |-> "moqmi", kid |-> NoKey]

(* DecryptedAsInit, without counting the keys.                             *)
DecryptedFit ==
  \A w \in written :
    /\ w.packaging \in {"cmaf", "locmaf"} /\ w.sink = "file" =>
         (w.role \in inits => ((w.as = "encrypted") <=> (w.role \notin plainInits)))
    /\ w.as = "garbled" => \E k, l \in KeysOffered : k # l

ChoiceInv ==
  ChoiceFollows /\ SetUp /\ Granted /\ ReadsChosen /\ SinksFit /\ DecryptedFit
-----------------------------------------------------------------------------
(* Constants and operators                                                 *)

LEMMA CatalogTracks ==
  ASSUME NEW v \in 1 .. MaxCatalog
  PROVE  /\ TracksOf[v] \in Seq(Track)
         /\ DOMAIN TracksOf[v] = 1 .. Len(TracksOf[v]) /\ Len(TracksOf[v]) \in Nat
         /\ \A i \in DOMAIN TracksOf[v] : TracksOf[v][i] \in Track
BY SubAssumption

LEMMA Orders ==
  ASSUME NEW k \in 1 .. 4
  PROVE  /\ k <= 3 => Order[k] \in Roles
         /\ k = 1 \/ k = 2 \/ k = 3 \/ k = 4
         /\ Order[1] = "video" /\ Order[2] = "audio" /\ Order[3] = "subtitle"
BY DEF Order, Roles

(* Once offered, always offered.                                           *)
LEMMA OffersGrow ==
  ASSUME \A i \in DOMAIN applied : i \in DOMAIN applied' /\ applied'[i] = applied[i]
  PROVE  /\ KeysOffered \subseteq KeysOffered'
         /\ \A p : Unsupported(p) \subseteq Unsupported(p)'
BY DEF KeysOffered, Unsupported

LEMMA AskingKept ==
  ASSUME Asking, \A i \in DOMAIN applied : i \in DOMAIN applied' /\ applied'[i] = applied[i],
         UNCHANGED <<index, count, asked>>, pc' = "licence" => pc = "licence"
  PROVE  Asking'
BY DEF Asking, Encrypted

LEMMA InitRunInv == Init => RunInv
<1> SUFFICES ASSUME Init PROVE RunInv
  OBVIOUS
<1> USE DEF Init
<1>1. SyncInv
  BY InitSyncInv
<1>2. TypeOK
  <2>1. index = 0 /\ count = 0 /\ turn = 1
    OBVIOUS
  <2>2. /\ chosen = [role \in Roles |-> ""] /\ reader = [role \in Roles |-> "none"]
        /\ readAs = [role \in Roles |-> Nothing]
    OBVIOUS
  <2>3. cenc = [made |-> FALSE, key |-> NoKey, infos |-> {}]
    OBVIOUS
  <2>4. /\ locWriter \subseteq Outs /\ inits \subseteq Outs /\ plainInits \subseteq inits
        /\ lostInits \subseteq Outs /\ muxInits \subseteq {"video", "audio"} /\ asked = 0
    OBVIOUS
  <2>5. written = {} /\ pc = "run" /\ crash = "no" /\ main \in Mains /\ filter \in Filters
    OBVIOUS
  <2> HIDE DEF Init
  <2>6. count \in Nat /\ index \in 0 .. count + 1 /\ turn \in 1 .. 4
    BY <2>1
  <2>7. /\ chosen \in [Roles -> STRING \union {""}]
        /\ reader \in [Roles -> {"none", "reading", "ended"}]
    BY <2>2
  <2>8. Nothing \in [packaging : {"none", "cmaf", "locmaf", "loc", "moqmi"}, kid : Kids]
    BY DEF Nothing, Kids
  <2>9. readAs \in [Roles -> [packaging : {"none", "cmaf", "locmaf", "loc", "moqmi"},
                             kid : Kids]]
    BY <2>2, <2>8
  <2>10. cenc \in [made : BOOLEAN, key : Kids, infos : SUBSET STRING]
    BY <2>3 DEF Kids
  <2>11. asked \in 0 .. published
    BY <1>1, <2>4 DEF SyncInv, SyncTypeOK
  <2> QED
    BY <1>1, <2>4, <2>5, <2>6, <2>7, <2>9, <2>10, <2>11 DEF SyncInv, TypeOK
<1>3. Flow /\ Asking
  BY DEF Flow, Asking, Selecting
<1>4. Readers
  BY DEF Readers
<1>5. GivesUpClosing
  BY DEF GivesUpClosing
<1> QED
  BY <1>1, <1>2, <1>3, <1>4, <1>5 DEF RunInv

LEMMA PublishedGrows ==
  ASSUME SyncInv, SyncNext PROVE published \in Nat /\ published' \in {published, published + 1}
BY DEF SyncInv, SyncTypeOK, SyncNext, RetrieveStep, UpdaterStep, Publish, CancelSync, PeerGone,
       Start, SubscribeFails, SubscribeOK, FetchFails, FetchOK, ReadFetched, ReadFetchEnds,
       ReadFirst, ReadFirstEnds, UpdaterReads, UpdaterEnds

(* A step of the retrieval or of its surroundings.                         *)
LEMMA RetrievalRunInv ==
  ASSUME RunInv, SyncNext, UNCHANGED subVars
  PROVE  RunInv'
<1>1. SyncInv'
  BY SyncNextInv DEF RunInv
<1>2. /\ catalog # 0 => catalog' # 0
      /\ \A p : Unsupported(p) \subseteq Unsupported(p)'
      /\ \A i \in DOMAIN applied : i \in DOMAIN applied' /\ applied'[i] = applied[i]
  BY AppliedStays, OffersGrow DEF RunInv
<1>3. (ctxDone => ctxDone') /\ (gone => gone')
  BY DEF SyncNext, RetrieveStep, UpdaterStep, Publish, CancelSync, PeerGone, Start,
         SubscribeFails, SubscribeOK, FetchFails, FetchOK, ReadFetched, ReadFetchEnds,
         ReadFirst, ReadFirstEnds, UpdaterReads, UpdaterEnds, outsideVars
<1> USE DEF subVars, flags, choiceVars, readVars
<1>4. TypeOK'
  <2>1. asked' \in 0 .. published'
    <3>1. asked \in 0 .. published /\ asked' = asked
      BY DEF RunInv, TypeOK
    <3>2. published \in Nat /\ published' \in {published, published + 1}
      BY PublishedGrows DEF RunInv
    <3> QED
      BY <3>1, <3>2
  <2> QED
    BY <1>1, <2>1 DEF RunInv, SyncInv, TypeOK
<1>5. Flow' /\ Readers'
  BY <1>2 DEF RunInv, Flow, Readers, Wanted, AnySubscribed
<1>6. GivesUpClosing' /\ Asking'
  BY <1>2, <1>3, AskingKept DEF RunInv, GivesUpClosing, AnySubscribed
<1> QED
  BY <1>1, <1>4, <1>5, <1>6 DEF RunInv

(* A step of the main goroutine leaves the retrieval as it is.             *)
LEMMA RetrievalKept ==
  ASSUME RunInv, UNCHANGED retrievalVars, gone' \in BOOLEAN
  PROVE  SyncInv' /\ SyncTypeOK'
<1>1. SyncInv'
  BY OutsideInv DEF RunInv, SyncInv, SyncTypeOK, retrievalVars
<1> QED
  BY <1>1 DEF SyncInv

LEMMA RunSessionRunInv ==
  ASSUME RunInv, RunSession PROVE RunInv'
<1> USE DEF RunSession
<1>1. SyncInv' /\ SyncTypeOK'
  BY RetrievalKept DEF RunInv, TypeOK, SyncTypeOK, Outcomes
<1> USE DEF flags, choiceVars, readVars
<1>2. main \in {"catalog", "moqmi", "discover"}
  BY SubAssumption DEF RunInv, TypeOK
<1>3. TypeOK'
  BY <1>1, <1>2 DEF RunInv, TypeOK, retrievalVars
<1>4. Flow' /\ Readers'
  BY <1>2 DEF RunInv, Flow, Readers, Wanted, AnySubscribed, Selecting, retrievalVars, catalogVars
<1>5. GivesUpClosing' /\ Asking'
  BY <1>2 DEF RunInv, GivesUpClosing, Asking
<1> QED
  BY <1>1, <1>3, <1>4, <1>5 DEF RunInv

LEMMA GiveUpRunInv ==
  ASSUME RunInv, GiveUp PROVE RunInv'
<1> USE DEF GiveUp
<1>1. SyncInv' /\ SyncTypeOK'
  BY RetrievalKept
<1> USE DEF flags, choiceVars, readVars
<1>2. TypeOK'
  BY <1>1 DEF RunInv, TypeOK, retrievalVars
<1>3. Flow' /\ Readers' /\ GivesUpClosing' /\ Asking'
  BY DEF RunInv, Flow, Readers, Wanted, GivesUpClosing, Asking, Selecting
<1> QED
  BY <1>1, <1>2, <1>3 DEF RunInv

LEMMA EnterSelectionRunInv ==
  ASSUME RunInv, EnterSelection PROVE RunInv'
<1> USE DEF EnterSelection
<1>1. SyncInv' /\ SyncTypeOK'
  BY RetrievalKept DEF RunInv, TypeOK, SyncTypeOK, syncVars, outsideVars, retrievalVars
<1> USE DEF flags, readVars
<1>2. catalog # 0 => catalog \in 1 .. MaxCatalog
  BY InUseApplied DEF RunInv
<1>3. index' \in 0 .. count' + 1 /\ count' \in Nat
  <2>1. catalog # 0 => Len(TracksOf[catalog]) \in Nat
    BY <1>2, CatalogTracks
  <2>2. CASE catalog = 0
    BY <2>2 DEF RunInv, TypeOK
  <2>3. CASE catalog # 0
    BY <2>1, <2>3
  <2> QED
    BY <2>2, <2>3
<1>4. TypeOK'
  BY <1>1, <1>3 DEF RunInv, TypeOK, syncVars
<1>5. Flow'
  <2>1. /\ main' = "catalog" /\ turn' = 1 /\ written' = {}
        /\ reader' = [role \in Roles |-> "none"]
        /\ pc' = "catalog" \/ (pc' = "select" /\ catalog' # 0 /\ index' = 1)
    BY DEF RunInv, Flow, syncVars, catalogVars
  <2>2. /\ chosen' = [role \in Roles |-> ""]
        /\ locWriter' = {} /\ inits' = {} /\ plainInits' = {} /\ lostInits' = {}
        /\ muxInits' = {} /\ cenc'.infos = {}
    BY DEF RunInv, Flow
  <2> HIDE DEF EnterSelection
  <2>3. /\ pc' \in {"catalog", "select", "licence", "lookup"} => main' = "catalog"
        /\ pc' = "subscribe" => main' # "discover"
        /\ pc' \in {"select", "licence", "subscribe", "lookup", "wait"} /\ main' = "catalog" =>
             catalog' # 0
        /\ pc' \in Selecting => index' >= 1
        /\ pc' # "lookup" /\ pc' # "wait"
    BY <2>1 DEF Selecting
  <2> QED
    BY <2>1, <2>2, <2>3 DEF Flow
<1>6. Readers' /\ GivesUpClosing' /\ Asking'
  BY DEF RunInv, Flow, Readers, GivesUpClosing, Asking, syncVars, outsideVars
<1> QED
  BY <1>1, <1>4, <1>5, <1>6 DEF RunInv

LEMMA IterationPlace ==
  ASSUME RunInv, pc \in Selecting
  PROVE  /\ Source \in 1 .. MaxCatalog
         /\ \E k \in DOMAIN applied : applied[k] = Source
         /\ Len(TracksOf[Source]) \in Nat
         /\ index \in Nat /\ index >= 1 /\ count \in Nat
<1>1. \E k \in DOMAIN applied : applied[k] = Source
  <2>1. CASE pc = "select"
    BY <2>1, InUseApplied DEF RunInv, Flow, Source
  <2>2. CASE pc = "licence"
    BY <2>2 DEF RunInv, Asking, Source
  <2> QED
    BY <2>1, <2>2 DEF Selecting
<1>2. Source \in 1 .. MaxCatalog
  BY <1>1, AppliedTypes DEF RunInv
<1>3. index \in 0 .. count + 1 /\ count \in Nat /\ index >= 1
  BY DEF RunInv, TypeOK, Flow
<1> QED
  BY <1>1, <1>2, <1>3, CatalogTracks

(* The track of an iteration, and what the iteration sets for it.          *)
LEMMA IterationTrack ==
  ASSUME RunInv, pc \in Selecting, index <= Len(TracksOf[Source])
  PROVE  /\ TracksOf[Source][index] \in Track
         /\ \E k \in DOMAIN applied :
              /\ applied[k] = Source /\ index \in DOMAIN TracksOf[applied[k]]
              /\ applied[k] \in 1 .. MaxCatalog
<1>1. index \in 1 .. Len(TracksOf[Source]) /\ Source \in 1 .. MaxCatalog
  BY IterationPlace
<1>2. PICK k \in DOMAIN applied : applied[k] = Source
  BY IterationPlace
<1> QED
  BY <1>1, <1>2, CatalogTracks

(* What may become of the licence of a track.                              *)
Licences(t) == IF Encrypted(t) THEN {"failed", "granted"} ELSE {"unneeded"}

LEMMA CencTypes ==
  ASSUME NEW t \in Track, NEW licence \in Licences(t),
         cenc \in [made : BOOLEAN, key : Kids, infos : SUBSET STRING]
  PROVE  CencAfter(t, licence) \in [made : BOOLEAN, key : Kids, infos : SUBSET STRING]
<1>1. t.kid \in Kids /\ t.name \in STRING
  BY DEF Track
<1>2. licence \in {"unneeded", "failed", "granted"}
  BY DEF Licences
<1> QED
  BY <1>1, <1>2 DEF CencAfter, ClearKey

(* What writing the init segments leaves behind.                           *)
LEMMA InitTypes ==
  ASSUME NEW t \in Track, NEW licence, WriteInits(t, licence),
         inits \subseteq Outs, plainInits \subseteq inits, lostInits \subseteq Outs,
         muxInits \subseteq {"video", "audio"}
  PROVE  /\ inits' \subseteq Outs /\ plainInits' \subseteq inits' /\ lostInits' \subseteq Outs
         /\ muxInits' \subseteq {"video", "audio"}
<1>1. PICK ok \in SUBSET (NewInit(t) \intersect Outs) :
        /\ inits' = inits \union ok
        /\ plainInits' = IF licence = "failed" THEN plainInits ELSE plainInits \union ok
        /\ lostInits' = lostInits \union ((NewInit(t) \intersect Outs) \ ok)
  BY DEF WriteInits
<1>2. PICK added \in SUBSET NewMuxInit(t) : muxInits' = muxInits \union added
  BY DEF WriteInits
<1>3. NewMuxInit(t) \subseteq {"video", "audio"}
  BY DEF NewMuxInit, NewInit, Track, Roles
<1> QED
  BY <1>1, <1>2, <1>3

(* An iteration that passes track t.                                       *)
Iterates(t, licence) ==
  /\ pc' = "select" /\ asked' \in {0, asked}
  /\ UseTrack(t, licence)

SelectionStep == SelectTrack \/ AskLicence \/ LicenceAnswers

(* What a step of the loop over the tracks may be: out of bounds, the end  *)
(* of handle, a question to the licence server, or an iteration.           *)
LEMMA Iterations ==
  ASSUME RunInv, SelectionStep
  PROVE  LET t == TracksOf[Source][index]
         IN  /\ pc \in Selecting /\ index <= count
             /\ UNCHANGED <<syncVars, flags, turn, readVars>>
             /\ \/ crash' = "index" /\ UNCHANGED <<pc, choiceVars>>
                \/ /\ index <= Len(TracksOf[Source])
                   /\ t.packaging = "locmaf" /\ ~t.supported
                   /\ pc' = "finished" /\ UNCHANGED <<crash, choiceVars>>
                \/ /\ pc = "select" /\ pc' = "licence" /\ asked' = catalog
                   /\ index <= Len(TracksOf[catalog])
                   /\ Encrypted(TracksOf[catalog][index])
                   /\ cenc' = [cenc EXCEPT !.made = TRUE]
                   /\ UNCHANGED <<crash, index, count, chosen, locWriter, inits, plainInits,
                                  lostInits, muxInits>>
                \/ /\ index <= Len(TracksOf[Source])
                   /\ \E licence \in Licences(t) : Iterates(t, licence)
<1>1. CASE SelectTrack
  <2>1. pc = "select" /\ Source = catalog
    BY <1>1 DEF SelectTrack, Source
  <2>2. index \in Nat /\ Len(TracksOf[catalog]) \in Nat
    BY <2>1, IterationPlace DEF Selecting
  <2>3. CASE index > Len(TracksOf[catalog])
    BY <1>1, <2>1, <2>3 DEF SelectTrack, Selecting
  <2>4. CASE ~(index > Len(TracksOf[catalog]))
    <3> DEFINE t == TracksOf[catalog][index]
    <3>1. index <= Len(TracksOf[catalog])
      BY <2>2, <2>4
    <3>2. \/ NotImplemented(t) /\ pc' = "finished" /\ UNCHANGED <<crash, choiceVars>>
          \/ /\ UseTrack(t, IF Encrypted(t) THEN "failed" ELSE "unneeded")
             /\ UNCHANGED <<pc, asked>>
      BY <1>1, <2>4 DEF SelectTrack
    <3>3. (IF Encrypted(t) THEN "failed" ELSE "unneeded") \in Licences(t)
      BY DEF Licences
    <3>4. \/ NotImplemented(t) /\ pc' = "finished" /\ UNCHANGED <<crash, choiceVars>>
          \/ \E licence \in Licences(t) : Iterates(t, licence)
      BY <2>1, <3>2, <3>3 DEF Iterates
    <3> QED
      BY <1>1, <2>1, <3>1, <3>4 DEF SelectTrack, NotImplemented, Selecting
  <2> QED
    BY <2>3, <2>4
<1>2. CASE AskLicence
  BY <1>2 DEF AskLicence, Selecting
<1>3. CASE LicenceAnswers
  <2>1. /\ pc = "licence" /\ Source = asked /\ index <= count
        /\ index <= Len(TracksOf[asked]) /\ Encrypted(TracksOf[asked][index])
    BY <1>3 DEF LicenceAnswers, Source, RunInv, Asking
  <2>2. \E licence \in {"granted", "failed"} : Iterates(TracksOf[asked][index], licence)
    BY <1>3 DEF LicenceAnswers, Iterates
  <2> QED
    BY <1>3, <2>1, <2>2 DEF LicenceAnswers, Licences, Selecting
<1> QED
  BY <1>1, <1>2, <1>3 DEF SelectionStep

LEMMA SelectionRunInv ==
  ASSUME RunInv, SelectionStep PROVE RunInv'
<1> DEFINE t == TracksOf[Source][index]
<1>1. SyncInv' /\ SyncTypeOK'
  BY Iterations, RetrievalKept
     DEF RunInv, TypeOK, SyncTypeOK, syncVars, outsideVars, retrievalVars
<1>2. /\ pc \in Selecting /\ index <= count
      /\ UNCHANGED <<main, filter, turn, reader, readAs, written, catalog, applied,
                     published, ctxDone, gone>>
  BY Iterations DEF syncVars, catalogVars, outsideVars, flags, readVars
<1>3. CASE crash' = "index" /\ UNCHANGED <<pc, choiceVars>>
  <2>1. TypeOK'
    BY <1>1, <1>2, <1>3 DEF RunInv, TypeOK, choiceVars
  <2>2. Flow'
    BY <1>2, <1>3 DEF RunInv, Flow, Wanted, Selecting, choiceVars
  <2>3. Readers'
    BY <1>2, <1>3 DEF RunInv, Readers, Wanted, AnySubscribed, choiceVars
  <2>4. GivesUpClosing'
    BY <1>2, <1>3 DEF GivesUpClosing, Selecting
  <2>5. Asking'
    BY <1>2, <1>3, AskingKept DEF RunInv, choiceVars
  <2> QED
    BY <1>1, <2>1, <2>2, <2>3, <2>4, <2>5 DEF RunInv
<1>4. CASE /\ index <= Len(TracksOf[Source])
           /\ t.packaging = "locmaf" /\ ~t.supported
           /\ pc' = "finished" /\ UNCHANGED <<crash, choiceVars>>
  <2>1. TypeOK'
    BY <1>1, <1>2, <1>4 DEF RunInv, TypeOK, choiceVars
  <2>2. Flow' /\ Asking'
    BY <1>4 DEF Flow, Asking, Selecting
  <2>3. Readers'
    BY <1>2, <1>4 DEF RunInv, Readers, Wanted, AnySubscribed, choiceVars
  <2>4. t \in Unsupported("locmaf")'
    <3>1. t \in Unsupported("locmaf")
      BY <1>2, <1>4, IterationTrack DEF Unsupported, Range
    <3> QED
      BY <1>2, <3>1 DEF Unsupported
  <2>5. ~AnySubscribed'
    BY <1>2 DEF RunInv, Flow, AnySubscribed, Selecting
  <2>6. GivesUpClosing'
    BY <2>4, <2>5 DEF GivesUpClosing
  <2> QED
    BY <1>1, <2>1, <2>2, <2>3, <2>6 DEF RunInv
<1>5. CASE /\ pc = "select" /\ pc' = "licence" /\ asked' = catalog
           /\ index <= Len(TracksOf[catalog]) /\ Encrypted(TracksOf[catalog][index])
           /\ cenc' = [cenc EXCEPT !.made = TRUE]
           /\ UNCHANGED <<crash, index, count, chosen, locWriter, inits, plainInits,
                          lostInits, muxInits>>
  <2>1. /\ cenc' \in [made : BOOLEAN, key : Kids, infos : SUBSET STRING]
        /\ asked' \in 0 .. published'
    BY <1>1, <1>2, <1>5 DEF RunInv, TypeOK, SyncTypeOK
  <2>2. TypeOK'
    BY <1>1, <1>2, <1>5, <2>1 DEF RunInv, TypeOK
  <2>3. Asking'
    BY <1>2, <1>5, IterationPlace DEF Asking, Source, Encrypted
  <2>4. Flow' /\ Readers' /\ GivesUpClosing'
    BY <1>2, <1>5 DEF RunInv, Flow, Readers, GivesUpClosing, Selecting
  <2> QED
    BY <1>1, <2>2, <2>3, <2>4 DEF RunInv
<1>6. CASE index <= Len(TracksOf[Source]) /\ \E licence \in Licences(t) : Iterates(t, licence)
  <2>1. PICK licence \in Licences(t) : Iterates(t, licence)
    BY <1>6
  <2>2. t \in Track /\ t.role \in Roles /\ t.name \in STRING
    BY <1>2, <1>6, IterationTrack DEF Track
  <2>3. /\ index' = index + 1 /\ UNCHANGED <<crash, count>> /\ pc' = "select"
        /\ chosen' = IF Picks(t) THEN [chosen EXCEPT ![t.role] = t.name] ELSE chosen
        /\ locWriter' = locWriter \union NewWriter(t)
        /\ cenc' = CencAfter(t, licence) /\ asked' \in {0, asked}
    BY <2>1 DEF Iterates, UseTrack
  <2>4. index' \in 0 .. count' + 1 /\ count' \in Nat /\ index' >= 1
    BY <1>2, <2>3, IterationPlace
  <2>5. chosen' \in [Roles -> STRING \union {""}]
    BY <2>2, <2>3 DEF RunInv, TypeOK
  <2>6. locWriter' \subseteq Outs
    BY <2>3 DEF RunInv, TypeOK, NewWriter
  <2>7. /\ inits' \subseteq Outs /\ plainInits' \subseteq inits' /\ lostInits' \subseteq Outs
        /\ muxInits' \subseteq {"video", "audio"}
    BY <2>1, <2>2, InitTypes DEF RunInv, TypeOK, Iterates, UseTrack
  <2>8. cenc' \in [made : BOOLEAN, key : Kids, infos : SUBSET STRING]
    BY <2>2, <2>3, CencTypes DEF RunInv, TypeOK
  <2>9. asked' \in 0 .. published'
    <3>1. asked \in 0 .. published /\ published' = published
      BY <1>2 DEF RunInv, TypeOK
    <3>2. published \in Nat
      BY SyncAssumption DEF RunInv, SyncInv, SyncTypeOK
    <3> QED
      BY <2>3, <3>1, <3>2
  <2>10. TypeOK'
    BY <1>1, <1>2, <2>3, <2>4, <2>5, <2>6, <2>7, <2>8, <2>9 DEF RunInv, TypeOK
  <2>11. Flow'
    BY <1>2, <2>3, <2>4 DEF RunInv, Flow, Selecting
  <2>12. Readers'
    BY <1>2, <2>3 DEF RunInv, Flow, Readers, Selecting
  <2>13. GivesUpClosing' /\ Asking'
    BY <2>3 DEF GivesUpClosing, Asking
  <2> QED
    BY <1>1, <2>10, <2>11, <2>12, <2>13 DEF RunInv
<1> QED
  BY <1>3, <1>4, <1>5, <1>6, Iterations

(* Most steps of the main goroutine leave the retrieval alone.             *)
LEMMA SyncKept ==
  ASSUME RunInv, UNCHANGED syncVars
  PROVE  /\ SyncInv' /\ SyncTypeOK'
         /\ UNCHANGED <<catalog, applied, published, ctxDone, gone>>
BY RetrievalKept DEF RunInv, TypeOK, SyncTypeOK, syncVars, outsideVars, retrievalVars, catalogVars

LEMMA EndSelectionRunInv ==
  ASSUME RunInv, EndSelection PROVE RunInv'
<1> USE DEF EndSelection, flags, choiceVars, readVars
<1>1. /\ SyncInv' /\ SyncTypeOK'
      /\ UNCHANGED <<catalog, applied, published, ctxDone, gone>>
  BY SyncKept
<1>2. TypeOK'
  BY <1>1 DEF RunInv, TypeOK
<1>3. /\ main' = "catalog" /\ turn' = 1 /\ catalog' # 0 /\ pc' = "subscribe"
      /\ \A role \in Roles : reader'[role] = "none"
  BY <1>1 DEF RunInv, Flow
<1> HIDE DEF EndSelection
<1>4. Flow' /\ Readers' /\ GivesUpClosing' /\ Asking'
  BY <1>3 DEF Flow, Readers, GivesUpClosing, Asking, Selecting
<1> QED
  BY <1>1, <1>2, <1>4 DEF RunInv

(* What the invariant says while subscribing, and what it has to say of a  *)
(* turn that is over.                                                      *)
LEMMA TurnOver ==
  ASSUME RunInv, SyncInv', SyncTypeOK', pc \in {"subscribe", "lookup"}, turn <= 3,
         turn' = turn + 1, pc' = "subscribe",
         UNCHANGED <<catalog, applied, published, ctxDone, gone, flags, crash, choiceVars,
                     written>>,
         \/ UNCHANGED <<reader, readAs>>
         \/ \E packaging \in {"cmaf", "locmaf", "loc", "moqmi"}, kid \in Kids :
              StartReader(Order[turn], packaging, kid) /\ Wanted(Order[turn]),
         main = "catalog" => (Wanted(Order[turn]) => reader'[Order[turn]] # "none")
  PROVE  RunInv'
<1> USE DEF flags, choiceVars
<1>1. turn \in 1 .. 3 /\ turn' \in 1 .. 4 /\ Order[turn] \in Roles
  <2>1. turn \in 1 .. 4
    BY DEF RunInv, TypeOK
  <2> QED
    BY <2>1, Orders
<1>2. \A role : Wanted(role)' = Wanted(role)
  BY DEF Wanted
<1>3. /\ reader' \in [Roles -> {"none", "reading", "ended"}]
      /\ readAs' \in [Roles -> [packaging : {"none", "cmaf", "locmaf", "loc", "moqmi"},
                               kid : Kids]]
      /\ \A role \in Roles :
           \/ reader'[role] = reader[role] /\ readAs'[role] = readAs[role]
           \/ /\ reader'[role] = "reading" /\ readAs'[role].packaging # "none"
              /\ role = Order[turn] /\ Wanted(role)
  <2>1. /\ reader \in [Roles -> {"none", "reading", "ended"}]
        /\ readAs \in [Roles -> [packaging : {"none", "cmaf", "locmaf", "loc", "moqmi"},
                                kid : Kids]]
    BY DEF RunInv, TypeOK
  <2>2. CASE UNCHANGED <<reader, readAs>>
    BY <2>1, <2>2
  <2>3. CASE ~UNCHANGED <<reader, readAs>>
    <3>1. PICK packaging \in {"cmaf", "locmaf", "loc", "moqmi"}, kid \in Kids :
            StartReader(Order[turn], packaging, kid) /\ Wanted(Order[turn])
      BY <2>3
    <3>2. /\ reader' = [reader EXCEPT ![Order[turn]] = "reading"]
          /\ readAs' = [readAs EXCEPT ![Order[turn]] =
                          [packaging |-> packaging, kid |-> kid]]
      BY <3>1 DEF StartReader
    <3> QED
      BY <1>1, <2>1, <3>1, <3>2
  <2> QED
    BY <2>2, <2>3
<1>4. TypeOK'
  BY <1>1, <1>3 DEF RunInv, TypeOK
<1>5. Flow' /\ Asking'
  BY DEF RunInv, Flow, Asking, Selecting
<1>6. \A role \in Roles : reader'[role] # "none" =>
        Wanted(role)' /\ readAs'[role].packaging # "none"
  BY <1>2, <1>3 DEF RunInv, Readers
<1>7. \A role \in Roles : reader[role] # "none" => reader'[role] # "none"
  BY <1>3
<1>8. ASSUME main' = "catalog", NEW k \in 1 .. turn' - 1, Wanted(Order[k])'
      PROVE  reader'[Order[k]] # "none"
  <2>1. k \in 1 .. 3 /\ Order[k] \in Roles /\ Wanted(Order[k]) /\ main = "catalog"
    BY <1>1, <1>2, <1>8, Orders
  <2>2. CASE k = turn
    BY <2>1, <2>2
  <2>3. CASE k # turn
    <3>1. k \in 1 .. turn - 1
      BY <1>1, <2>3
    <3> QED
      BY <1>7, <2>1, <3>1 DEF RunInv, Readers
  <2> QED
    BY <2>2, <2>3
<1>9. Readers' /\ GivesUpClosing'
  BY <1>6, <1>8 DEF Readers, GivesUpClosing
<1> QED
  BY <1>4, <1>5, <1>9 DEF RunInv

LEMMA SkipTurnRunInv ==
  ASSUME RunInv, SkipTurn PROVE RunInv'
<1>1. /\ SyncInv' /\ SyncTypeOK'
      /\ UNCHANGED <<catalog, applied, published, ctxDone, gone>>
  BY SyncKept DEF SkipTurn
<1> QED
  BY <1>1, TurnOver DEF SkipTurn, readVars

LEMMA SubscribeTrackRunInv ==
  ASSUME RunInv, SubscribeTrack PROVE RunInv'
<1> USE DEF SubscribeTrack
<1>1. /\ SyncInv' /\ SyncTypeOK'
      /\ UNCHANGED <<catalog, applied, published, ctxDone, gone>>
  BY SyncKept
<1>2. Order[turn] \in Roles
  BY Orders DEF RunInv, TypeOK
<1>3. CASE main = "moqmi"
  <2>1. StartReader(Order[turn], "moqmi", NoKey) /\ NoKey \in Kids
    BY <1>3 DEF Kids
  <2>2. turn' = turn + 1 /\ pc' = "subscribe"
    BY <2>1 DEF StartReader
  <2> QED
    BY <1>1, <1>3, <2>1, <2>2, TurnOver
<1>4. CASE main # "moqmi"
  <2> USE DEF flags, choiceVars
  <2>1. /\ pc' = "lookup" /\ UNCHANGED <<turn, reader, readAs, main, catalog>>
        /\ main = "catalog" /\ catalog # 0
    BY <1>1, <1>4, SubAssumption DEF RunInv, Flow, TypeOK
  <2>2. TypeOK'
    BY <1>1, <2>1 DEF RunInv, TypeOK
  <2>3. \A role : Wanted(role)' = Wanted(role)
    BY <2>1 DEF Wanted
  <2>4. turn' <= 3 /\ Wanted(Order[turn])'
    BY <2>1, <2>3
  <2>5. Flow' /\ Asking'
    BY <2>1, <2>4 DEF Flow, Asking, Selecting
  <2>6. Readers'
    BY <2>1, <2>3 DEF RunInv, Readers
  <2>7. GivesUpClosing'
    BY <2>1 DEF GivesUpClosing
  <2> QED
    BY <1>1, <2>2, <2>5, <2>6, <2>7 DEF RunInv
<1> QED
  BY <1>3, <1>4

LEMMA SubscribeTrackFailsRunInv ==
  ASSUME RunInv, SubscribeTrackFails PROVE RunInv'
<1>1. CASE main = "moqmi"
  <2>1. /\ turn' = turn + 1 /\ UNCHANGED <<syncVars, flags, pc, crash, choiceVars, readVars>>
        /\ pc = "subscribe" /\ turn <= 3
    BY <1>1 DEF SubscribeTrackFails
  <2>2. /\ SyncInv' /\ SyncTypeOK'
        /\ UNCHANGED <<catalog, applied, published, ctxDone, gone>>
    BY <2>1, SyncKept
  <2> QED
    BY <1>1, <2>1, <2>2, TurnOver DEF readVars
<1>2. CASE main # "moqmi"
  BY <1>2, GiveUpRunInv DEF SubscribeTrackFails
<1> QED
  BY <1>1, <1>2

(* The track that is read is in the catalog in use.                        *)
LEMMA LookupFinds ==
  ASSUME RunInv, LookupTrack, ~GiveUp
  PROVE  /\ catalog \in 1 .. MaxCatalog
         /\ UNCHANGED <<syncVars, flags, crash, choiceVars, written>>
         /\ turn \in 1 .. 3 /\ Order[turn] \in Roles /\ Wanted(Order[turn])
         /\ main = "catalog"
         /\ \E i \in DOMAIN TracksOf[catalog] :
              /\ TracksOf[catalog][i] \in Track
              /\ TracksOf[catalog][i].name = chosen[Order[turn]]
              /\ StartReader(Order[turn], TracksOf[catalog][i].packaging,
                             TracksOf[catalog][i].kid)
<1>1. pc = "lookup" /\ main = "catalog" /\ catalog # 0 /\ turn <= 3 /\ Wanted(Order[turn])
  BY DEF LookupTrack, RunInv, Flow
<1>2. catalog \in 1 .. MaxCatalog
  BY <1>1, InUseApplied DEF RunInv
<1>3. turn \in 1 .. 4
  BY DEF RunInv, TypeOK
<1>4. turn \in 1 .. 3 /\ Order[turn] \in Roles
  BY <1>1, <1>3, Orders
<1> DEFINE found == {i \in DOMAIN TracksOf[catalog] :
                       TracksOf[catalog][i].name = chosen[Order[turn]]}
<1>5. /\ UNCHANGED <<syncVars, flags, crash, choiceVars, written>>
      /\ \E i \in found : StartReader(Order[turn], TracksOf[catalog][i].packaging,
                                      TracksOf[catalog][i].kid)
  BY DEF LookupTrack
<1> QED
  BY <1>1, <1>2, <1>4, <1>5, CatalogTracks

LEMMA LookupTrackRunInv ==
  ASSUME RunInv, LookupTrack PROVE RunInv'
<1>1. CASE GiveUp
  BY <1>1, GiveUpRunInv
<1>2. CASE ~GiveUp
  <2>1. /\ turn \in 1 .. 3 /\ Order[turn] \in Roles /\ Wanted(Order[turn])
        /\ UNCHANGED <<syncVars, flags, crash, choiceVars, written>>
    BY <1>2, LookupFinds
  <2>2. /\ SyncInv' /\ SyncTypeOK'
        /\ UNCHANGED <<catalog, applied, published, ctxDone, gone>>
    BY <2>1, SyncKept
  <2>3. PICK i \in DOMAIN TracksOf[catalog] :
          /\ TracksOf[catalog][i] \in Track
          /\ StartReader(Order[turn], TracksOf[catalog][i].packaging,
                         TracksOf[catalog][i].kid)
    BY <1>2, LookupFinds
  <2>4. /\ TracksOf[catalog][i].packaging \in {"cmaf", "locmaf", "loc", "moqmi"}
        /\ TracksOf[catalog][i].kid \in Kids
    BY <2>3 DEF Track
  <2>5. reader \in [Roles -> {"none", "reading", "ended"}]
    BY DEF RunInv, TypeOK
  <2>6. /\ reader'[Order[turn]] = "reading" /\ turn' = turn + 1 /\ pc' = "subscribe"
    BY <2>1, <2>3, <2>5 DEF StartReader
  <2>7. pc = "lookup"
    BY DEF LookupTrack
  <2> QED
    BY <2>1, <2>2, <2>3, <2>4, <2>6, <2>7, TurnOver
<1> QED
  BY <1>1, <1>2

LEMMA EndSubscribingRunInv ==
  ASSUME RunInv, EndSubscribing PROVE RunInv'
<1>1. CASE ~AnySubscribed
  BY <1>1, GiveUpRunInv DEF EndSubscribing
<1>2. CASE AnySubscribed
  <2> USE DEF flags, choiceVars, readVars
  <2>1. /\ pc = "subscribe" /\ turn > 3 /\ pc' = "wait"
        /\ UNCHANGED <<syncVars, flags, crash, turn, choiceVars, readVars>>
    BY <1>2 DEF EndSubscribing
  <2>2. /\ SyncInv' /\ SyncTypeOK'
        /\ UNCHANGED <<catalog, applied, published, ctxDone, gone>>
    BY <2>1, SyncKept
  <2>3. TypeOK'
    BY <2>1, <2>2 DEF RunInv, TypeOK
  <2>4. turn = 4
    <3>1. turn \in 1 .. 4
      BY DEF RunInv, TypeOK
    <3> QED
      BY <2>1, <3>1
  <2>5. Flow' /\ Asking'
    BY <2>1, <2>2, <2>4 DEF RunInv, Flow, Asking, Selecting
  <2>6. \A role : Wanted(role)' = Wanted(role)
    BY <2>1 DEF Wanted
  <2>7. Readers'
    BY <1>2, <2>1, <2>6 DEF RunInv, Readers, AnySubscribed
  <2>8. GivesUpClosing'
    BY <2>1 DEF GivesUpClosing
  <2> QED
    BY <2>2, <2>3, <2>5, <2>7, <2>8 DEF RunInv
<1> QED
  BY <1>1, <1>2

LEMMA WaitRunInv ==
  ASSUME RunInv, Wait PROVE RunInv'
<1> USE DEF flags, choiceVars, readVars
<1>1. /\ pc' \in {"finished", "returned"} /\ ctxDone
      /\ UNCHANGED <<syncVars, flags, crash, turn, choiceVars, readVars>>
  BY DEF Wait
<1>2. /\ SyncInv' /\ SyncTypeOK'
      /\ UNCHANGED <<catalog, applied, published, ctxDone, gone>>
  BY <1>1, SyncKept
<1>3. TypeOK'
  BY <1>1, <1>2 DEF RunInv, TypeOK
<1>4. \A role : Wanted(role)' = Wanted(role)
  BY <1>1 DEF Wanted
<1>5. Flow' /\ Readers' /\ Asking'
  BY <1>1, <1>2, <1>4 DEF RunInv, Flow, Readers, Asking, Selecting
<1>6. GivesUpClosing'
  BY <1>1, <1>2 DEF GivesUpClosing
<1> QED
  BY <1>2, <1>3, <1>5, <1>6 DEF RunInv

LEMMA ReaderEndsRunInv ==
  ASSUME RunInv, NEW role \in Roles, ReaderEnds(role) PROVE RunInv'
<1> USE DEF flags, choiceVars
<1>1. /\ reader[role] = "reading"
      /\ reader' = [reader EXCEPT ![role] = "ended"]
      /\ UNCHANGED <<syncVars, flags, pc, crash, turn, choiceVars, readAs, written>>
  BY DEF ReaderEnds
<1>2. /\ SyncInv' /\ SyncTypeOK'
      /\ UNCHANGED <<catalog, applied, published, ctxDone, gone>>
  BY <1>1, SyncKept
<1>3. /\ reader' \in [Roles -> {"none", "reading", "ended"}]
      /\ \A r \in Roles : reader'[r] # "none" <=> reader[r] # "none"
  BY <1>1 DEF RunInv, TypeOK
<1>4. TypeOK'
  BY <1>1, <1>2, <1>3 DEF RunInv, TypeOK
<1>5. \A r : Wanted(r)' = Wanted(r)
  BY <1>1 DEF Wanted
<1>6. AnySubscribed' = AnySubscribed
  BY <1>3 DEF AnySubscribed
<1>7. Flow' /\ Asking'
  BY <1>1, <1>2, <1>5, AskingKept DEF RunInv, Flow
<1>8. Readers'
  <2>1. \A r \in Roles : reader'[r] # "none" => Wanted(r)' /\ readAs'[r].packaging # "none"
    BY <1>1, <1>3, <1>5 DEF RunInv, Readers
  <2>2. ASSUME pc \in {"subscribe", "lookup", "wait"}, main = "catalog",
               NEW k \in 1 .. turn - 1, Wanted(Order[k])
        PROVE  reader'[Order[k]] # "none"
    <3>1. turn \in 1 .. 4 /\ reader[Order[k]] # "none"
      BY <2>2 DEF RunInv, TypeOK, Readers
    <3>2. Order[k] \in Roles
      BY <3>1, Orders
    <3> QED
      BY <1>3, <3>1, <3>2
  <2> QED
    BY <1>1, <1>5, <1>6, <2>1, <2>2 DEF RunInv, Readers
<1>9. GivesUpClosing'
  BY <1>1, <1>2, <1>6 DEF RunInv, GivesUpClosing, Unsupported
<1> QED
  BY <1>2, <1>4, <1>7, <1>8, <1>9 DEF RunInv

(* What an object adds to what was written.                                *)
ObjectOf(role) ==
  {[role |-> role, packaging |-> readAs[role].packaging, sink |-> sink,
    as |-> Decrypted(role)] : sink \in Sinks(role)}

LEMMA ReadObjectTypes ==
  ASSUME RunInv, NEW role \in Roles, ReadObject(role)
  PROVE  /\ UNCHANGED <<syncVars, flags, pc, turn, choiceVars, reader, readAs>>
         /\ reader[role] # "none" /\ crash' \in {"no", "nil", "index", "mux"}
         /\ written' = written \/ written' = written \union ObjectOf(role)
         /\ ObjectOf(role) \subseteq
              [role : Roles, packaging : {"cmaf", "locmaf", "loc", "moqmi"},
               sink : {"loc", "mux", "file"}, as : {"clear", "encrypted", "garbled"}]
<1>1. readAs[role].packaging \in {"cmaf", "locmaf", "loc", "moqmi"}
  <2>1. reader[role] # "none" /\ readAs[role].packaging # "none"
    BY DEF ReadObject, RunInv, Readers
  <2>2. readAs[role].packaging \in {"none", "cmaf", "locmaf", "loc", "moqmi"}
    BY DEF RunInv, TypeOK
  <2> QED
    BY <2>1, <2>2
<1>2. Sinks(role) \subseteq {"loc", "mux", "file"}
  BY DEF Sinks
<1>3. Decrypted(role) \in {"clear", "encrypted", "garbled"}
  BY DEF Decrypted
<1>4. ObjectOf(role) \subseteq
        [role : Roles, packaging : {"cmaf", "locmaf", "loc", "moqmi"},
         sink : {"loc", "mux", "file"}, as : {"clear", "encrypted", "garbled"}]
  BY <1>1, <1>2, <1>3 DEF ObjectOf
<1>5. crash \in {"no", "nil", "index", "mux"}
  BY DEF RunInv, TypeOK
<1> QED
  BY <1>4, <1>5 DEF ReadObject, ObjectOf

LEMMA ReadObjectRunInv ==
  ASSUME RunInv, NEW role \in Roles, ReadObject(role) PROVE RunInv'
<1> USE DEF flags, choiceVars
<1>1. /\ UNCHANGED <<syncVars, flags, pc, turn, choiceVars, reader, readAs>>
      /\ reader[role] # "none"
  BY ReadObjectTypes
<1>2. /\ SyncInv' /\ SyncTypeOK'
      /\ UNCHANGED <<catalog, applied, published, ctxDone, gone>>
  BY <1>1, SyncKept
<1>3. TypeOK'
  <2>1. /\ crash' \in {"no", "nil", "index", "mux"}
        /\ written' \subseteq
             [role : Roles, packaging : {"cmaf", "locmaf", "loc", "moqmi"},
              sink : {"loc", "mux", "file"}, as : {"clear", "encrypted", "garbled"}]
    BY ReadObjectTypes DEF RunInv, TypeOK
  <2> QED
    BY <1>1, <1>2, <2>1 DEF RunInv, TypeOK
<1>4. \A r : Wanted(r)' = Wanted(r)
  BY <1>1 DEF Wanted
<1>5. pc \notin {"run", "catalog", "select", "licence"}
  BY <1>1 DEF RunInv, Flow
<1>6. Flow' /\ Readers' /\ Asking'
  BY <1>1, <1>2, <1>4, <1>5 DEF RunInv, Flow, Readers, AnySubscribed, Asking
<1>7. GivesUpClosing'
  BY <1>1, <1>2 DEF RunInv, GivesUpClosing, Unsupported, AnySubscribed
<1> QED
  BY <1>2, <1>3, <1>6, <1>7 DEF RunInv

LEMMA NextRunInv ==
  ASSUME RunInv, [Next]_vars PROVE RunInv'
<1>1. CASE MainStep \/ LicenceAnswers
  BY <1>1, RunSessionRunInv, GiveUpRunInv, EnterSelectionRunInv, SelectionRunInv,
     EndSelectionRunInv, SkipTurnRunInv, SubscribeTrackRunInv, SubscribeTrackFailsRunInv,
     LookupTrackRunInv, EndSubscribingRunInv, WaitRunInv
     DEF MainStep, RetrievalFailed, SelectionStep
<1>2. CASE Retrieve
  BY <1>2, RetrievalRunInv DEF Retrieve, SyncNext
<1>3. CASE Outside
  BY <1>3, RetrievalRunInv DEF Outside, SyncNext
<1>4. CASE \E role \in Roles : ReadObject(role) \/ ReaderEnds(role)
  BY <1>4, ReadObjectRunInv, ReaderEndsRunInv
<1>5. CASE UNCHANGED vars
  <2> USE DEF vars, subVars, flags, choiceVars, readVars
  <2>1. /\ SyncInv' /\ SyncTypeOK'
        /\ UNCHANGED <<catalog, applied, published, ctxDone, gone>>
    BY <1>5, SyncKept
  <2>2. TypeOK'
    BY <1>5, <2>1 DEF RunInv, TypeOK
  <2>3. \A r : Wanted(r)' = Wanted(r)
    BY <1>5 DEF Wanted
  <2>4. Flow' /\ Asking'
    BY <1>5, <2>1, <2>3, AskingKept DEF RunInv, Flow
  <2>5. Readers'
    BY <1>5, <2>3 DEF RunInv, Readers, AnySubscribed
  <2>6. GivesUpClosing'
    BY <1>5, <2>1 DEF RunInv, GivesUpClosing, AnySubscribed, Unsupported
  <2> QED
    BY <2>1, <2>2, <2>4, <2>5, <2>6 DEF RunInv
<1> QED
  BY <1>1, <1>2, <1>3, <1>4, <1>5 DEF Next

THEOREM RunInductive == Spec => []RunInv
<1>1. Init => RunInv
  BY InitRunInv
<1>2. RunInv /\ [Next]_vars => RunInv'
  BY NextRunInv
<1> QED
  BY <1>1, <1>2, PTL DEF Spec
-----------------------------------------------------------------------------
(* What holds with any publisher                                           *)

(* The types of a run's variables.                                         *)
THEOREM RunTypeCorrect == Spec => []TypeOK
<1>1. RunInv => TypeOK
  BY DEF RunInv
<1> QED
  BY <1>1, RunInductive, PTL

(* A run is over and says so, or waits and reads every track it wanted, at  *)
(* least one (handle, sub.go:150 to 420).                                   *)
THEOREM RunSettles == Spec => []RunSettled
<1>1. RunInv => RunSettled
  <2> SUFFICES ASSUME RunInv PROVE RunSettled
    OBVIOUS
  <2>1. ASSUME pc = "wait", main = "catalog", NEW role \in Roles, Wanted(role)
        PROVE  reader[role] # "none"
    <3>1. turn = 4 /\ \A k \in 1 .. 3 : Wanted(Order[k]) => reader[Order[k]] # "none"
      BY <2>1 DEF RunInv, Flow, Readers
    <3>2. \E k \in 1 .. 3 : Order[k] = role
      BY DEF Order, Roles
    <3> QED
      BY <2>1, <3>1, <3>2
  <2> QED
    BY <2>1 DEF RunInv, Readers, RunSettled, WaitsForMedia
<1> QED
  BY <1>1, RunInductive, PTL
-----------------------------------------------------------------------------
(* What is chosen, with catalogs that only grow                            *)

Chosen == {"select", "licence", "subscribe", "lookup", "wait"}

AppliedGrows ==
  \A i \in DOMAIN applied : i \in DOMAIN applied' /\ applied'[i] = applied[i]

LEMMA FollowsKept ==
  ASSUME ChoiceFollows, AppliedGrows, UNCHANGED <<flags, index, count, chosen>>,
         pc' \in Chosen => pc \in Chosen,
         pc \in Selecting /\ pc' \notin Selecting => index = count + 1 \/ pc' \notin Chosen
  PROVE  ChoiceFollows'
<1> USE DEF flags
<1> SUFFICES ASSUME pc' \in Chosen, main = "catalog" PROVE ChoiceFollows'
  BY DEF ChoiceFollows, Chosen
<1>1. PICK k \in DOMAIN applied :
        /\ count = Len(TracksOf[applied[k]])
        /\ \A role \in Roles : FirstBefore(applied[k], index, role)
  BY DEF ChoiceFollows, Chosen
<1>2. k \in DOMAIN applied' /\ applied'[k] = applied[k]
  BY DEF AppliedGrows
<1>3. ASSUME NEW role \in Roles PROVE FirstBefore(applied[k], index, role)'
  <2>1. \A i : Match(applied[k], i, role)' <=> Match(applied[k], i, role)
    BY <1>2 DEF Match
  <2>2. FirstBefore(applied[k], index, role)
    BY <1>1
  <2>3. UNCHANGED <<index, chosen>>
    OBVIOUS
  <2> QED
    BY <1>2, <2>1, <2>2, <2>3 DEF FirstBefore
<1>4. pc' \notin Selecting => index = count + 1
  BY DEF ChoiceFollows, Chosen
<1> QED
  BY <1>1, <1>2, <1>3, <1>4 DEF ChoiceFollows

LEMMA SetUpKept ==
  ASSUME AppliedGrows, cenc'.infos = cenc.infos, cenc'.key = cenc.key,
         UNCHANGED <<index, chosen, locWriter, inits, plainInits, lostInits, muxInits>>
  PROVE  /\ SetUp => SetUp'
         /\ Granted => Granted'
<1>1. \A t : SeenTrack(t) => SeenTrack(t)'
  BY DEF SeenTrack, AppliedGrows
<1>2. \A role, t : SetUpFor(role, t) => SetUpFor(role, t)'
  BY DEF SetUpFor
<1>3. KeysOffered \subseteq KeysOffered'
  BY OffersGrow DEF AppliedGrows
<1> QED
  BY <1>1, <1>2, <1>3 DEF SetUp, Granted

LEMMA ReadsKept ==
  ASSUME ReadsChosen, AppliedGrows, UNCHANGED <<main, chosen, readAs>>,
         \A role \in Roles : reader'[role] # "none" => reader[role] # "none"
  PROVE  ReadsChosen'
<1>1. \A t : OfferedTrack(t) => OfferedTrack(t)'
  BY DEF OfferedTrack, AppliedGrows
<1> QED
  BY <1>1 DEF ReadsChosen

LEMMA WrittenKept ==
  ASSUME AppliedGrows, UNCHANGED <<choiceVars, written>>
  PROVE  /\ SinksFit => SinksFit'
         /\ DecryptedFit => DecryptedFit'
<1>1. /\ KeysOffered \subseteq KeysOffered'
      /\ \A p : Unsupported(p) \subseteq Unsupported(p)'
  BY OffersGrow DEF AppliedGrows
<1> QED
  BY <1>1 DEF SinksFit, DecryptedFit, choiceVars

(* A step that neither chooses, subscribes nor writes.                     *)
LEMMA ChoiceKept ==
  ASSUME ChoiceInv, AppliedGrows, UNCHANGED <<flags, choiceVars, readAs, written>>,
         pc' \in Chosen => pc \in Chosen,
         pc \in Selecting /\ pc' \notin Selecting => index = count + 1 \/ pc' \notin Chosen,
         \A role \in Roles : reader'[role] # "none" => reader[role] # "none"
  PROVE  ChoiceInv'
BY FollowsKept, SetUpKept, ReadsKept, WrittenKept DEF ChoiceInv, flags, choiceVars

LEMMA InitChoice == Init => ChoiceInv
<1> SUFFICES ASSUME Init PROVE ChoiceInv
  OBVIOUS
<1>1. /\ pc = "run" /\ locWriter = {} /\ inits = {} /\ lostInits = {} /\ muxInits = {}
      /\ written = {} /\ cenc.infos = {}
      /\ \A role \in Roles : chosen[role] = "" /\ reader[role] = "none"
  BY DEF Init
<1> QED
  BY <1>1 DEF ChoiceInv, ChoiceFollows, SetUp, Granted, ReadsChosen, SinksFit, DecryptedFit

LEMMA RunSessionChoice ==
  ASSUME RunInv, ChoiceInv, RunSession PROVE ChoiceInv'
<1>1. AppliedGrows
  BY DEF RunSession, retrievalVars, catalogVars, AppliedGrows
<1>2. UNCHANGED <<main, chosen, reader, readAs, written, choiceVars>>
  BY DEF RunSession, flags, choiceVars, readVars
<1>3. pc' \in Chosen => main' # "catalog"
  BY <1>2 DEF RunSession, Chosen
<1>4. ChoiceFollows'
  BY <1>3 DEF ChoiceFollows, Chosen
<1> QED
  BY <1>1, <1>2, <1>4, SetUpKept, ReadsKept, WrittenKept DEF ChoiceInv, choiceVars

LEMMA EnterSelectionChoice ==
  ASSUME CatalogsGrow, RunInv, ChoiceInv, EnterSelection PROVE ChoiceInv'
<1>1. /\ pc = "catalog" /\ UNCHANGED <<applied, catalog, reader, readAs, written, chosen, main>>
      /\ \A role \in Roles : chosen[role] = "" /\ reader[role] = "none"
      /\ locWriter = {} /\ inits = {} /\ lostInits = {} /\ muxInits = {}
      /\ cenc.infos = {} /\ written = {}
      /\ UNCHANGED <<locWriter, inits, lostInits, muxInits, cenc>>
  BY DEF EnterSelection, RunInv, Flow, syncVars, catalogVars, readVars, flags
<1>2. SetUp' /\ Granted' /\ ReadsChosen' /\ SinksFit' /\ DecryptedFit'
  BY <1>1 DEF SetUp, Granted, ReadsChosen, SinksFit, DecryptedFit
<1>3. ChoiceFollows'
  <2>1. CASE catalog = 0
    BY <1>1, <2>1 DEF EnterSelection, ChoiceFollows
  <2>2. CASE catalog # 0
    <3>1. PICK k \in DOMAIN applied : applied[k] = catalog
      BY <2>2, InUseApplied DEF RunInv
    <3>2. k \in DOMAIN applied' /\ count' = Len(TracksOf[applied'[k]]) /\ index' = 1
          /\ pc' = "select"
      BY <1>1, <2>2, <3>1 DEF EnterSelection
    <3>3. ASSUME NEW role \in Roles PROVE FirstBefore(applied[k], index, role)'
      <4>1. chosen'[role] = "" 
        BY <1>1
      <4>2. \A i \in 1 .. index' - 1 : FALSE
        BY <3>2
      <4> QED
        BY <4>1, <4>2 DEF FirstBefore
    <3> QED
      BY <3>2, <3>3 DEF ChoiceFollows, Selecting
  <2> QED
    BY <2>1, <2>2
<1> QED
  BY <1>2, <1>3 DEF ChoiceInv

(* The goroutine of a role starts to read the track chosen for it.         *)
LEMMA StartReaderChoice ==
  ASSUME RunInv, ChoiceInv, NEW role \in Roles, NEW packaging, NEW kid,
         StartReader(role, packaging, kid), pc \in {"subscribe", "lookup"},
         UNCHANGED <<syncVars, flags, crash, choiceVars, written>>,
         IF main = "catalog"
         THEN /\ chosen[role] # ""
              /\ \E t \in Track : /\ OfferedTrack(t) /\ t.name = chosen[role]
                                  /\ packaging = t.packaging /\ kid = t.kid
         ELSE packaging = "moqmi" /\ kid = NoKey
  PROVE  ChoiceInv'
<1>1. AppliedGrows
  BY DEF syncVars, catalogVars, AppliedGrows
<1>2. UNCHANGED <<main, chosen, index, filter, count>> /\ pc' = "subscribe"
  BY DEF flags, choiceVars, StartReader
<1>3. ChoiceFollows'
  BY <1>1, <1>2, FollowsKept DEF ChoiceInv, Chosen, Selecting
<1>4. SetUp' /\ Granted' /\ SinksFit' /\ DecryptedFit'
  BY <1>1, SetUpKept, WrittenKept DEF ChoiceInv, choiceVars
<1>5. \A t : OfferedTrack(t)' <=> OfferedTrack(t)
  BY DEF OfferedTrack, syncVars, catalogVars
<1>6. /\ reader' = [reader EXCEPT ![role] = "reading"]
      /\ readAs' = [readAs EXCEPT ![role] = [packaging |-> packaging, kid |-> kid]]
      /\ DOMAIN reader = Roles /\ DOMAIN readAs = Roles
  BY DEF StartReader, RunInv, TypeOK
<1>7. ASSUME NEW r \in Roles, reader'[r] # "none"
      PROVE  IF main = "catalog"
             THEN /\ chosen[r] # ""
                  /\ \E t \in Track :
                       /\ OfferedTrack(t) /\ t.name = chosen[r]
                       /\ readAs'[r] = [packaging |-> t.packaging, kid |-> t.kid]
             ELSE readAs'[r] = [packaging |-> "moqmi", kid |-> NoKey]
  <2>1. CASE r = role
    BY <1>6, <2>1
  <2>2. CASE r # role
    BY <1>6, <1>7, <2>2 DEF ChoiceInv, ReadsChosen
  <2> QED
    BY <2>1, <2>2
<1>8. ReadsChosen'
  BY <1>2, <1>5, <1>7 DEF ReadsChosen
<1> QED
  BY <1>3, <1>4, <1>8 DEF ChoiceInv

LEMMA SubscribeTrackChoice ==
  ASSUME RunInv, ChoiceInv, SubscribeTrack PROVE ChoiceInv'
<1>1. CASE main = "moqmi"
  <2>1. Order[turn] \in Roles
    <3>1. turn \in 1 .. 4 /\ turn <= 3
      BY DEF SubscribeTrack, RunInv, TypeOK
    <3> QED
      BY <3>1, Orders
  <2> QED
    BY <1>1, <2>1, StartReaderChoice DEF SubscribeTrack
<1>2. CASE main # "moqmi"
  BY <1>2, ChoiceKept
     DEF SubscribeTrack, syncVars, catalogVars, AppliedGrows, Chosen, Selecting
<1> QED
  BY <1>1, <1>2

LEMMA LookupTrackChoice ==
  ASSUME RunInv, ChoiceInv, LookupTrack, ~GiveUp PROVE ChoiceInv'
<1>1. /\ catalog \in 1 .. MaxCatalog
      /\ UNCHANGED <<syncVars, flags, crash, choiceVars, written>>
      /\ Order[turn] \in Roles /\ Wanted(Order[turn]) /\ main = "catalog"
  BY LookupFinds
<1>2. PICK i \in DOMAIN TracksOf[catalog] :
        /\ TracksOf[catalog][i] \in Track
        /\ TracksOf[catalog][i].name = chosen[Order[turn]]
        /\ StartReader(Order[turn], TracksOf[catalog][i].packaging,
                       TracksOf[catalog][i].kid)
  BY LookupFinds
<1>3. chosen[Order[turn]] # ""
  BY <1>1 DEF Wanted
<1>4. OfferedTrack(TracksOf[catalog][i])
  <2>1. PICK k \in DOMAIN applied : applied[k] = catalog
    BY <1>1, InUseApplied, SyncAssumption DEF RunInv
  <2> QED
    BY <1>2, <2>1 DEF OfferedTrack
<1> QED
  BY <1>1, <1>2, <1>3, <1>4, StartReaderChoice DEF LookupTrack

(* Places of the catalogs that grow.                                       *)
LEMMA SameTrack ==
  ASSUME CatalogsGrow, NEW u \in 1 .. MaxCatalog, NEW v \in 1 .. MaxCatalog,
         NEW i \in DOMAIN TracksOf[u], NEW j \in DOMAIN TracksOf[v]
  PROVE  /\ TracksOf[u][i].name = TracksOf[v][j].name <=> i = j
         /\ i = j => /\ TracksOf[u][i].role = TracksOf[v][j].role
                     /\ TracksOf[u][i].packaging = TracksOf[v][j].packaging
                     /\ TracksOf[u][i].kid = TracksOf[v][j].kid
BY DEF CatalogsGrow, OnePlace

LEMMA HasName ==
  ASSUME CatalogsGrow, NEW v \in 1 .. MaxCatalog, NEW i \in DOMAIN TracksOf[v]
  PROVE  TracksOf[v][i].name # ""
BY DEF CatalogsGrow, Named

(* One iteration over track t: whoever was passed before has another name. *)
LEMMA SeenOther ==
  ASSUME CatalogsGrow, RunInv, pc \in Selecting, index <= Len(TracksOf[Source]),
         NEW t, SeenTrack(t)
  PROVE  t.name # TracksOf[Source][index].name /\ t.name # ""
<1>0. PICK k \in DOMAIN applied :
        \E j \in DOMAIN TracksOf[applied[k]] : j < index /\ t = TracksOf[applied[k]][j]
  BY DEF SeenTrack
<1>1. PICK j \in DOMAIN TracksOf[applied[k]] : j < index /\ t = TracksOf[applied[k]][j]
  BY <1>0
<1>2. applied[k] \in 1 .. MaxCatalog
  BY AppliedTypes DEF RunInv
<1>3. Source \in 1 .. MaxCatalog /\ index \in DOMAIN TracksOf[Source] /\ index \in Nat
  BY IterationPlace, CatalogTracks
<1>4. j # index
  BY <1>1, <1>2, <1>3, CatalogTracks
<1>5. t.name # TracksOf[Source][index].name
  BY <1>1, <1>2, <1>3, <1>4, SameTrack
<1>6. t.name # ""
  BY <1>1, <1>2, HasName
<1> QED
  BY <1>5, <1>6

(* The choice after one more track.                                        *)
LEMMA IterationFollows ==
  ASSUME CatalogsGrow, RunInv, ChoiceFollows, pc \in Selecting, index <= count,
         index <= Len(TracksOf[Source]), NEW t, t = TracksOf[Source][index],
         chosen' = IF Picks(t) THEN [chosen EXCEPT ![t.role] = t.name] ELSE chosen,
         index' = index + 1, pc' = "select", UNCHANGED <<count, flags, applied>>
  PROVE  ChoiceFollows'
<1> USE DEF flags
<1>1. /\ Source \in 1 .. MaxCatalog /\ index \in Nat /\ index >= 1 /\ count \in Nat
      /\ t \in Track /\ main = "catalog"
  BY IterationPlace, IterationTrack DEF RunInv, Flow, Selecting
<1>2. PICK k \in DOMAIN applied :
        /\ count = Len(TracksOf[applied[k]])
        /\ \A role \in Roles : FirstBefore(applied[k], index, role)
  BY <1>1 DEF ChoiceFollows, Selecting
<1> DEFINE v == applied[k]
           s == TracksOf[v][index]
<1>3. /\ v \in 1 .. MaxCatalog /\ DOMAIN TracksOf[v] = 1 .. count
      /\ index \in DOMAIN TracksOf[v] /\ index \in DOMAIN TracksOf[Source]
  BY <1>1, <1>2, AppliedTypes, CatalogTracks DEF RunInv
<1>4. /\ t.name = s.name /\ t.role = s.role /\ t.name # "" /\ t.role \in Roles
  <2>1. t.name = s.name /\ t.role = s.role
    BY <1>1, <1>3, SameTrack
  <2>2. t.name # ""
    BY <1>1, <1>3, HasName
  <2> QED
    BY <1>1, <2>1, <2>2 DEF Track
<1>5. DOMAIN chosen = Roles
  BY DEF RunInv, TypeOK
<1>6. ASSUME NEW role \in Roles PROVE FirstBefore(applied[k], index, role)'
  <2>1. /\ FirstBefore(v, index, role)
        /\ \A i : Match(applied[k], i, role)' <=> Match(v, i, role)
    BY <1>2 DEF Match
  <2>2. Match(v, index, role) <=> t.role = role /\ t.name \in filter[role]
    BY <1>4 DEF Match
  <2>3. \A i : i \in 1 .. index' - 1 <=> i \in 1 .. index - 1 \/ i = index
    BY <1>1
  <2>4. CASE Picks(t) /\ t.role = role
    <3>1. chosen'[role] = s.name /\ chosen[role] = "" /\ Match(v, index, role)
      BY <1>4, <1>5, <2>2, <2>4 DEF Picks
    <3>2. \A i \in 1 .. index - 1 : ~Match(v, i, role)
      <4>1. \A i \in 1 .. index - 1 : i \in DOMAIN TracksOf[v]
        BY <1>1, <1>3
      <4>2. \A i \in 1 .. index - 1 : TracksOf[v][i].name # ""
        BY <1>3, <4>1, HasName
      <4> QED
        BY <2>1, <3>1, <4>2 DEF FirstBefore
    <3>3. \A j \in 1 .. index' - 1 : Match(v, j, role) => index <= j
      BY <1>1, <2>3, <3>2
    <3> QED
      BY <2>1, <2>3, <3>1, <3>3 DEF FirstBefore
  <2>5. CASE ~(Picks(t) /\ t.role = role)
    <3>1. chosen'[role] = chosen[role]
      BY <1>4, <1>5, <2>5
    <3>2. CASE chosen[role] = ""
      <4>1. ~Match(v, index, role)
        BY <2>2, <2>5, <3>2 DEF Picks
      <4>2. \A i \in 1 .. index - 1 : i \in DOMAIN TracksOf[v]
        BY <1>1, <1>3
      <4>3. \A i \in 1 .. index - 1 : TracksOf[v][i].name # ""
        BY <1>3, <4>2, HasName
      <4>4. \A i \in 1 .. index - 1 : ~Match(v, i, role)
        BY <2>1, <3>2, <4>3 DEF FirstBefore
      <4>5. \A i \in 1 .. index' - 1 : ~Match(applied[k], i, role)'
        BY <2>1, <2>3, <4>1, <4>4
      <4>6. chosen'[role] = ""
        BY <3>1, <3>2
      <4> QED
        BY <4>5, <4>6 DEF FirstBefore
    <3>3. CASE chosen[role] # ""
      <4>1. PICK i \in 1 .. index - 1 :
              /\ Match(v, i, role) /\ chosen[role] = TracksOf[v][i].name
              /\ \A j \in 1 .. index - 1 : Match(v, j, role) => i <= j
        BY <2>1, <3>3 DEF FirstBefore
      <4>2. \A j \in 1 .. index' - 1 : Match(v, j, role) => i <= j
        BY <1>1, <2>3, <4>1
      <4> QED
        BY <2>1, <2>3, <3>1, <4>1, <4>2 DEF FirstBefore
    <3> QED
      BY <3>2, <3>3
  <2> QED
    BY <2>4, <2>5
<1> QED
  BY <1>1, <1>2, <1>6 DEF ChoiceFollows, Selecting

(* The track of an iteration has been seen once the iteration is over, and *)
(* whatever was seen stays seen.                                           *)
LEMMA IterationSeen ==
  ASSUME RunInv, pc \in Selecting, index <= Len(TracksOf[Source]),
         index' = index + 1, UNCHANGED applied
  PROVE  \A t : t = TracksOf[Source][index] \/ SeenTrack(t) => SeenTrack(t)'
<1>1. index \in Nat
  BY IterationPlace
<1>2. PICK k \in DOMAIN applied : applied[k] = Source /\ index \in DOMAIN TracksOf[applied[k]]
  BY IterationTrack
<1>3. ASSUME NEW t, t = TracksOf[Source][index] PROVE SeenTrack(t)'
  <2>1. /\ k \in DOMAIN applied' /\ index \in DOMAIN TracksOf[applied'[k]]
        /\ index < index' /\ t = TracksOf[applied'[k]][index]
    BY <1>1, <1>2, <1>3
  <2> QED
    BY <2>1 DEF SeenTrack
<1>4. ASSUME NEW t, SeenTrack(t) PROVE SeenTrack(t)'
  <2>1. PICK l \in DOMAIN applied :
          \E j \in DOMAIN TracksOf[applied[l]] : j < index /\ t = TracksOf[applied[l]][j]
    BY <1>4 DEF SeenTrack
  <2>2. PICK j \in DOMAIN TracksOf[applied[l]] : j < index /\ t = TracksOf[applied[l]][j]
    BY <2>1
  <2>3. j \in Nat
    BY AppliedTypes, CatalogTracks DEF RunInv
  <2>4. l \in DOMAIN applied' /\ j \in DOMAIN TracksOf[applied'[l]] /\ j < index'
        /\ t = TracksOf[applied'[l]][j]
    BY <1>1, <2>2, <2>3
  <2> QED
    BY <2>4 DEF SeenTrack
<1> QED
  BY <1>3, <1>4

(* The decryption info of a track depends on its own licence only.         *)
LEMMA IterationInfos ==
  ASSUME NEW t, NEW licence \in Licences(t), cenc' = CencAfter(t, licence),
         cenc \in [made : BOOLEAN, key : Kids, infos : SUBSET STRING]
  PROVE  /\ licence \in {"unneeded", "failed", "granted"}
         /\ licence = "unneeded" <=> ~Encrypted(t)
         /\ licence = "granted" => /\ cenc'.infos = cenc.infos \union {t.name}
                                  /\ cenc'.key = t.kid
         /\ licence # "granted" => /\ cenc'.infos = cenc.infos /\ cenc'.key = cenc.key
<1>1. licence \in {"unneeded", "failed", "granted"} /\ (licence = "unneeded" <=> ~Encrypted(t))
  BY DEF Licences
<1> QED
  BY <1>1 DEF CencAfter, ClearKey

(* A role that has been set up stays as it is.                             *)
LEMMA SetUpStays ==
  ASSUME NEW role \in Roles, NEW t, NEW s, NEW licence \in Licences(t),
         SetUpFor(role, s), s.name # "", s.name # t.name, t.role \in Roles,
         Iterates(t, licence), chosen \in [Roles -> STRING \union {""}],
         cenc \in [made : BOOLEAN, key : Kids, infos : SUBSET STRING]
  PROVE  SetUpFor(role, s)'
<1>1. ~(Picks(t) /\ t.role = role)
  BY DEF SetUpFor, Picks
<1>2. chosen'[role] = chosen[role]
  BY <1>1 DEF Iterates, UseTrack
<1>3. role \notin NewWriter(t) /\ role \notin NewInit(t) /\ role \notin NewMuxInit(t)
  BY <1>1 DEF NewWriter, NewInit, NewMuxInit
<1>4. s.name \in cenc'.infos <=> s.name \in cenc.infos
  <2>1. cenc' = CencAfter(t, licence)
    BY DEF Iterates, UseTrack
  <2>2. cenc'.infos = cenc.infos \union {t.name} \/ cenc'.infos = cenc.infos
    BY <2>1, IterationInfos
  <2> QED
    BY <2>2
<1>5. /\ role \in locWriter' <=> role \in locWriter
      /\ role \in inits' <=> role \in inits
      /\ role \in lostInits' <=> role \in lostInits
      /\ role \in plainInits' <=> role \in plainInits
      /\ role \in muxInits' <=> role \in muxInits
  BY <1>3 DEF Iterates, UseTrack, WriteInits
<1> QED
  BY <1>2, <1>4, <1>5 DEF SetUpFor

(* The role of the track that is picked is set up for it.                  *)
LEMMA PickSetsUp ==
  ASSUME NEW t \in Track, NEW licence \in Licences(t), Picks(t), Iterates(t, licence),
         t.role \notin locWriter \union inits \union lostInits \union muxInits,
         t.name \notin cenc.infos,
         plainInits \subseteq inits, chosen \in [Roles -> STRING \union {""}],
         cenc \in [made : BOOLEAN, key : Kids, infos : SUBSET STRING]
  PROVE  SetUpFor(t.role, t)'
<1>1. t.role \in Roles
  BY DEF Track
<1>2. t.name = chosen'[t.role]
  BY <1>1 DEF Iterates, UseTrack
<1>3. t.role \in locWriter' <=> t.packaging = "loc" /\ t.role \in Outs /\ t.supported
  BY DEF Iterates, UseTrack, NewWriter
<1>4. PICK ok \in SUBSET (NewInit(t) \intersect Outs) :
        /\ inits' = inits \union ok
        /\ plainInits' = IF licence = "failed" THEN plainInits ELSE plainInits \union ok
        /\ lostInits' = lostInits \union ((NewInit(t) \intersect Outs) \ ok)
  BY DEF Iterates, UseTrack, WriteInits
<1>5. /\ t.role \in inits' \union lostInits' <=> t.role \in NewInit(t) \intersect Outs
      /\ t.role \in inits' => (t.role \in plainInits' <=> licence # "failed")
  BY <1>4
<1>7. t.role \in NewInit(t) <=> t.packaging # "loc" \/ t.role = "subtitle"
  BY DEF NewInit
<1>8. t.role \in muxInits' => t.packaging # "loc"
  BY <1>7 DEF Iterates, UseTrack, WriteInits, NewMuxInit
<1>6. t.role \in inits' => (t.role \in plainInits' <=> ~Encrypted(t) \/ t.name \in cenc'.infos)
  <2>0. cenc' = CencAfter(t, licence)
    BY DEF Iterates, UseTrack
  <2>1. /\ licence \in {"unneeded", "failed", "granted"}
        /\ licence = "unneeded" <=> ~Encrypted(t)
        /\ licence = "granted" => cenc'.infos = cenc.infos \union {t.name}
        /\ licence # "granted" => cenc'.infos = cenc.infos
    BY <2>0, IterationInfos
  <2>2. t.name \in cenc'.infos <=> licence = "granted"
    BY <2>1
  <2> QED
    BY <1>5, <2>1, <2>2
<1> QED
  BY <1>2, <1>3, <1>5, <1>6, <1>7, <1>8 DEF SetUpFor, Encrypted

LEMMA SelectionChoice ==
  ASSUME CatalogsGrow, RunInv, ChoiceInv, SelectionStep PROVE ChoiceInv'
<1> DEFINE t == TracksOf[Source][index]
<1>1. /\ pc \in Selecting /\ index <= count /\ main = "catalog"
      /\ UNCHANGED <<main, filter, turn, reader, readAs, written, catalog, applied>>
      /\ written = {} /\ \A role \in Roles : reader[role] = "none"
  BY Iterations DEF RunInv, Flow, Selecting, syncVars, catalogVars, flags, readVars
<1>2. AppliedGrows
  BY <1>1 DEF AppliedGrows
<1>3. CASE (UNCHANGED pc \/ pc' = "finished") /\ UNCHANGED choiceVars
  BY <1>1, <1>2, <1>3, ChoiceKept DEF Chosen, Selecting, flags
<1>4. CASE index <= Len(TracksOf[Source]) /\ \E licence \in Licences(t) : Iterates(t, licence)
  <2>1. PICK licence \in Licences(t) : Iterates(t, licence)
    BY <1>4
  <2>2. /\ index' = index + 1 /\ pc' = "select" /\ UNCHANGED <<count, flags>>
        /\ chosen' = IF Picks(t) THEN [chosen EXCEPT ![t.role] = t.name] ELSE chosen
        /\ cenc' = CencAfter(t, licence)
    BY <1>1, <2>1 DEF Iterates, UseTrack, flags
  <2>3. /\ chosen \in [Roles -> STRING \union {""}] /\ plainInits \subseteq inits
        /\ cenc \in [made : BOOLEAN, key : Kids, infos : SUBSET STRING]
    BY DEF RunInv, TypeOK
  <2>4. /\ t \in Track /\ t.role \in Roles
        /\ \E k \in DOMAIN applied : /\ applied[k] = Source
                                     /\ index \in DOMAIN TracksOf[applied[k]]
    BY <1>1, <1>4, IterationTrack DEF Track
  <2>5. ChoiceFollows'
    BY <1>1, <1>4, <2>2, IterationFollows DEF ChoiceInv
  <2>6. \A s : s = t \/ SeenTrack(s) => SeenTrack(s)'
    BY <1>1, <1>4, <2>2, IterationSeen
  <2>7. \A s : SeenTrack(s) => s.name # t.name /\ s.name # ""
    BY <1>1, <1>4, SeenOther
  <2>8. SetUp'
    <3> SUFFICES ASSUME NEW role \in Roles
                 PROVE  \/ /\ chosen'[role] = ""
                           /\ role \notin (locWriter \union inits \union lostInits \union muxInits)'
                        \/ \E s \in Track : SeenTrack(s)' /\ SetUpFor(role, s)'
      BY DEF SetUp
    <3>1. CASE \E s \in Track : SeenTrack(s) /\ SetUpFor(role, s)
      <4>1. PICK s \in Track : SeenTrack(s) /\ SetUpFor(role, s)
        BY <3>1
      <4>2. SetUpFor(role, s)'
        BY <2>1, <2>3, <2>4, <2>7, <4>1, SetUpStays
      <4> QED
        BY <2>6, <4>1, <4>2
    <3>2. CASE /\ chosen[role] = ""
               /\ role \notin locWriter \union inits \union lostInits \union muxInits
      <4>1. CASE Picks(t) /\ t.role = role
        <5>1. t.name \notin cenc.infos
          BY <2>7 DEF ChoiceInv, Granted
        <5>2. PICK u \in Track : u = t
          BY <2>4
        <5>3. /\ licence \in Licences(u) /\ Picks(u) /\ Iterates(u, licence)
              /\ u.role = role
          BY <2>1, <4>1, <5>2
        <5>4. SetUpFor(u.role, u)'
          BY <2>3, <3>2, <5>1, <5>2, <5>3, PickSetsUp
        <5> QED
          BY <2>6, <5>2, <5>3, <5>4
      <4>2. CASE ~(Picks(t) /\ t.role = role)
        <5>1. chosen'[role] = ""
          BY <2>2, <2>3, <2>4, <3>2, <4>2
        <5>2. role \notin NewWriter(t) /\ role \notin NewInit(t) /\ role \notin NewMuxInit(t)
          BY <4>2 DEF NewWriter, NewInit, NewMuxInit
        <5>3. role \notin (locWriter \union inits \union lostInits \union muxInits)'
          BY <2>1, <3>2, <5>2 DEF Iterates, UseTrack, WriteInits
        <5> QED
          BY <5>1, <5>3
      <4> QED
        BY <4>1, <4>2
    <3> QED
      BY <3>1, <3>2 DEF ChoiceInv, SetUp
  <2>9. Granted'
    <3>1. /\ licence = "unneeded" <=> ~Encrypted(t)
          /\ licence = "granted" => /\ cenc'.infos = cenc.infos \union {t.name}
                                   /\ cenc'.key = t.kid
          /\ licence # "granted" => cenc'.infos = cenc.infos /\ cenc'.key = cenc.key
      BY <2>2, <2>3, IterationInfos
    <3>2. \A n \in cenc'.infos : n \in cenc.infos \/ n = t.name
      BY <3>1
    <3>3. \A n \in cenc'.infos : \E s \in Track : SeenTrack(s)' /\ s.name = n
      BY <2>4, <2>6, <3>2 DEF ChoiceInv, Granted
    <3>4. KeysOffered' = KeysOffered
      BY <1>1 DEF KeysOffered
    <3>5. Encrypted(t) => t.kid \in KeysOffered
      BY <2>4 DEF KeysOffered, Encrypted, Range
    <3>6. cenc'.infos # {} => cenc'.key \in KeysOffered
      BY <3>1, <3>5 DEF ChoiceInv, Granted
    <3> QED
      BY <3>3, <3>4, <3>6 DEF Granted
  <2>10. ReadsChosen' /\ SinksFit' /\ DecryptedFit'
    BY <1>1 DEF ReadsChosen, SinksFit, DecryptedFit
  <2> QED
    BY <2>5, <2>8, <2>9, <2>10 DEF ChoiceInv
<1>5. CASE /\ pc = "select" /\ pc' = "licence" /\ cenc' = [cenc EXCEPT !.made = TRUE]
           /\ UNCHANGED <<index, count, chosen, locWriter, inits, plainInits, lostInits,
                          muxInits>>
  <2>1. cenc'.infos = cenc.infos /\ cenc'.key = cenc.key
    BY <1>5 DEF RunInv, TypeOK
  <2>2. ChoiceFollows'
    BY <1>1, <1>2, <1>5, FollowsKept DEF ChoiceInv, Chosen, Selecting, flags
  <2>3. SetUp' /\ Granted'
    BY <1>2, <1>5, <2>1, SetUpKept DEF ChoiceInv
  <2>4. ReadsChosen' /\ SinksFit' /\ DecryptedFit'
    BY <1>1 DEF ReadsChosen, SinksFit, DecryptedFit
  <2> QED
    BY <2>2, <2>3, <2>4 DEF ChoiceInv
<1> QED
  BY <1>1, <1>3, <1>4, <1>5, Iterations

(* The track a goroutine reads is the one its role was set up for.         *)
LEMMA ReadsSetUp ==
  ASSUME CatalogsGrow, RunInv, ChoiceInv, NEW role \in Roles, reader[role] # "none",
         main = "catalog"
  PROVE  \E t \in Track :
           /\ OfferedTrack(t) /\ SetUpFor(role, t)
           /\ readAs[role].packaging = t.packaging /\ readAs[role].kid = t.kid
<1>1. chosen[role] # ""
  BY DEF ChoiceInv, ReadsChosen
<1>2. PICK s \in Track :
        /\ OfferedTrack(s) /\ s.name = chosen[role]
        /\ readAs[role] = [packaging |-> s.packaging, kid |-> s.kid]
  BY DEF ChoiceInv, ReadsChosen
<1>3. PICK t \in Track : SeenTrack(t) /\ SetUpFor(role, t)
  BY <1>1 DEF ChoiceInv, SetUp
<1>4. OfferedTrack(t)
  BY <1>3 DEF SeenTrack, OfferedTrack
<1>5. PICK k \in DOMAIN applied : \E j \in DOMAIN TracksOf[applied[k]] :
        s = TracksOf[applied[k]][j]
  BY <1>2 DEF OfferedTrack
<1>6. PICK j \in DOMAIN TracksOf[applied[k]] : s = TracksOf[applied[k]][j]
  BY <1>5
<1>7. PICK l \in DOMAIN applied : \E i \in DOMAIN TracksOf[applied[l]] :
        t = TracksOf[applied[l]][i]
  BY <1>4 DEF OfferedTrack
<1>8. PICK i \in DOMAIN TracksOf[applied[l]] : t = TracksOf[applied[l]][i]
  BY <1>7
<1>9. applied[k] \in 1 .. MaxCatalog /\ applied[l] \in 1 .. MaxCatalog
  BY AppliedTypes DEF RunInv
<1>10. t.name = s.name
  BY <1>2, <1>3 DEF SetUpFor
<1>11. t.packaging = s.packaging /\ t.kid = s.kid
  BY <1>6, <1>8, <1>9, <1>10, SameTrack
<1> QED
  BY <1>2, <1>3, <1>4, <1>11

LEMMA OfferedKey ==
  ASSUME NEW t, OfferedTrack(t), t.kid # NoKey
  PROVE  t.kid \in KeysOffered
BY DEF OfferedTrack, KeysOffered, Range

LEMMA OfferedUnsupported ==
  ASSUME NEW t, OfferedTrack(t), ~t.supported
  PROVE  t \in Unsupported(t.packaging)
BY DEF OfferedTrack, Unsupported, Range

(* An object goes where its packaging belongs, as its init segment.        *)
LEMMA ObjectFits ==
  ASSUME CatalogsGrow, RunInv, ChoiceInv, NEW role \in Roles, reader[role] # "none",
         NEW sink \in Sinks(role), ~(role = "subtitle" /\ sink = "mux")
  PROVE  LET packaging == readAs[role].packaging
         IN  /\ \/ packaging = "loc" <=> sink = "loc"
                \/ /\ packaging = "loc" /\ sink = "file"
                   /\ \E t \in Unsupported("loc") : t.name = chosen[role]
             /\ packaging \in {"cmaf", "locmaf"} /\ sink = "file" =>
                  /\ role \in inits \union lostInits
                  /\ role \in inits =>
                       (Decrypted(role) = "encrypted" <=> role \notin plainInits)
             /\ Decrypted(role) = "garbled" => \E k, l \in KeysOffered : k # l
<1>1. CASE main # "catalog"
  <2>1. readAs[role].packaging = "moqmi" /\ readAs[role].kid = NoKey /\ sink = "file"
    BY <1>1 DEF Sinks, ChoiceInv, ReadsChosen
  <2>2. Decrypted(role) = "clear"
    BY <2>1 DEF Decrypted
  <2> QED
    BY <2>1, <2>2
<1>2. CASE main = "catalog"
  <2>1. PICK t \in Track :
          /\ OfferedTrack(t) /\ SetUpFor(role, t)
          /\ readAs[role].packaging = t.packaging /\ readAs[role].kid = t.kid
    BY <1>2, ReadsSetUp
  <2>2. /\ t.name = chosen[role]
        /\ role \in locWriter <=> t.packaging = "loc" /\ role \in Outs /\ t.supported
        /\ role \in inits \union lostInits <=>
             (t.packaging # "loc" \/ role = "subtitle") /\ role \in Outs
        /\ role \in muxInits => t.packaging # "loc"
        /\ role \in inits => (role \in plainInits <=> ~Encrypted(t) \/ t.name \in cenc.infos)
    BY <2>1 DEF SetUpFor
  <2>3. /\ sink = "loc" <=> role \in locWriter
        /\ sink = "file" => role \in Outs
        /\ sink = "mux" => role \in muxInits
        /\ sink \in {"loc", "mux", "file"}
    BY <1>2 DEF Sinks, MuxReady, Roles
  <2>4. \/ t.packaging = "loc" <=> sink = "loc"
        \/ /\ t.packaging = "loc" /\ sink = "file"
           /\ \E s \in Unsupported("loc") : s.name = chosen[role]
    <3>1. CASE t.packaging = "loc" /\ sink # "loc"
      <4>1. sink = "file" /\ role \in Outs
        BY <2>2, <2>3, <3>1
      <4>2. ~t.supported
        BY <2>2, <2>3, <3>1, <4>1
      <4> QED
        BY <2>1, <2>2, <3>1, <4>1, <4>2, OfferedUnsupported
    <3> QED
      BY <2>2, <2>3, <3>1
  <2>5. t.packaging # "loc" /\ sink = "file" => role \in inits \union lostInits
    BY <2>2, <2>3
  <2>6. Decrypted(role) = "encrypted" <=> Encrypted(t) /\ t.name \notin cenc.infos
    BY <2>1, <2>2 DEF Decrypted, Encrypted
  <2>7. ASSUME Decrypted(role) = "garbled" PROVE \E k, l \in KeysOffered : k # l
    <3>1. t.kid # NoKey /\ chosen[role] \in cenc.infos /\ cenc.key # t.kid
      BY <2>1, <2>7 DEF Decrypted
    <3>2. t.kid \in KeysOffered
      BY <2>1, <3>1, OfferedKey
    <3>3. cenc.key \in KeysOffered
      BY <3>1 DEF ChoiceInv, Granted
    <3> QED
      BY <3>1, <3>2, <3>3
  <2> QED
    BY <2>1, <2>2, <2>4, <2>5, <2>6, <2>7
<1> QED
  BY <1>1, <1>2

LEMMA ReadObjectChoice ==
  ASSUME CatalogsGrow, RunInv, ChoiceInv, NEW role \in Roles, ReadObject(role)
  PROVE  ChoiceInv'
<1>1. /\ UNCHANGED <<syncVars, flags, pc, turn, choiceVars, reader, readAs>>
      /\ reader[role] # "none"
  BY ReadObjectTypes
<1>2. AppliedGrows /\ UNCHANGED applied
  BY <1>1 DEF syncVars, catalogVars, AppliedGrows
<1>3. CASE role = "subtitle" /\ "mux" \in Sinks(role)
  BY <1>1, <1>2, <1>3, ChoiceKept DEF ReadObject
<1>4. CASE ~(role = "subtitle" /\ "mux" \in Sinks(role))
  <2>1. written' = written \union ObjectOf(role)
    BY <1>4 DEF ReadObject, ObjectOf
  <2>2. ChoiceFollows'
    BY <1>1, <1>2, FollowsKept DEF ChoiceInv, choiceVars
  <2>3. SetUp' /\ Granted'
    BY <1>1, <1>2, SetUpKept DEF ChoiceInv, choiceVars
  <2>4. ReadsChosen'
    BY <1>1, <1>2, ReadsKept DEF ChoiceInv, flags, choiceVars
  <2>5. /\ UNCHANGED <<chosen, inits, lostInits, plainInits>> /\ KeysOffered' = KeysOffered
        /\ Unsupported("loc")' = Unsupported("loc")
    BY <1>1, <1>2 DEF choiceVars, KeysOffered, Unsupported
  <2>6. ASSUME NEW w \in ObjectOf(role)
        PROVE  /\ \/ (w.packaging = "loc") <=> (w.sink = "loc")
                  \/ /\ w.packaging = "loc" /\ w.sink = "file"
                     /\ \E t \in Unsupported("loc") : t.name = chosen[w.role]
               /\ w.packaging \in {"cmaf", "locmaf"} /\ w.sink = "file" =>
                    /\ w.role \in inits \union lostInits
                    /\ w.role \in inits =>
                         ((w.as = "encrypted") <=> (w.role \notin plainInits))
               /\ w.as = "garbled" => \E k, l \in KeysOffered : k # l
    <3>1. PICK sink \in Sinks(role) :
            w = [role |-> role, packaging |-> readAs[role].packaging, sink |-> sink,
                 as |-> Decrypted(role)]
      BY DEF ObjectOf
    <3>2. ~(role = "subtitle" /\ sink = "mux")
      BY <1>4
    <3>3. /\ w.role = role /\ w.packaging = readAs[role].packaging /\ w.sink = sink
          /\ w.as = Decrypted(role)
      BY <3>1
    <3> QED
      BY <1>1, <3>2, <3>3, ObjectFits
  <2>7. SinksFit'
    BY <2>1, <2>5, <2>6 DEF ChoiceInv, SinksFit
  <2>8. DecryptedFit'
    BY <2>1, <2>5, <2>6 DEF ChoiceInv, DecryptedFit
  <2> QED
    BY <2>2, <2>3, <2>4, <2>7, <2>8 DEF ChoiceInv
<1> QED
  BY <1>3, <1>4

(* The steps that leave choice, readers and written objects alone.         *)
LEMMA RestChoice ==
  ASSUME RunInv, ChoiceInv, UNCHANGED <<flags, choiceVars, readAs, written>>, AppliedGrows,
         \/ UNCHANGED <<pc, reader>>
         \/ pc' \notin Chosen /\ UNCHANGED reader
         \/ EndSelection
         \/ pc \in {"subscribe", "lookup"} /\ UNCHANGED reader
         \/ pc' = pc /\ \E role \in Roles : ReaderEnds(role)
  PROVE  ChoiceInv'
<1>1. CASE EndSelection
  <2>1. index \in 0 .. count + 1 /\ count \in Nat /\ index > count
    BY <1>1 DEF RunInv, TypeOK, EndSelection
  <2>2. index = count + 1
    BY <2>1
  <2> QED
    BY <1>1, <2>2, ChoiceKept DEF EndSelection, readVars, Chosen, Selecting
<1>2. CASE pc' = pc /\ \E role \in Roles : ReaderEnds(role)
  <2>1. PICK role \in Roles : ReaderEnds(role)
    BY <1>2
  <2>2. \A r \in Roles : reader'[r] # "none" => reader[r] # "none"
    BY <2>1 DEF ReaderEnds, RunInv, TypeOK
  <2> QED
    BY <1>2, <2>2, ChoiceKept
<1>3. CASE ~EndSelection /\ UNCHANGED reader
  BY <1>3, ChoiceKept DEF Chosen, Selecting
<1> QED
  BY <1>1, <1>2, <1>3

LEMMA NextChoice ==
  ASSUME CatalogsGrow, RunInv, ChoiceInv, [Next]_vars PROVE ChoiceInv'
<1> USE DEF readVars
<1>1. CASE RetrievalFailed \/ GiveUp \/ EndSelection \/ SkipTurn \/ EndSubscribing \/ Wait
             \/ SubscribeTrackFails
  <2>1. /\ AppliedGrows /\ UNCHANGED <<flags, choiceVars, readVars>>
        /\ \/ pc' \notin Chosen \/ EndSelection \/ pc \in {"subscribe", "lookup"}
    BY <1>1
       DEF AppliedGrows, RetrievalFailed, GiveUp, EndSelection, SkipTurn, EndSubscribing, Wait,
           SubscribeTrackFails, syncVars, catalogVars, retrievalVars, Chosen
  <2> QED
    BY <2>1, RestChoice
<1>2. CASE Retrieve \/ Outside
  <2>1. SyncNext /\ UNCHANGED subVars
    BY <1>2 DEF Retrieve, Outside, SyncNext
  <2>2. AppliedGrows
    BY <2>1, AppliedStays DEF RunInv, AppliedGrows
  <2> QED
    BY <2>1, <2>2, RestChoice DEF subVars
<1>3. CASE \E role \in Roles : ReaderEnds(role)
  BY <1>3, RestChoice DEF ReaderEnds, syncVars, catalogVars, AppliedGrows
<1>4. CASE UNCHANGED vars
  BY <1>4, RestChoice DEF vars, subVars, syncVars, catalogVars, AppliedGrows
<1>5. CASE LookupTrack
  BY <1>1, <1>5, LookupTrackChoice
<1> QED
  BY <1>1, <1>2, <1>3, <1>4, <1>5, RunSessionChoice, EnterSelectionChoice, SelectionChoice,
     SubscribeTrackChoice, ReadObjectChoice
     DEF Next, MainStep, SelectionStep

THEOREM ChoiceInductive ==
  ASSUME CatalogsGrow PROVE Spec => []ChoiceInv
<1>1. Init => ChoiceInv
  BY InitChoice
<1>2. RunInv /\ ChoiceInv /\ [Next]_vars => ChoiceInv'
  BY NextChoice
<1> QED
  BY <1>1, <1>2, RunInductive, PTL DEF Spec

(* What is chosen is the first match of each role in one catalog, the one   *)
(* with which handle entered its loop (sub.go:189 to 247), even if the      *)
(* goroutine replaces h.catalog meanwhile.                                  *)
THEOREM ChoiceFromOneCatalog ==
  ASSUME CatalogsGrow PROVE Spec => []ChosenFromOneCatalog
<1>1. RunInv /\ ChoiceInv => ChosenFromOneCatalog
  <2> SUFFICES ASSUME RunInv, ChoiceInv, pc \in {"subscribe", "lookup", "wait"},
                      main = "catalog"
               PROVE  \E i \in DOMAIN applied : \A role \in Roles :
                        chosen[role] = FirstMatch(applied[i], role)
    BY DEF ChosenFromOneCatalog
  <2>1. PICK k \in DOMAIN applied :
          /\ count = Len(TracksOf[applied[k]])
          /\ \A role \in Roles : FirstBefore(applied[k], index, role)
    BY DEF ChoiceInv, ChoiceFollows
  <2>2. index = count + 1 /\ count \in Nat
    <3>1. index = count + 1
      BY DEF ChoiceInv, ChoiceFollows, Selecting
    <3>2. count \in Nat
      BY DEF RunInv, TypeOK
    <3> QED
      BY <3>1, <3>2
  <2> DEFINE v == applied[k]
  <2>3. v \in 1 .. MaxCatalog /\ DOMAIN TracksOf[v] = 1 .. index - 1 /\ index \in Nat
    BY <2>1, <2>2, AppliedTypes, CatalogTracks DEF RunInv
  <2>4. ASSUME NEW role \in Roles PROVE chosen[role] = FirstMatch(v, role)
    <3> DEFINE matches == {i \in DOMAIN TracksOf[v] : /\ TracksOf[v][i].role = role
                                                     /\ TracksOf[v][i].name \in filter[role]}
    <3>1. \A i : i \in matches <=> i \in 1 .. index - 1 /\ Match(v, i, role)
      BY <2>3 DEF Match
    <3>2. CASE chosen[role] = "" /\ \A i \in 1 .. index - 1 : ~Match(v, i, role)
      <4>1. matches = {}
        BY <3>1, <3>2
      <4> QED
        BY <3>2, <4>1 DEF FirstMatch
    <3>3. CASE \E i \in 1 .. index - 1 :
                 /\ Match(v, i, role) /\ chosen[role] = TracksOf[v][i].name
                 /\ \A j \in 1 .. index - 1 : Match(v, j, role) => i <= j
      <4>1. PICK i \in 1 .. index - 1 :
              /\ Match(v, i, role) /\ chosen[role] = TracksOf[v][i].name
              /\ \A j \in 1 .. index - 1 : Match(v, j, role) => i <= j
        BY <3>3
      <4>2. i \in matches /\ \A j \in matches : i <= j
        BY <3>1, <4>1
      <4>3. \A l \in matches : (\A j \in matches : l <= j) => l = i
        BY <2>3, <3>1, <4>2
      <4>4. (CHOOSE l \in matches : \A j \in matches : l <= j) = i
        BY <4>2, <4>3
      <4> QED
        BY <4>1, <4>2, <4>4 DEF FirstMatch
    <3> QED
      BY <2>1, <3>2, <3>3 DEF FirstBefore
  <2> QED
    BY <2>4
<1> QED
  BY <1>1, RunInductive, ChoiceInductive, PTL

(* Objects go where their packaging belongs, behind their init segment or  *)
(* after losing it to a failing write (sub.go:206 to 342, mux.go).         *)
THEOREM SinksAlwaysFit ==
  ASSUME CatalogsGrow PROVE Spec => []SinksFit
<1>1. ChoiceInv => SinksFit
  BY DEF ChoiceInv
<1> QED
  BY <1>1, ChoiceInductive, PTL

LEMMA ImageFinite ==
  ASSUME NEW S, IsFiniteSet(S), NEW f, f = [x \in S |-> f[x]]
  PROVE  IsFiniteSet({f[x] : x \in S})
<1>1. f \in Surjection(S, {f[x] : x \in S})
  BY DEF Surjection
<1> QED
  BY <1>1, FS_Surjection

LEMMA KeysFinite ==
  ASSUME RunInv PROVE IsFiniteSet(KeysOffered)
<1> DEFINE Tracks(k) == Range(TracksOf[applied[k]])
           perCatalog == [k \in DOMAIN applied |-> Tracks(k)]
           all == UNION {Tracks(k) : k \in DOMAIN applied}
           kidOf == [t \in all |-> t.kid]
<1>1. IsFiniteSet(DOMAIN applied)
  <2>1. applied \in Seq(1 .. published)
    BY DEF RunInv, SyncInv, SyncTypeOK
  <2>2. DOMAIN applied = 1 .. Len(applied) /\ Len(applied) \in Int
    BY <2>1
  <2> QED
    BY <2>2, FS_Interval
<1>2. ASSUME NEW k \in DOMAIN applied PROVE IsFiniteSet(Tracks(k))
  <2>1. applied[k] \in 1 .. MaxCatalog
    BY AppliedTypes DEF RunInv
  <2> DEFINE s == TracksOf[applied[k]]
  <2>2. s \in Seq(Track) /\ DOMAIN s = 1 .. Len(s) /\ Len(s) \in Int
    BY <2>1, CatalogTracks
  <2>3. IsFiniteSet(DOMAIN s) /\ s = [i \in DOMAIN s |-> s[i]]
    <3> HIDE DEF s
    <3>1. IsFiniteSet(DOMAIN s)
      BY <2>2, FS_Interval
    <3>2. s \in [1 .. Len(s) -> Track]
      BY <2>2
    <3> QED
      BY <2>2, <3>1, <3>2
  <2>4. IsFiniteSet({s[i] : i \in DOMAIN s})
    <3> HIDE DEF s
    <3> QED
      BY <2>3, ImageFinite
  <2> QED
    BY <2>4 DEF Range
<1>3. IsFiniteSet({Tracks(k) : k \in DOMAIN applied})
  <2>1. IsFiniteSet({perCatalog[k] : k \in DOMAIN applied})
    <3>1. perCatalog = [k \in DOMAIN applied |-> perCatalog[k]]
      OBVIOUS
    <3> HIDE DEF perCatalog
    <3> QED
      BY <1>1, <3>1, ImageFinite
  <2>2. {perCatalog[k] : k \in DOMAIN applied} = {Tracks(k) : k \in DOMAIN applied}
    OBVIOUS
  <2> QED
    BY <2>1, <2>2
<1>4. IsFiniteSet(all)
  <2>1. \A T \in {Tracks(k) : k \in DOMAIN applied} : IsFiniteSet(T)
    BY <1>2
  <2> QED
    BY <1>3, <2>1, FS_UNION
<1>5. IsFiniteSet({t.kid : t \in all})
  <2>1. IsFiniteSet({kidOf[t] : t \in all})
    <3>1. kidOf = [t \in all |-> kidOf[t]]
      OBVIOUS
    <3> HIDE DEF kidOf, all
    <3> QED
      BY <1>4, <3>1, ImageFinite
  <2>2. {kidOf[t] : t \in all} = {t.kid : t \in all}
    <3> HIDE DEF all
    <3> QED
      OBVIOUS
  <2> QED
    BY <2>1, <2>2
<1>6. KeysOffered = {t.kid : t \in all} \ {NoKey}
  BY DEF KeysOffered
<1> QED
  BY <1>5, <1>6, FS_Difference

(* An init segment that was written agrees with the objects of its output, *)
(* and an object is decrypted with a wrong key only if the catalogs name   *)
(* several (sub.go:226 to 246, decryptInit and the reading goroutines).    *)
THEOREM DecryptionAgrees ==
  ASSUME CatalogsGrow PROVE Spec => []DecryptedAsInit
<1>1. RunInv /\ ChoiceInv => DecryptedAsInit
  <2> SUFFICES ASSUME RunInv, ChoiceInv PROVE DecryptedAsInit
    OBVIOUS
  <2>1. ASSUME NEW k \in KeysOffered, NEW l \in KeysOffered, k # l
        PROVE  Cardinality(KeysOffered) > 1
    <3>1. Cardinality(KeysOffered) \in Nat
      BY KeysFinite, FS_CardinalityType
    <3>2. Cardinality(KeysOffered) # 0
      BY <2>1, KeysFinite, FS_EmptySet
    <3>3. Cardinality(KeysOffered) # 1
      BY <2>1, KeysFinite, FS_Singleton
    <3> QED
      BY <3>1, <3>2, <3>3
  <2> QED
    BY <2>1 DEF ChoiceInv, DecryptedFit, DecryptedAsInit
<1> QED
  BY <1>1, RunInductive, ChoiceInductive, PTL
=============================================================================
