----------------------------- MODULE CatalogSync -----------------------------
(***************************************************************************)
(* How the subscriber gets its catalog and keeps it up to date             *)
(* (internal/sub/sub.go): joiningCatalog, subscribeToCatalog and           *)
(* fetchCatalog with the goroutine that applies later catalogs.            *)
(*                                                                         *)
(* The publisher is any publisher of full catalogs, each in a group of its *)
(* own; catalog v is object 0 of group v - 1.  It may start with some, may *)
(* publish more at any time, may send the last of them again on a new      *)
(* subscription as mlmpub does, and may end what it sends.  Groups come on *)
(* streams of their own, so the transport may deliver them out of order.   *)
(***************************************************************************)
EXTENDS Naturals, Sequences, FiniteSets

CONSTANTS
  MaxCatalog,  \* bound on the catalogs published
  Malformed,   \* those that are not valid JSON
  Settings     \* modes and publishers to consider

Mode == {"joining", "subscribe", "fetch", "other"}

Setting == [mode : Mode, ordered : BOOLEAN, replays : BOOLEAN]

ASSUME SyncAssumption ==
  /\ MaxCatalog \in Nat
  /\ Malformed \subseteq 1 .. MaxCatalog
  /\ Settings \subseteq Setting

VARIABLES
  setting,     \* the catalog mode, and how publisher and transport behave
  published,   \* catalogs published so far
  sync,        \* where the retrieval is
  subscribed,  \* the catalog subscription is open
  fetching,    \* the catalog fetch is open
  largest,     \* the catalog at the subscription's largest location, 0 if none
  inflight,    \* catalogs sent on the subscription and not read
  fetched,     \* the catalog a fetch delivers
  updater,     \* the goroutine that applies later catalogs
  catalog,     \* h.catalog, 0 for nil
  applied,     \* history: the catalogs applied
  ctxDone,     \* the client's context is done
  gone         \* the connection is lost or closed

requestVars == <<subscribed, fetching, largest, fetched>>
catalogVars == <<catalog, applied>>
outsideVars == <<setting, ctxDone, gone>>
syncVars == <<published, sync, inflight, updater, requestVars, catalogVars, outsideVars>>

SyncInit ==
  /\ setting \in Settings /\ published \in 0 .. MaxCatalog
  /\ sync = "start"
  /\ subscribed = FALSE /\ fetching = FALSE
  /\ largest = 0 /\ inflight = {} /\ fetched = 0
  /\ updater = "none" /\ catalog = 0 /\ applied = << >>
  /\ ctxDone = FALSE /\ gone = FALSE

Outcomes == IF gone THEN {FALSE} ELSE BOOLEAN

Location(v) == [group |-> v - 1, object |-> 0]

(* Mutants: what is at the largest location counts as new; only object     *)
(* numbers are compared; only the largest location itself is skipped.      *)
AfterLocationInclusive(o, loc) ==
  IF o.group # loc.group THEN o.group > loc.group ELSE o.object >= loc.object

AfterLocationObject(o, loc) == o.object > loc.object

AfterLocationOther(o, loc) == o # loc

AfterLocation(o, loc) ==
  IF o.group # loc.group THEN o.group > loc.group ELSE o.object > loc.object

(* What ReadObject may return next. *)
Readable ==
  IF setting.ordered THEN {v \in inflight : \A u \in inflight : v <= u} ELSE inflight

ApplyCatalog(v) ==
  /\ catalog' = v
  /\ applied' = Append(applied, v)
-----------------------------------------------------------------------------
(* The publisher and the transport *)

Publish ==
  /\ published < MaxCatalog
  /\ published' = published + 1
  /\ inflight' = IF subscribed THEN inflight \union {published + 1} ELSE inflight
  /\ UNCHANGED <<sync, updater, requestVars, catalogVars, outsideVars>>

CancelSync ==
  /\ ~ctxDone /\ ctxDone' = TRUE
  /\ UNCHANGED <<setting, gone, published, sync, inflight, updater, requestVars,
                 catalogVars>>

PeerGone ==
  /\ ~gone /\ gone' = TRUE
  /\ UNCHANGED <<setting, ctxDone, published, sync, inflight, updater, requestVars,
                 catalogVars>>
-----------------------------------------------------------------------------
(* Retrieval *)

(* The switch on the mode; an unknown one is an error. *)
Start ==
  /\ sync = "start"
  /\ sync' = CASE setting.mode = "fetch" -> "fetch"
               [] setting.mode = "other" -> "failed"
               [] OTHER -> "subscribe"
  /\ UNCHANGED <<published, inflight, updater, requestVars, catalogVars, outsideVars>>

(* Every error path closes what is open. *)
Fail ==
  /\ sync' = "failed" /\ subscribed' = FALSE /\ fetching' = FALSE

SubscribeFails ==
  /\ sync = "subscribe"
  /\ Fail
  /\ UNCHANGED <<published, inflight, updater, largest, fetched, catalogVars, outsideVars>>

(* Joining, the subscription must report content. *)
SubscribeOK ==
  /\ sync = "subscribe" /\ ~gone
  /\ largest' = published
  /\ \E first \in IF setting.replays THEN 1 .. published + 1 ELSE {published + 1} :
       inflight' = first .. published
  /\ IF setting.mode = "joining" /\ published = 0
     THEN Fail
     ELSE /\ sync' = IF setting.mode = "joining" THEN "fetch" ELSE "first"
          /\ subscribed' = TRUE /\ UNCHANGED fetching
  /\ UNCHANGED <<published, updater, fetched, catalogVars, outsideVars>>

(* Mutant: the subscription is left open when the fetch is refused. *)
FetchFailsSubscribed ==
  /\ sync = "fetch"
  /\ sync' = "failed"
  /\ UNCHANGED <<published, inflight, updater, requestVars, catalogVars, outsideVars>>

FetchFails ==
  /\ sync = "fetch"
  /\ Fail
  /\ UNCHANGED <<published, inflight, updater, largest, fetched, catalogVars, outsideVars>>

(* A joining fetch with offset 0 delivers the group of the subscription's  *)
(* largest location, a standalone one what the publisher has.              *)
FetchOK ==
  /\ sync = "fetch" /\ ~gone
  /\ fetched' \in IF setting.mode = "joining" THEN {largest} ELSE 0 .. published
  /\ fetching' = TRUE
  /\ sync' = "read"
  /\ UNCHANGED <<published, inflight, updater, subscribed, largest, catalogVars,
                 outsideVars>>

(* The first object of the fetch; in joining mode the catalog output is    *)
(* written as part of applying, and its failure is an error.               *)
ReadFetched ==
  /\ sync = "read" /\ ~gone /\ fetched # 0
  /\ \/ fetched \in Malformed /\ Fail /\ UNCHANGED <<updater, catalogVars>>
     \/ /\ fetched \notin Malformed /\ ApplyCatalog(fetched)
        /\ \/ setting.mode = "joining" /\ Fail /\ UNCHANGED updater
           \/ /\ sync' = "ok" /\ fetching' = FALSE
              /\ updater' = IF setting.mode = "joining" THEN "run" ELSE "none"
              /\ UNCHANGED subscribed
  /\ UNCHANGED <<published, inflight, largest, fetched, outsideVars>>

(* The end of the stream is an error in joining mode, and none standalone. *)
ReadFetchEnds ==
  /\ sync = "read"
  /\ \/ Fail
     \/ /\ setting.mode = "fetch"
        /\ sync' = "ok" /\ fetching' = FALSE /\ UNCHANGED subscribed
  /\ UNCHANGED <<published, inflight, updater, largest, fetched, catalogVars,
                 outsideVars>>

ReadFirst ==
  /\ sync = "first" /\ ~gone
  /\ \E v \in Readable :
       /\ inflight' = inflight \ {v}
       /\ IF v \in Malformed
          THEN Fail /\ UNCHANGED <<updater, catalogVars>>
          ELSE /\ ApplyCatalog(v)
               /\ sync' = "ok" /\ updater' = "run" /\ UNCHANGED <<subscribed, fetching>>
  /\ UNCHANGED <<published, largest, fetched, outsideVars>>

(* The end of the subscription is no error: there is no catalog then. *)
ReadFirstEnds ==
  /\ sync = "first"
  /\ subscribed' = FALSE
  /\ sync' \in {"ok", "failed"}
  /\ UNCHANGED <<published, inflight, updater, fetching, largest, fetched, catalogVars,
                 outsideVars>>

RetrieveStep ==
  \/ Start \/ SubscribeFails \/ SubscribeOK \/ FetchFails \/ FetchOK
  \/ ReadFetched \/ ReadFetchEnds \/ ReadFirst \/ ReadFirstEnds
-----------------------------------------------------------------------------
(* The goroutine for later catalogs *)

(* Joining, what the fetch covers is skipped.  A catalog that cannot be    *)
(* parsed is logged, and so is a failing write of the catalog output,      *)
(* after the catalog has been replaced.                                    *)
UpdaterReads ==
  /\ updater = "run" /\ ~gone
  /\ \E v \in Readable :
       /\ inflight' = inflight \ {v}
       /\ IF /\ v \notin Malformed
             /\ setting.mode = "joining" => AfterLocation(Location(v), Location(largest))
          THEN ApplyCatalog(v) ELSE UNCHANGED catalogVars
  /\ UNCHANGED <<published, sync, updater, requestVars, outsideVars>>

(* The end of the stream, an error, or the context. *)
UpdaterEnds ==
  /\ updater = "run"
  /\ updater' = "ended" /\ subscribed' = FALSE
  /\ UNCHANGED <<published, sync, inflight, fetching, largest, fetched, catalogVars,
                 outsideVars>>

UpdaterStep == UpdaterReads \/ UpdaterEnds
-----------------------------------------------------------------------------
SyncNext ==
  Publish \/ CancelSync \/ PeerGone \/ RetrieveStep \/ UpdaterStep

SyncSpec == SyncInit /\ [][SyncNext]_syncVars

(* The runtime runs what can run, the transport ends every request one way *)
(* or the other and delivers what was sent.  Nothing makes the publisher   *)
(* publish, and a fetch or a subscription may stay silent.                 *)
Requesting == Start \/ SubscribeFails \/ SubscribeOK \/ FetchFails \/ FetchOK
Reading == ReadFetched \/ ReadFirst \/ UpdaterReads
Woken == (ctxDone \/ gone) /\ (ReadFetchEnds \/ ReadFirstEnds \/ UpdaterEnds)

FairSyncSpec ==
  /\ SyncSpec
  /\ WF_syncVars(Requesting) /\ WF_syncVars(Reading) /\ WF_syncVars(Woken)
-----------------------------------------------------------------------------
SyncTypeOK ==
  /\ setting \in Settings /\ published \in 0 .. MaxCatalog
  /\ sync \in {"start", "subscribe", "fetch", "read", "first", "ok", "failed"}
  /\ subscribed \in BOOLEAN /\ fetching \in BOOLEAN
  /\ largest \in 0 .. published /\ inflight \subseteq 1 .. published
  /\ fetched \in 0 .. published
  /\ updater \in {"none", "run", "ended"}
  /\ catalog \in 0 .. published /\ applied \in Seq(1 .. published)
  /\ ctxDone \in BOOLEAN /\ gone \in BOOLEAN

(* However fetch and subscription overlap, no catalog is applied twice:    *)
(* the one the joining fetch delivered may come again.  Once a fetch has   *)
(* delivered it, the subscription never brings back an older one, even if  *)
(* it delivers groups out of order.                                        *)
NothingComesBack ==
  /\ \A i, j \in DOMAIN applied : applied[i] = applied[j] => i = j
  /\ setting.mode = "joining" => \A i \in DOMAIN applied : applied[1] <= applied[i]

(* Whatever fails, nothing is left open behind a retrieval that failed or  *)
(* a goroutine that ended, and a fetch is closed once it was read.         *)
RequestsClosed ==
  /\ sync = "failed" \/ updater = "ended" => ~subscribed
  /\ sync \in {"failed", "ok"} => ~fetching
  /\ subscribed /\ sync = "ok" => updater = "run"

(* A joining retrieval that succeeds has a catalog. *)
JoinedHasCatalog == sync = "ok" /\ setting.mode = "joining" => catalog # 0

(* Together: however a retrieval ends, it ends with what it is for or with *)
(* nothing left behind.                                                    *)
RetrievalSettled == RequestsClosed /\ JoinedHasCatalog

(* With groups in order, the catalog in use only moves forward; without,   *)
(* nothing is claimed.                                                     *)
InUse == IF setting.ordered THEN catalog ELSE 0
Abstract == INSTANCE CatalogInUse WITH available <- published, inUse <- InUse
MovesForward == Abstract!Spec

(* With groups in order no update is lost, not even one published between  *)
(* the subscription and the fetch: as long as the goroutine runs the       *)
(* catalog in use comes to be the last valid one.                          *)
LastValid ==
  LET valid == (1 .. published) \ Malformed
  IN  CHOOSE v \in valid \union {0} : \A u \in valid : u <= v

UpdatesApplied ==
  updater = "run" /\ setting.ordered ~> updater = "ended" \/ catalog = LastValid
=============================================================================
