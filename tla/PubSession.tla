----------------------------- MODULE PubSession -----------------------------
(***************************************************************************)
(* One publisher session (internal/pub/pub.go): Handle runs the session    *)
(* and announces the namespaces one after the other, while the transport   *)
(* calls the handlers for the peer's SUBSCRIBE, FETCH and ANNOUNCE         *)
(* messages.  A handler answers, may write the catalog object, and may     *)
(* start a publishing goroutine (module TrackPublisher).                   *)
(*                                                                         *)
(* The peer answers announcements the way a subscriber does                *)
(* (internal/sub/sub.go, getHandler).  Handle and the handlers interleave  *)
(* between any two calls; the server's context may end and the peer may    *)
(* go away at any moment; any call that answers or writes may fail.        *)
(***************************************************************************)
EXTENDS Catalogs

CONSTANTS
  Requests,   \* requests the peer makes
  Messages,   \* messages a request may be
  Wants       \* what a peer may accept: the name of a namespace, or "any"

Location == [group : Nat, object : Nat]

Message == [method : {"subscribe", "fetch", "announce"}, namespace : STRING,
            track : Seq(STRING), start : Location, end : Location]

ASSUME MessagesAssumption == Messages \subseteq Message

VARIABLES
  pc,         \* where Handle is
  next,       \* number of the namespace it announces
  reply,      \* what the peer said to the announcement
  announced,  \* the namespaces the peer accepted, in order
  ctxDone,    \* the server's context is cancelled
  gone,       \* the peer's connection is lost or closed
  wanted,     \* the peer's Namespace, or "any" if AcceptAny or Discover is set
  message,    \* the message of a request
  rpc,        \* where its handler is
  answers,    \* history: how the handler answered
  failed,     \* history: a call of the handler failed
  objects,    \* history: catalog objects written
  fin,        \* history: the catalog's stream was ended
  serving     \* the publishing goroutine started: packaging and track, or {}

handleVars == <<pc, next, reply, announced>>
requestVars == <<message, rpc, answers, failed, objects, fin, serving>>
envVars == <<ctxDone, gone, wanted>>
vars == <<handleVars, envVars, requestVars>>

Init ==
  /\ pc = "run" /\ next = 1 /\ reply = "none" /\ announced = << >>
  /\ ctxDone = FALSE /\ gone = FALSE /\ wanted \in Wants
  /\ message \in [Requests -> Messages]
  /\ rpc = [r \in Requests |-> "unsent"]
  /\ answers = [r \in Requests |-> << >>]
  /\ failed = [r \in Requests |-> FALSE]
  /\ objects = [r \in Requests |-> 0]
  /\ fin = [r \in Requests |-> FALSE]
  /\ serving = [r \in Requests |-> {}]

Outcomes == IF gone THEN {FALSE} ELSE BOOLEAN
-----------------------------------------------------------------------------
(* Handle *)

(* session.Run; when it fails the connection is closed. *)
RunSession ==
  /\ pc = "run"
  /\ \E ok \in Outcomes :
       /\ pc' = IF ok THEN "announce" ELSE "done"
       /\ gone' = (gone \/ ~ok)
  /\ UNCHANGED <<next, reply, announced, ctxDone, wanted, requestVars>>

(* The namespaces in order, then the one of the interop runner. *)
Announcing ==
  IF next <= Len(Namespaces) THEN Namespaces[next].namespace ELSE InteropNamespace

Announce ==
  /\ pc = "announce"
  /\ pc' = "announcing"
  /\ reply' = "none"
  /\ UNCHANGED <<next, announced, envVars, requestVars>>

(* The peer accepts any namespace, or the wanted one only. *)
PeerReplies ==
  /\ pc = "announcing" /\ reply = "none" /\ ~gone
  /\ reply' = IF wanted = "any" \/ Announcing = wanted THEN "accepted" ELSE "rejected"
  /\ UNCHANGED <<pc, next, announced, envVars, requestVars>>

(* Mutants: the end of the list is not noticed; the last configured        *)
(* namespace is forgotten.                                                 *)
AnnounceAcceptedOn ==
  /\ pc = "announcing" /\ reply = "accepted"
  /\ announced' = Append(announced, Announcing)
  /\ next' = next + 1
  /\ pc' = "announce"
  /\ UNCHANGED <<reply, envVars, requestVars>>

AnnounceAcceptedShort ==
  /\ pc = "announcing" /\ reply = "accepted"
  /\ announced' = Append(announced, Announcing)
  /\ next' = next + 1
  /\ pc' = IF next >= Len(Namespaces) - 1 THEN "wait" ELSE "announce"
  /\ UNCHANGED <<reply, envVars, requestVars>>

AnnounceAccepted ==
  /\ pc = "announcing" /\ reply = "accepted"
  /\ announced' = Append(announced, Announcing)
  /\ next' = next + 1
  /\ pc' = IF next > Len(Namespaces) THEN "wait" ELSE "announce"
  /\ UNCHANGED <<reply, envVars, requestVars>>

(* An error ends Handle, but for the interop namespace it is only logged.  *)
AnnounceFails ==
  /\ pc = "announcing"
  /\ reply = "rejected" \/ gone \/ ctxDone
  /\ pc' = IF next > Len(Namespaces) THEN "wait" ELSE "done"
  /\ UNCHANGED <<next, reply, announced, envVars, requestVars>>


(* <-ctx.Done() *)
HandleEnds ==
  /\ pc = "wait" /\ ctxDone
  /\ pc' = "done"
  /\ UNCHANGED <<next, reply, announced, envVars, requestVars>>

HandleStep ==
  RunSession \/ Announce \/ AnnounceAccepted \/ AnnounceFails \/ HandleEnds
-----------------------------------------------------------------------------
(* The handlers *)

LocationLess(a, b) ==
  IF a.group # b.group THEN a.group < b.group ELSE a.object < b.object

(* Mutant: an end object of 0 is taken literally. *)
LocationInFetchRangeLiteral(loc, start, end) ==
  ~LocationLess(loc, start) /\ LocationLess(loc, end)

LocationInFetchRange(loc, start, end) ==
  /\ ~LocationLess(loc, start)
  /\ IF end.object = 0 THEN loc.group <= end.group ELSE LocationLess(loc, end)

CatalogLocation == [group |-> 0, object |-> 0]

(* The transport calls the handler, once the session runs.  That Handle    *)
(* has returned since does not matter.                                     *)
Receive(r) ==
  /\ rpc[r] = "unsent" /\ pc # "run" /\ ~gone
  /\ rpc' = [rpc EXCEPT ![r] = "called"]
  /\ UNCHANGED <<handleVars, envVars, message, answers, failed, objects, fin, serving>>

(* A call of the handler of r: on success it goes on at loc, else returns. *)
Call(r, ok, loc) ==
  /\ rpc' = [rpc EXCEPT ![r] = IF ok THEN loc ELSE "returned"]
  /\ failed' = [failed EXCEPT ![r] = @ \/ ~ok]

Answer(r, ok, a) == answers' = [answers EXCEPT ![r] = IF ok THEN Append(@, a) ELSE @]

Reject(r) ==
  /\ \E ok \in Outcomes : Call(r, ok, "returned") /\ Answer(r, ok, "rejected")
  /\ UNCHANGED <<handleVars, envVars, message, objects, fin, serving>>

(* Accept, then start the goroutine for what is to be served, if anything. *)
AcceptServing(r, served, loc) ==
  /\ \E ok \in Outcomes :
       /\ Call(r, ok, loc) /\ Answer(r, ok, "accepted")
       /\ serving' = [serving EXCEPT ![r] = IF ok THEN served ELSE {}]
  /\ UNCHANGED <<handleVars, envVars, message, objects, fin>>

Called(r, method) == rpc[r] = "called" /\ message[r].method = method

Entries(r) == FindNamespace(message[r].namespace)

HandleAnnounce(r) ==
  /\ Called(r, "announce")
  /\ IF message[r].namespace = InteropNamespace
     THEN AcceptServing(r, {}, "returned") ELSE Reject(r)

(* FETCH: only the catalog of a namespace that has one. *)
FetchableCatalog(r) ==
  /\ \E e \in Entries(r) : e.packaging # "moqmi"
  /\ message[r].track = CatalogName

RejectFetch(r) == Called(r, "fetch") /\ ~FetchableCatalog(r) /\ Reject(r)

AcceptFetch(r) ==
  Called(r, "fetch") /\ FetchableCatalog(r) /\ AcceptServing(r, {}, "open")

Serve(packaging, tracks) == {[packaging |-> packaging, track |-> t] : t \in tracks}

SubtitleTrack(name) ==
  [name |-> name, type |-> "subtitle", codec |-> "subtitle", bitrate |-> 0,
   protection |-> "none"]

TrimLocmafSuffix(name) ==
  IF name # << >> /\ name[Len(name)] = LocmafTrackSuffix
  THEN SubSeq(name, 1, Len(name) - 1) ELSE name

SubscribeInterop(r) ==
  /\ Called(r, "subscribe") /\ message[r].namespace = InteropNamespace
  /\ AcceptServing(r, {}, "returned")

SubscribeUnknown(r) ==
  /\ Called(r, "subscribe") /\ message[r].namespace # InteropNamespace
  /\ Entries(r) = {}
  /\ Reject(r)

(* The entry the remaining branches of the handler work with. *)
SubscribeIn(r, e) ==
  /\ Called(r, "subscribe") /\ message[r].namespace # InteropNamespace
  /\ e \in Entries(r)

(* Mutant: the handler goes on after the rejection. *)
SubscribeMoqMINoReturn(r) ==
  \E e \in Entries(r) :
    /\ SubscribeIn(r, e) /\ e.packaging = "moqmi"
    /\ message[r].track = CatalogName \/ message[r].track \notin DOMAIN e.moqmiTracks
    /\ \E ok \in Outcomes :
         Call(r, ok, IF answers[r] = << >> THEN "called" ELSE "returned")
           /\ Answer(r, ok, "rejected")
    /\ UNCHANGED <<handleVars, envVars, message, objects, fin, serving>>

SubscribeMoqMI(r) ==
  \E e \in Entries(r) :
    /\ SubscribeIn(r, e) /\ e.packaging = "moqmi"
    /\ LET name == message[r].track
       IN  IF name = CatalogName \/ name \notin DOMAIN e.moqmiTracks
           THEN Reject(r)
           ELSE LET content == TracksNamed(e.moqmiTracks[name])
                IN  AcceptServing(r, Serve("moqmi", content), "returned")

(* The catalog is accepted with largest location {0,0}, then written. *)
SubscribeCatalog(r) ==
  \E e \in Entries(r) :
    /\ SubscribeIn(r, e) /\ e.packaging # "moqmi"
    /\ message[r].track = CatalogName
    /\ AcceptServing(r, {}, "open")

(* Subtitle tracks are looked up by name in the asset, not in the catalog. *)
SubscribeSubtitle(r) ==
  \E e \in Entries(r) :
    /\ SubscribeIn(r, e) /\ e.packaging # "moqmi"
    /\ message[r].track # CatalogName /\ message[r].track \in Subtitles
    /\ AcceptServing(r, Serve("subtitle", {SubtitleTrack(message[r].track)}),
                     "returned")

(* Mutants: the packaging is that of the namespace; any track of the asset *)
(* is served.                                                              *)
MediaOfNamespace(e, c) ==
  Serve(e.packaging, TracksNamed(TrimLocmafSuffix(c.name)))

SubscribeAnyTrack(r) ==
  \E e \in Entries(r) :
    /\ SubscribeIn(r, e) /\ e.packaging # "moqmi"
    /\ message[r].track \notin Subtitles \union {CatalogName}
    /\ LET content == TracksNamed(TrimLocmafSuffix(message[r].track))
       IN  IF content = {} THEN Reject(r)
           ELSE AcceptServing(r, Serve(e.packaging, content), "returned")

(* PublishLOCTrack or PublishTrack for the track c of the catalog of e. *)
MediaServed(e, c) ==
  IF e.packaging = "loc"
  THEN Serve("loc", TracksNamed(c.name))
  ELSE Serve(c.packaging, TracksNamed(TrimLocmafSuffix(c.name)))

SubscribeMedia(r) ==
  \E e \in Entries(r) :
    /\ SubscribeIn(r, e) /\ e.packaging # "moqmi"
    /\ message[r].track \notin Subtitles \union {CatalogName}
    /\ LET listed == {c \in e.catalog : c.name = message[r].track}
       IN  \/ listed = {} /\ Reject(r)
           \/ \E c \in listed : AcceptServing(r, MediaServed(e, c), "returned")

(* OpenSubgroup or FetchStream; the object, for a FETCH only if its range  *)
(* covers it; the end of the stream.                                       *)
OpenCatalogStream(r) ==
  /\ rpc[r] = "open"
  /\ \E ok \in Outcomes : Call(r, ok, "write")
  /\ UNCHANGED <<handleVars, envVars, message, answers, objects, fin, serving>>

Covered(r) ==
  message[r].method = "fetch" =>
    LocationInFetchRange(CatalogLocation, message[r].start, message[r].end)

WriteCatalog(r) ==
  /\ rpc[r] = "write"
  /\ IF Covered(r)
     THEN \E ok \in Outcomes :
            /\ Call(r, ok, "close")
            /\ objects' = [objects EXCEPT ![r] = IF ok THEN @ + 1 ELSE @]
     ELSE Call(r, TRUE, "close") /\ UNCHANGED objects
  /\ UNCHANGED <<handleVars, envVars, message, answers, fin, serving>>

CloseCatalogStream(r) ==
  /\ rpc[r] = "close"
  /\ \E ok \in Outcomes :
       /\ Call(r, ok, "returned")
       /\ fin' = [fin EXCEPT ![r] = ok]
  /\ UNCHANGED <<handleVars, envVars, message, answers, objects, serving>>

HandlerStep(r) ==
  \/ HandleAnnounce(r)
  \/ RejectFetch(r)
  \/ AcceptFetch(r)
  \/ SubscribeInterop(r)
  \/ SubscribeUnknown(r)
  \/ SubscribeMoqMI(r)
  \/ SubscribeCatalog(r)
  \/ SubscribeSubtitle(r)
  \/ SubscribeMedia(r)
  \/ OpenCatalogStream(r)
  \/ WriteCatalog(r)
  \/ CloseCatalogStream(r)
-----------------------------------------------------------------------------
Cancel ==
  /\ ~ctxDone /\ ctxDone' = TRUE
  /\ UNCHANGED <<handleVars, gone, wanted, requestVars>>

PeerGone ==
  /\ ~gone /\ gone' = TRUE
  /\ UNCHANGED <<handleVars, ctxDone, wanted, requestVars>>

Next ==
  \/ HandleStep \/ PeerReplies \/ Cancel \/ PeerGone
  \/ \E r \in Requests : Receive(r) \/ HandlerStep(r)

Spec == Init /\ [][Next]_vars

(* The runtime runs every goroutine that can run, the transport ends a     *)
(* handshake one way or the other, and a peer answers announcements.       *)
(* Nothing makes it send requests, or end the context or the connection.   *)
FairSpec ==
  /\ Spec
  /\ WF_vars(HandleStep) /\ WF_vars(PeerReplies)
  /\ \A r \in Requests : WF_vars(HandlerStep(r))
-----------------------------------------------------------------------------
TypeOK ==
  /\ pc \in {"run", "announce", "announcing", "wait", "done"}
  /\ next \in 1 .. Len(Namespaces) + 2
  /\ reply \in {"none", "accepted", "rejected"}
  /\ announced \in Seq({Namespaces[i].namespace : i \in DOMAIN Namespaces}
                          \union {InteropNamespace})
  /\ ctxDone \in BOOLEAN /\ gone \in BOOLEAN /\ wanted \in Wants
  /\ message \in [Requests -> Messages]
  /\ rpc \in [Requests ->
               {"unsent", "called", "open", "write", "close", "returned"}]
  /\ answers \in [Requests -> Seq({"accepted", "rejected"})]
  /\ failed \in [Requests -> BOOLEAN]
  /\ objects \in [Requests -> Nat]
  /\ fin \in [Requests -> BOOLEAN]
  /\ serving \in [Requests -> SUBSET
       [packaging : {"cmaf", "locmaf", "loc", "moqmi", "subtitle"},
        track : AssetTracks \union {SubtitleTrack(n) : n \in Subtitles}]]

(* Every request gets one answer and never two, whichever of the branches  *)
(* of its handler is taken; none only if a call failed.                    *)
AnsweredOnce ==
  \A r \in Requests :
    /\ Len(answers[r]) <= 1
    /\ rpc[r] = "returned" /\ ~failed[r] => Len(answers[r]) = 1

(* What the catalogs promise is served: a subscription to a track listed   *)
(* in the catalog of its namespace starts exactly one goroutine, which     *)
(* publishes, in the packaging the catalog names, the content track that   *)
(* the listed name was made from, protected if and only if the catalog     *)
(* says so.                                                                *)
ServedAsListed(c, s) ==
  /\ s.packaging = IF c.role = "subtitle" THEN "subtitle" ELSE c.packaging
  /\ s.track.type = c.role
  /\ (s.track.protection # "none") = c.protected
  /\ c.name = IF c.packaging = "locmaf" THEN LocmafName(s.track.name) ELSE s.track.name

Subscribed(r) ==
  message[r].method = "subscribe" /\ rpc[r] = "returned" /\ ~failed[r]

CatalogHonoured ==
  \A r \in Requests : Subscribed(r) =>
    \A e \in Entries(r) : \A c \in e.catalog : c.name = message[r].track =>
      \E s \in serving[r] : serving[r] = {s} /\ ServedAsListed(c, s)

(* Nobody gets media with another protection than that of the namespace it *)
(* is asked for in, whatever the name in the subscription: no clear track  *)
(* leaks into a protected namespace, no encrypted one into a clear one.    *)
(* Subtitles are never encrypted.                                          *)
ProtectionOf(namespace) ==
  CASE namespace = "cmsf/drm" -> "drm" [] namespace = "cmsf/eccp" -> "eccp"
    [] OTHER -> "none"

ProtectionKept ==
  \A r \in Requests : \A s \in serving[r] :
    s.packaging # "subtitle" =>
      s.track.protection = ProtectionOf(message[r].namespace)

(* Together: what a listed track is served as, and that nothing unlisted   *)
(* gets another protection.                                                *)
MediaAsListed == CatalogHonoured /\ ProtectionKept

(* A stream that was ended in order carries the catalog, unless it answers *)
(* a FETCH whose range does not cover it.                                  *)
FinMeansCatalog ==
  \A r \in Requests : fin[r] =>
    (objects[r] = 1) =
      \/ message[r].method = "subscribe"
      \/ message[r].start = CatalogLocation

(* Together: a request is answered, and what follows the answer is whole.  *)
AnsweredInFull == AnsweredOnce /\ FinMeansCatalog

(* A FETCH cut in two at any location b inside its range is answered with  *)
(* every object once, if the second starts where what the first covers     *)
(* ends: after the whole group when the end object of the first is 0.      *)
EndOf(b) == IF b.object = 0 THEN [group |-> b.group + 1, object |-> 0] ELSE b

CutsInTwo(loc, start, b, end) ==
  /\ ~LocationLess(EndOf(b), start)
  /\ ~LocationLess(EndOf(end), EndOf(b))
  => (LocationInFetchRange(loc, start, end) <=>
        ~(LocationInFetchRange(loc, start, b) <=>
            LocationInFetchRange(loc, EndOf(b), end)))

FetchRangesPartition ==
  \A r \in Requests :
    rpc[r] = "called" /\ message[r].method = "fetch" =>
      LET end == message[r].end
          upTo == [group : 0 .. end.group + 1, object : 0 .. end.object + 1]
      IN  \A b, loc \in upTo : CutsInTwo(loc, message[r].start, b, end)

(* Every configured namespace is announced to a peer that stays: "the      *)
(* server announces all configured namespaces" (README.md:129).            *)
AllAnnounced ==
  <>(\/ ctxDone \/ gone
     \/ \A i \in DOMAIN Namespaces : \E j \in DOMAIN announced :
          announced[j] = Namespaces[i].namespace)

(* Unlike one that wants a single namespace, a peer that accepts any hears *)
(* all of them.                                                            *)
AnyPeerHearsAll == wanted = "any" => AllAnnounced

(* Cancelling the context ends Handle wherever it is waiting, and a request *)
(* is handled to the end before and after that.                            *)
EverythingEnds ==
  /\ ctxDone ~> pc = "done"
  /\ \A r \in Requests : rpc[r] = "called" ~> rpc[r] = "returned"

=============================================================================
