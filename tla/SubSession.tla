----------------------------- MODULE SubSession -----------------------------
(***************************************************************************)
(* One run of the subscriber (internal/sub/sub.go, internal/sub/moqmi.go): *)
(* RunWithConn with handle, handleMoqMI or runDiscover, the choice of      *)
(* tracks from the catalog, the subscriptions and the goroutine that reads *)
(* each of them.  The catalog comes from CatalogSync, whose goroutine      *)
(* replaces it while tracks are chosen and subscribed to.                  *)
(***************************************************************************)
EXTENDS CatalogSync, Functions

CONSTANTS
  TracksOf,  \* the tracks of each catalog
  Filters,   \* the flags a user may give: names accepted for each role
  Outs,      \* the outputs given
  Mains      \* what the client is asked to do

Roles == {"video", "audio", "subtitle"}

(* supported: the LOCMAF version, or the audio codec for LOC, is one that  *)
(* the subscriber implements.  kid: the id of the key the track is         *)
(* encrypted with; clearKey: one of its protection systems is ClearKey.    *)
(* Tracks of one name have one key.                                        *)
NoKey == "none"
Kids == STRING \union {NoKey}

Track == [name : STRING, role : Roles, packaging : {"cmaf", "locmaf", "loc"},
          supported : BOOLEAN, kid : Kids, clearKey : BOOLEAN]

ASSUME SubAssumption ==
  /\ TracksOf \in [1 .. MaxCatalog -> Seq(Track)]
  /\ Filters \subseteq [Roles -> SUBSET STRING]
  /\ Outs \subseteq Roles \union {"mux"}
  /\ Mains \subseteq {"catalog", "moqmi", "discover"}

VARIABLES
  main,       \* which of the three RunWithConn runs
  filter,     \* VideoName, AudioName, SubsName: the names they match
  pc,         \* where it is
  crash,      \* why the process has panicked, or "no"
  index,      \* of the loop over the catalog's tracks
  count,      \* the number of tracks when it was entered
  chosen,     \* videoTrack, audioTrack, subsTrack
  locWriter,  \* the roles with a LOC writer
  inits,      \* the roles whose init segment was written to its output
  plainInits, \* those of them whose init segment was clear or decrypted
  lostInits,  \* the roles whose init segment could not be written
  muxInits,   \* the roles whose init segment the mux has
  cenc,       \* what decryption needs: made once a track is encrypted
  asked,      \* the catalog of the track a licence is asked for, 0 if none is
  turn,       \* number of the subscription being made
  reader,     \* the reading goroutine of each role
  readAs,     \* packaging and key of the track it reads
  written     \* history: what the goroutines wrote where

flags == <<main, filter>>
choiceVars == <<index, count, chosen, locWriter, inits, plainInits, lostInits, muxInits,
                cenc, asked>>
readVars == <<reader, readAs, written>>
subVars == <<flags, pc, crash, turn, choiceVars, readVars>>
vars == <<syncVars, subVars>>

Nothing == [packaging |-> "none", kid |-> NoKey]

(* What CatalogSync keeps, but for the connection. *)
retrievalVars == <<setting, ctxDone, published, sync, inflight, updater, requestVars,
                   catalogVars>>

Init ==
  /\ SyncInit
  /\ main \in Mains /\ filter \in Filters /\ pc = "run" /\ crash = "no"
  /\ index = 0 /\ count = 0
  /\ chosen = [role \in Roles |-> ""]
  /\ locWriter = {} /\ inits = {} /\ plainInits = {} /\ lostInits = {} /\ muxInits = {}
  /\ cenc = [made |-> FALSE, key |-> NoKey, infos |-> {}] /\ asked = 0
  /\ turn = 1
  /\ reader = [role \in Roles |-> "none"]
  /\ readAs = [role \in Roles |-> Nothing]
  /\ written = {}
-----------------------------------------------------------------------------
(* The session and the catalog *)

RunSession ==
  /\ pc = "run"
  /\ \E ok \in Outcomes :
       /\ pc' = CASE ok /\ main = "catalog" -> "catalog"
                  [] ok /\ main = "moqmi" -> "subscribe"
                  [] ok /\ main = "discover" -> "finished"
                  [] ~ok /\ main = "discover" -> "returned"
                  [] OTHER -> "finished"
       /\ gone' = (gone \/ (~ok /\ main # "discover"))
  /\ UNCHANGED <<retrievalVars, flags, crash, turn, choiceVars, readVars>>

Retrieve ==
  /\ pc = "catalog" /\ RetrieveStep
  /\ UNCHANGED subVars

(* handle gives up: it closes the connection and returns. *)
GiveUp ==
  /\ pc' = "finished" /\ gone' = TRUE
  /\ UNCHANGED <<retrievalVars, flags, crash, turn, choiceVars, readVars>>

RetrievalFailed == pc = "catalog" /\ sync = "failed" /\ GiveUp

(* The loop over h.catalog.Tracks; h.catalog is nil after an early end of  *)
(* the stream.                                                             *)
EnterSelection ==
  /\ pc = "catalog" /\ sync = "ok"
  /\ IF catalog = 0
     THEN crash' = "nil" /\ UNCHANGED <<pc, index, count>>
     ELSE /\ pc' = "select" /\ index' = 1 /\ count' = Len(TracksOf[catalog])
          /\ UNCHANGED crash
  /\ UNCHANGED <<syncVars, flags, turn, chosen, locWriter, inits, plainInits, lostInits,
                 muxInits, cenc, asked, readVars>>
-----------------------------------------------------------------------------
(* The choice of tracks *)

(* Mutant: the last track that matches. *)
PicksLast(t) == t.name \in filter[t.role]

(* The first track of its role whose name matches. *)
Picks(t) == chosen[t.role] = "" /\ t.name \in filter[t.role]

(* Mutant: a LOC track gets its role a LOC writer, chosen or not. *)
NewWriterUnchosen(t) ==
  IF t.packaging = "loc" /\ t.role \in Outs /\ t.supported THEN {t.role} ELSE {}

(* A LOC track needs a writer, a CMAF track an init segment. *)
NewWriter(t) ==
  IF Picks(t) /\ t.packaging = "loc" /\ t.role \in Outs /\ t.supported
  THEN {t.role} ELSE {}

NewInit(t) ==
  IF Picks(t) /\ (t.packaging # "loc" \/ t.role = "subtitle") THEN {t.role} ELSE {}

NewMuxInit(t) == IF "mux" \in Outs THEN NewInit(t) \ {"subtitle"} ELSE {}

Encrypted(t) == t.kid # NoKey

(* The handler of /clearkey: the key is the id of the key. *)
ClearKey(kid) == kid

(* Mutant: the track counts as decryptable before there is a key. *)
CencInfoFirst(t, licence) ==
  CASE licence = "unneeded" -> cenc
    [] licence = "failed"   -> [cenc EXCEPT !.made = TRUE, !.infos = @ \union {t.name}]
    [] licence = "granted"  -> [made |-> TRUE, key |-> ClearKey(t.kid),
                                infos |-> cenc.infos \union {t.name}]

(* One key for all tracks, the last one granted. *)
CencAfter(t, licence) ==
  CASE licence = "unneeded" -> cenc
    [] licence = "failed"   -> [cenc EXCEPT !.made = TRUE]
    [] licence = "granted"  -> [made |-> TRUE, key |-> ClearKey(t.kid),
                                infos |-> cenc.infos \union {t.name}]

(* The init segment is written to the output of the role and handed to the *)
(* mux.  Either may fail, which is logged, and the loop goes on.           *)
WriteInits(t, licence) ==
  /\ \E ok \in SUBSET (NewInit(t) \intersect Outs) :
       /\ inits' = inits \union ok
       /\ plainInits' = IF licence = "failed" THEN plainInits ELSE plainInits \union ok
       /\ lostInits' = lostInits \union ((NewInit(t) \intersect Outs) \ ok)
  /\ \E added \in SUBSET NewMuxInit(t) : muxInits' = muxInits \union added

(* The rest of an iteration, once it is known whether t can be decrypted.  *)
UseTrack(t, licence) ==
  /\ index' = index + 1
  /\ chosen' = IF Picks(t) THEN [chosen EXCEPT ![t.role] = t.name] ELSE chosen
  /\ locWriter' = locWriter \union NewWriter(t)
  /\ cenc' = CencAfter(t, licence)
  /\ WriteInits(t, licence)
  /\ UNCHANGED <<crash, count>>

NotImplemented(t) == t.packaging = "locmaf" /\ ~t.supported

(* One iteration, with the catalog in use now.  A LOCMAF track of another  *)
(* version ends handle, whether or not it would be chosen.  decryptInit,   *)
(* called for every encrypted track, may fail without asking for a         *)
(* licence; the init segment stays as it is.                               *)
SelectTrack ==
  /\ pc = "select" /\ index <= count
  /\ IF index > Len(TracksOf[catalog])
     THEN crash' = "index" /\ UNCHANGED <<pc, choiceVars>>
     ELSE LET t == TracksOf[catalog][index]
          IN  IF NotImplemented(t)
              THEN pc' = "finished" /\ UNCHANGED <<crash, choiceVars>>
              ELSE /\ UseTrack(t, IF Encrypted(t) THEN "failed" ELSE "unneeded")
                   /\ UNCHANGED <<pc, asked>>
  /\ UNCHANGED <<syncVars, flags, turn, readVars>>

(* A track with ClearKey: the licence server is asked, with http.Post,     *)
(* which has neither a context nor a timeout.                              *)
AskLicence ==
  /\ pc = "select" /\ index <= count /\ index <= Len(TracksOf[catalog])
  /\ LET t == TracksOf[catalog][index]
     IN  Encrypted(t) /\ t.clearKey /\ ~NotImplemented(t)
  /\ pc' = "licence" /\ asked' = catalog
  /\ cenc' = [cenc EXCEPT !.made = TRUE]
  /\ UNCHANGED <<syncVars, flags, crash, turn, index, count, chosen, locWriter, inits,
                 plainInits, lostInits, muxInits, readVars>>

(* The server answers, or the request fails.  The iteration goes on with   *)
(* its track, which the catalog in use now may not have any more.          *)
LicenceAnswers ==
  /\ pc = "licence"
  /\ \E licence \in {"granted", "failed"} : UseTrack(TracksOf[asked][index], licence)
  /\ pc' = "select" /\ asked' = 0
  /\ UNCHANGED <<syncVars, flags, turn, readVars>>

EndSelection ==
  /\ pc = "select" /\ index > count
  /\ pc' = "subscribe"
  /\ UNCHANGED <<syncVars, flags, crash, turn, choiceVars, readVars>>
-----------------------------------------------------------------------------
(* The subscriptions *)

Order == <<"video", "audio", "subtitle">>

(* moq-mi has video0 and audio0, wanted if there is an output for them or  *)
(* no muxed output.                                                        *)
Wanted(role) ==
  IF main = "moqmi" THEN role # "subtitle" /\ (role \in Outs \/ "mux" \notin Outs)
  ELSE chosen[role] # ""

(* Mutant: the end of the list is not noticed. *)
SkipTurnPastEnd ==
  /\ pc = "subscribe" /\ (turn <= 3 => ~Wanted(Order[turn]))
  /\ turn' = turn + 1
  /\ UNCHANGED <<syncVars, flags, pc, crash, choiceVars, readVars>>

SkipTurn ==
  /\ pc = "subscribe" /\ turn <= 3 /\ ~Wanted(Order[turn])
  /\ turn' = turn + 1
  /\ UNCHANGED <<syncVars, flags, pc, crash, choiceVars, readVars>>

StartReader(role, packaging, kid) ==
  /\ reader' = [reader EXCEPT ![role] = "reading"]
  /\ readAs' = [readAs EXCEPT ![role] = [packaging |-> packaging, kid |-> kid]]
  /\ turn' = turn + 1
  /\ pc' = "subscribe"

SubscribeTrack ==
  /\ pc = "subscribe" /\ turn <= 3 /\ Wanted(Order[turn]) /\ ~gone
  /\ IF main = "moqmi"
     THEN StartReader(Order[turn], "moqmi", NoKey)
     ELSE pc' = "lookup" /\ UNCHANGED <<turn, reader, readAs>>
  /\ UNCHANGED <<syncVars, flags, crash, choiceVars, written>>

(* A failing subscription ends handle; moq-mi goes on with the next track. *)
SubscribeTrackFails ==
  /\ pc = "subscribe" /\ turn <= 3 /\ Wanted(Order[turn])
  /\ IF main = "moqmi"
     THEN /\ turn' = turn + 1
          /\ UNCHANGED <<syncVars, flags, pc, crash, choiceVars, readVars>>
     ELSE GiveUp

(* The track is looked up in the catalog in use after the answer. *)
LookupTrack ==
  /\ pc = "lookup"
  /\ LET role == Order[turn]
         found == {i \in DOMAIN TracksOf[catalog] :
                     TracksOf[catalog][i].name = chosen[role]}
     IN  IF found = {}
         THEN GiveUp
         ELSE /\ \E i \in found :
                   /\ \A j \in found : i <= j
                   /\ StartReader(role, TracksOf[catalog][i].packaging,
                                  TracksOf[catalog][i].kid)
              /\ UNCHANGED <<syncVars, flags, crash, choiceVars, written>>

AnySubscribed == \E role \in Roles : reader[role] # "none"

(* Mutant: that there is nothing to read goes unnoticed. *)
EndSubscribingAnyway ==
  /\ pc = "subscribe" /\ turn > 3
  /\ pc' = "wait"
  /\ UNCHANGED <<syncVars, flags, crash, turn, choiceVars, readVars>>

EndSubscribing ==
  /\ pc = "subscribe" /\ turn > 3
  /\ IF AnySubscribed
     THEN /\ pc' = "wait"
          /\ UNCHANGED <<syncVars, flags, crash, turn, choiceVars, readVars>>
     ELSE GiveUp

(* <-ctx.Done() of handle, then of RunWithConn or runDiscover. *)
Wait ==
  /\ pc \in {"wait", "finished"} /\ ctxDone
  /\ pc' = IF pc = "wait" THEN "finished" ELSE "returned"
  /\ UNCHANGED <<syncVars, flags, crash, turn, choiceVars, readVars>>

MainStep ==
  \/ RunSession \/ RetrievalFailed \/ EnterSelection
  \/ SelectTrack \/ AskLicence \/ EndSelection
  \/ SkipTurn \/ SubscribeTrack \/ SubscribeTrackFails \/ LookupTrack
  \/ EndSubscribing \/ Wait
-----------------------------------------------------------------------------
(* The reading goroutines *)

(* Where an object of a role goes: to the LOC writer if there is one, else *)
(* to the mux, once it has both init segments, and the output.             *)
MuxReady == muxInits = {"video", "audio"}

Sinks(role) ==
  IF main = "catalog" /\ role \in locWriter THEN {"loc"}
  ELSE (IF main = "catalog" /\ MuxReady THEN {"mux"} ELSE {})
         \union (IF role \in Outs THEN {"file"} ELSE {})

(* Once a track of the catalog is encrypted every object is taken for a    *)
(* fragment to decrypt, which ends the goroutine of a LOC track.  Without  *)
(* the track's decryption info a fragment stays as it is.                  *)
Decryptable(role) == cenc.made => readAs[role].packaging # "loc"

Decrypted(role) ==
  LET kid == readAs[role].kid
  IN  IF kid = NoKey THEN "clear"
      ELSE IF chosen[role] \notin cenc.infos THEN "encrypted"
      ELSE IF cenc.key = kid THEN "clear" ELSE "garbled"

(* The mux has no timescale for subtitles and divides by it. *)
ReadObject(role) ==
  /\ reader[role] = "reading" /\ ~gone /\ Decryptable(role)
  /\ IF role = "subtitle" /\ "mux" \in Sinks(role)
     THEN crash' = "mux" /\ UNCHANGED written
     ELSE /\ written' = written \union
               {[role |-> role, packaging |-> readAs[role].packaging, sink |-> sink,
                 as |-> Decrypted(role)] :
                  sink \in Sinks(role)}
          /\ UNCHANGED crash
  /\ UNCHANGED <<syncVars, flags, pc, turn, choiceVars, reader, readAs>>


ReaderEnds(role) ==
  /\ reader[role] = "reading"
  /\ reader' = [reader EXCEPT ![role] = "ended"]
  /\ UNCHANGED <<syncVars, flags, pc, crash, turn, choiceVars, readAs, written>>
-----------------------------------------------------------------------------
Outside == (Publish \/ CancelSync \/ PeerGone \/ UpdaterStep) /\ UNCHANGED subVars

Next ==
  /\ crash = "no"
  /\ \/ MainStep \/ LicenceAnswers \/ Retrieve \/ Outside
     \/ \E role \in Roles : ReadObject(role) \/ ReaderEnds(role)

Spec == Init /\ [][Next]_vars

(* Goroutines run, the transport ends a request one way or the other, and  *)
(* a done context wakes whoever waits with it.  A retrieval that waits for *)
(* an object is only woken by the context or the end of the connection.    *)
(* Nothing makes a licence server answer, and nothing ends the wait for    *)
(* it.                                                                     *)
Running == crash = "no"
Stopped == ctxDone \/ gone

FairSpec ==
  /\ Spec
  /\ WF_vars(Running /\ MainStep)
  /\ WF_vars(Running /\ pc = "catalog" /\ Requesting /\ UNCHANGED subVars)
  /\ WF_vars(Running /\ pc = "catalog" /\ Woken /\ UNCHANGED subVars)
  /\ WF_vars(Running /\ Stopped /\ UpdaterEnds /\ UNCHANGED subVars)
  /\ \A role \in Roles : WF_vars(Running /\ Stopped /\ ReaderEnds(role))
-----------------------------------------------------------------------------
TypeOK ==
  /\ SyncTypeOK
  /\ main \in Mains /\ filter \in Filters
  /\ pc \in {"run", "catalog", "select", "licence", "subscribe", "lookup", "wait",
             "finished", "returned"}
  /\ crash \in {"no", "nil", "index", "mux"}
  /\ count \in Nat /\ index \in 0 .. count + 1
  /\ chosen \in [Roles -> STRING \union {""}]
  /\ locWriter \subseteq Outs /\ inits \subseteq Outs /\ plainInits \subseteq inits
  /\ lostInits \subseteq Outs
  /\ muxInits \subseteq {"video", "audio"}
  /\ cenc \in [made : BOOLEAN, key : Kids, infos : SUBSET STRING]
  /\ asked \in 0 .. published
  /\ turn \in 1 .. 4
  /\ reader \in [Roles -> {"none", "reading", "ended"}]
  /\ readAs \in [Roles -> [packaging : {"none", "cmaf", "locmaf", "loc", "moqmi"},
                           kid : Kids]]
  /\ written \subseteq [role : Roles, packaging : {"cmaf", "locmaf", "loc", "moqmi"},
                        sink : {"loc", "mux", "file"},
                        as : {"clear", "encrypted", "garbled"}]

(* "It subscribes to the first video and audio track from the catalog or   *)
(* tracks that match" (README.md:142): what is chosen is the first match   *)
(* of each role in one catalog, not a mix of several.                      *)
FirstMatch(v, role) ==
  LET matches == {i \in DOMAIN TracksOf[v] : /\ TracksOf[v][i].role = role
                                             /\ TracksOf[v][i].name \in filter[role]}
  IN  IF matches = {} THEN ""
      ELSE TracksOf[v][CHOOSE i \in matches : \A j \in matches : i <= j].name

ChosenFromOneCatalog ==
  pc \in {"subscribe", "lookup", "wait"} /\ main = "catalog" =>
    \E i \in DOMAIN applied : \A role \in Roles :
      chosen[role] = FirstMatch(applied[i], role)

(* What the subscriber has been told of the LOC and LOCMAF tracks it does  *)
(* not implement.                                                          *)
Unsupported(packaging) ==
  {t \in UNION {Range(TracksOf[applied[i]]) : i \in DOMAIN applied} :
     t.packaging = packaging /\ ~t.supported}

(* Objects go where their packaging belongs: raw LOC frames only through a *)
(* LOC writer, never into the mux, and nothing else through a LOC writer,  *)
(* but for LOC audio that cannot be framed, which is written raw to its    *)
(* output (sub.go:294).  An output with CMAF objects either begins with    *)
(* their init segment or has lost it to a write that failed; there is no   *)
(* third way to it, whatever the catalog became between the choice and the *)
(* subscription.                                                           *)
SinksFit ==
  \A w \in written :
    /\ \/ (w.packaging = "loc") <=> (w.sink = "loc")
       \/ /\ w.packaging = "loc" /\ w.sink = "file"
          /\ \E t \in Unsupported("loc") : t.name = chosen[w.role]
    /\ w.packaging \in {"cmaf", "locmaf"} /\ w.sink = "file" =>
         w.role \in inits \union lostInits

(* Init segment and objects of an output agree: both can be decoded, or    *)
(* both are encrypted because no licence was given for the track; and an   *)
(* object is only decrypted with a wrong key if the catalogs name several, *)
(* of which the subscriber keeps the last.                                 *)
KeysOffered ==
  {t.kid : t \in UNION {Range(TracksOf[applied[i]]) : i \in DOMAIN applied}} \ {NoKey}

DecryptedAsInit ==
  \A w \in written :
    /\ w.packaging \in {"cmaf", "locmaf"} /\ w.sink = "file" =>
         (w.role \in inits => ((w.as = "encrypted") <=> (w.role \notin plainInits)))
    /\ w.as = "garbled" => Cardinality(KeysOffered) > 1

(* Whoever gives up closes the connection, so that a run that is over is   *)
(* never mistaken for one that is waiting for media; but for a LOCMAF      *)
(* track of another version, met before anything was subscribed to         *)
(* (sub.go:200).                                                           *)
GivesUpClosing ==
  pc \in {"finished", "returned"} =>
    \/ ctxDone \/ gone \/ main = "discover"
    \/ Unsupported("locmaf") # {} /\ ~AnySubscribed

(* A run that waits reads every track it wanted, and at least one; with a  *)
(* catalog none of them failed to be subscribed to.                        *)
WaitsForMedia ==
  pc = "wait" =>
    /\ AnySubscribed
    /\ \A role \in Roles : reader[role] # "none" => Wanted(role)
    /\ main = "catalog" => \A role \in Roles : Wanted(role) => reader[role] # "none"

(* Together: a run either is over and says so, or waits for media that is  *)
(* on its way.                                                             *)
RunSettled == GivesUpClosing /\ WaitsForMedia

(* When the context ends no goroutine is left and RunWithConn returns,     *)
(* unless it waits for a licence for ever: the context stays done and the  *)
(* loop over the tracks is finite, so a server that answers only delays    *)
(* the end.                                                                *)
AllEnd ==
  /\ updater # "run" /\ \A role \in Roles : reader[role] # "reading"
  /\ pc \in {"returned", "licence"}


(* "The client retrieves the catalog track first, then subscribes to the  *)
(* media tracks listed in that catalog" (README.md:130): whoever chooses   *)
(* tracks has a catalog to choose from.                                    *)
CatalogFirst == crash # "nil"

(* "CmafMux multiplexes video and audio CMAF tracks into a single output"  *)
(* (mux.go:20): nothing else gets there.                                   *)
MuxIsForVideoAndAudio == crash # "mux"
-----------------------------------------------------------------------------
(* A publisher that changes its catalog by appending tracks: a name stands *)
(* for one track, with one role, packaging and key, at one place of every  *)
(* catalog that has it.                                                    *)
Named == \A v \in 1 .. MaxCatalog : \A i \in DOMAIN TracksOf[v] : TracksOf[v][i].name # ""

OnePlace ==
  \A u, v \in 1 .. MaxCatalog :
    \A i \in DOMAIN TracksOf[u], j \in DOMAIN TracksOf[v] :
      LET t == TracksOf[u][i]
          s == TracksOf[v][j]
      IN  /\ t.name = s.name <=> i = j
          /\ i = j => t.role = s.role /\ t.packaging = s.packaging /\ t.kid = s.kid

CatalogsGrow == Named /\ OnePlace
=============================================================================
