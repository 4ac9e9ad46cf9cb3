--------------------------- MODULE TrackPublisher ---------------------------
(***************************************************************************)
(* The publishing goroutines of internal/pub: one per accepted media       *)
(* subscription, each looping over groups, opening one subgroup stream per *)
(* group and writing its objects paced to the wall clock.  The five        *)
(* functions PublishTrack, PublishLOCTrack, PublishSubtitleTrack,          *)
(* publishMoqMIVideo and publishMoqMIAudio share one loop; where they      *)
(* differ (layout: TrackLayout; what is closed when the goroutine gives    *)
(* up; moq-mi audio waits before it opens the stream) the actions say so.  *)
(*                                                                         *)
(* All goroutines run under the server's context.  They are preempted      *)
(* between any two calls, the context may be cancelled and the peer may go *)
(* away at any moment, and any call on a stream may fail.                  *)
(***************************************************************************)
EXTENDS TrackLayout, Sequences

CONSTANTS
  Subs,       \* media subscriptions (one goroutine each)
  Tracks,     \* tracks a subscription may be for
  StartClock, \* wall clock at the beginning
  Ticks,      \* steps by which the wall clock is seen to advance
  MaxClock    \* bound on the wall clock

ASSUME TracksAssumption == \A t \in Tracks : LoadedTrack(t)

ASSUME ClockAssumption ==
  /\ StartClock \in Nat
  /\ MaxClock \in Nat
  /\ Ticks \subseteq Nat \ {0}

VARIABLES
  clock,    \* time.Now().UnixMilli()
  ctxDone,  \* the server's context is cancelled
  gone,     \* the peer's connection is lost: every later stream call fails
  track,    \* the content track the subscription is for
  pc,       \* where the goroutine is
  group,    \* groupNr (frameNr for moq-mi audio)
  object,   \* number of the next object in the group
  seqID,    \* moq-mi's running sequence number
  streams,  \* history: the subgroup streams opened, in order
  late      \* history: objects written after the context was cancelled

subVars == <<pc, group, object, seqID, streams, late>>
vars == <<clock, ctxDone, gone, track, subVars>>

PCs == {"idle", "top", "open", "object", "sleep", "write", "close", "done"}

Live(s) == pc[s] \notin {"idle", "done"}

(* The outcomes of a stream call: it may always fail, and cannot succeed   *)
(* once the peer is gone.                                                  *)
Outcomes(s) == IF gone[s] THEN {FALSE} ELSE BOOLEAN

Init ==
  /\ clock = StartClock
  /\ ctxDone = FALSE
  /\ gone = [s \in Subs |-> FALSE]
  /\ track \in [Subs -> Tracks]
  /\ pc = [s \in Subs |-> "idle"]
  /\ group = [s \in Subs |-> 0]
  /\ object = [s \in Subs |-> 0]
  /\ seqID = [s \in Subs |-> 0]
  /\ streams = [s \in Subs |-> << >>]
  /\ late = [s \in Subs |-> 0]

Goto(s, loc) == pc' = [pc EXCEPT ![s] = loc]

Due(s) == DueMS(track[s], group[s], object[s])

(* Mutant: moq-mi's counter starts at zero for every subscriber. *)
SubscribeFromZero(s) ==
  /\ pc[s] = "idle"
  /\ Playable(track[s])
  /\ Goto(s, "top")
  /\ group' = [group EXCEPT ![s] = StartGroup(track[s], clock)]
  /\ UNCHANGED <<clock, ctxDone, gone, track, object, seqID, streams, late>>

(* The subscribe handler starts the goroutine, which picks its first group *)
(* or returns at once: the track cannot be played, or no AVC decoder       *)
(* configuration record can be built for it (moq-mi video).                *)
Subscribe(s) ==
  /\ pc[s] = "idle"
  /\ \/ /\ Playable(track[s])
        /\ Goto(s, "top")
        /\ group' = [group EXCEPT ![s] = StartGroup(track[s], clock)]
        /\ seqID' = [seqID EXCEPT ![s] = GroupFirst(track[s], group'[s])]
     \/ /\ ~Playable(track[s]) \/ track[s].packaging = "moqmiVideo"
        /\ Goto(s, "done")
        /\ UNCHANGED <<group, seqID>>
  /\ UNCHANGED <<clock, ctxDone, gone, track, object, streams, late>>

(* Top of the group loop: give up if the context is done. *)
LoopTop(s) ==
  /\ pc[s] = "top"
  /\ Goto(s, IF ctxDone THEN "done"
             ELSE IF track[s].packaging = "moqmiAudio" /\ clock < Due(s) THEN "sleep"
             ELSE "open")
  /\ UNCHANGED <<clock, ctxDone, gone, track, group, object, seqID, streams, late>>

(* OpenSubgroup.  PublishTrack and PublishSubtitleTrack then generate the  *)
(* whole group; when that fails they return and leave the stream open.     *)
OpenSubgroup(s) ==
  /\ pc[s] = "open"
  /\ \E ok \in Outcomes(s), generated \in BOOLEAN :
       /\ ~generated => ok /\ track[s].packaging \in {"cmaf", "locmaf", "subtitle"}
       /\ streams' = IF ok
                     THEN [streams EXCEPT ![s] =
                             Append(@, [group |-> group[s], objects |-> 0, fin |-> FALSE])]
                     ELSE streams
       /\ Goto(s, IF ~ok \/ ~generated THEN "done"
                  ELSE IF track[s].packaging = "moqmiAudio" THEN "write"
                  ELSE "object")
  /\ UNCHANGED <<clock, ctxDone, gone, track, group, object, seqID, late>>

Current(s) == streams[s][Len(streams[s])]

ReplaceLast(seq, st) == [seq EXCEPT ![Len(seq)] = st]

EndStream(s) ==
  streams' = [streams EXCEPT ![s] = ReplaceLast(@, [Current(s) EXCEPT !.fin = TRUE])]

(* Mutants: the stream is always closed; the group is tried again; the     *)
(* failure is only logged.                                                 *)
GiveUpClosing(s) == Goto(s, "done") /\ EndStream(s)
RetryGroup(s) == Goto(s, "open") /\ EndStream(s)
CarryOn(s) == Goto(s, "object") /\ UNCHANGED streams

(* The goroutine gives up with its stream open.  Only the LOC and moq-mi   *)
(* audio publishers try to close it, ignoring whether that works.          *)
GiveUp(s) ==
  /\ Goto(s, "done")
  /\ \E closed \in IF track[s].packaging \in {"loc", "moqmiAudio"}
                   THEN Outcomes(s) ELSE {FALSE} :
       IF closed THEN EndStream(s) ELSE UNCHANGED streams

(* Mutant: the context is not tested between objects. *)
NextObjectUnchecked(s) ==
  /\ pc[s] = "object"
  /\ Goto(s, IF object[s] = GroupObjects(track[s], group[s]) THEN "close"
             ELSE IF clock < Due(s) THEN "sleep" ELSE "write")
  /\ UNCHANGED <<clock, ctxDone, gone, track, group, object, seqID, streams, late>>

(* Top of the object loop: end of the group, cancelled, or wait till due. *)
NextObject(s) ==
  /\ pc[s] = "object"
  /\ \/ /\ object[s] = GroupObjects(track[s], group[s])
        /\ Goto(s, "close")
        /\ UNCHANGED streams
     \/ /\ object[s] # GroupObjects(track[s], group[s])
        /\ ctxDone
        /\ GiveUp(s)
     \/ /\ object[s] # GroupObjects(track[s], group[s])
        /\ ~ctxDone
        /\ Goto(s, IF clock < Due(s) THEN "sleep" ELSE "write")
        /\ UNCHANGED streams
  /\ UNCHANGED <<clock, ctxDone, gone, track, group, object, seqID, late>>

(* Mutants: a timer that must be seen at the very millisecond; a sleep     *)
(* that notices the cancellation only when it is over.                     *)
TimerMissed(s) ==
  /\ pc[s] = "sleep"
  /\ clock = Due(s)
  /\ Goto(s, IF track[s].packaging = "moqmiAudio" THEN "open" ELSE "write")
  /\ UNCHANGED <<clock, ctxDone, gone, track, group, object, seqID, streams, late>>

SleepThrough(s) ==
  /\ pc[s] = "sleep"
  /\ ctxDone
  /\ clock >= Due(s)
  /\ GiveUp(s)
  /\ UNCHANGED <<clock, ctxDone, gone, track, group, object, seqID, late>>

(* The select over ctx.Done() and time.After: when both are ready the      *)
(* runtime picks either.                                                   *)
TimerFires(s) ==
  /\ pc[s] = "sleep"
  /\ clock >= Due(s)
  /\ Goto(s, IF track[s].packaging = "moqmiAudio" THEN "open" ELSE "write")
  /\ UNCHANGED <<clock, ctxDone, gone, track, group, object, seqID, streams, late>>

SleepCancelled(s) ==
  /\ pc[s] = "sleep"
  /\ ctxDone
  /\ IF track[s].packaging = "moqmiAudio"
     THEN Goto(s, "done") /\ UNCHANGED streams
     ELSE GiveUp(s)
  /\ UNCHANGED <<clock, ctxDone, gone, track, group, object, seqID, late>>

WriteObject(s) ==
  /\ pc[s] = "write"
  /\ \E ok \in Outcomes(s) :
       \/ /\ ok
          /\ streams' = [streams EXCEPT ![s] =
                           ReplaceLast(@, [Current(s) EXCEPT !.objects = @ + 1])]
          /\ object' = [object EXCEPT ![s] = @ + 1]
          /\ seqID' = [seqID EXCEPT ![s] =
                         IF track[s].packaging = "moqmiVideo" THEN @ + 1 ELSE @]
          /\ late' = [late EXCEPT ![s] = IF ctxDone THEN @ + 1 ELSE @]
          /\ Goto(s, "object")
       \/ /\ ~ok
          /\ GiveUp(s)
          /\ UNCHANGED <<object, seqID, late>>
  /\ UNCHANGED <<clock, ctxDone, gone, track, group>>

CloseSubgroup(s) ==
  /\ pc[s] = "close"
  /\ \E ok \in Outcomes(s) :
       \/ /\ ok
          /\ EndStream(s)
          /\ group' = [group EXCEPT ![s] = @ + 1]
          /\ object' = [object EXCEPT ![s] = 0]
          /\ seqID' = [seqID EXCEPT ![s] =
                         IF track[s].packaging = "moqmiAudio" THEN @ + 1 ELSE @]
          /\ Goto(s, "top")
       \/ /\ ~ok
          /\ Goto(s, "done")
          /\ UNCHANGED <<group, object, seqID, streams>>
  /\ UNCHANGED <<clock, ctxDone, gone, track, late>>

Tick ==
  /\ \E d \in Ticks : clock + d <= MaxClock /\ clock' = clock + d
  /\ UNCHANGED <<ctxDone, gone, track, subVars>>

Cancel ==
  /\ ~ctxDone
  /\ ctxDone' = TRUE
  /\ UNCHANGED <<clock, gone, track, subVars>>

PeerGone(s) ==
  /\ ~gone[s]
  /\ gone' = [gone EXCEPT ![s] = TRUE]
  /\ UNCHANGED <<clock, ctxDone, track, subVars>>

(* One step of the goroutine of subscription s. *)
Step(s) ==
  \/ LoopTop(s)
  \/ OpenSubgroup(s)
  \/ NextObject(s)
  \/ TimerFires(s)
  \/ SleepCancelled(s)
  \/ WriteObject(s)
  \/ CloseSubgroup(s)

Next ==
  \/ Tick
  \/ Cancel
  \/ \E s \in Subs : Subscribe(s) \/ PeerGone(s) \/ Step(s)

Spec == Init /\ [][Next]_vars

(* The Go scheduler runs every goroutine that can run; nothing makes peers *)
(* subscribe, the context end or a connection fail.                        *)
FairSpec == Spec /\ WF_vars(Tick) /\ \A s \in Subs : WF_vars(Step(s))
-----------------------------------------------------------------------------
TypeOK ==
  /\ clock \in Nat
  /\ ctxDone \in BOOLEAN
  /\ gone \in [Subs -> BOOLEAN]
  /\ track \in [Subs -> Tracks]
  /\ pc \in [Subs -> PCs]
  /\ group \in [Subs -> Nat]
  /\ object \in [Subs -> Nat]
  /\ seqID \in [Subs -> Nat]
  /\ streams \in [Subs -> Seq([group : Nat, objects : Nat, fin : BOOLEAN])]
  /\ late \in [Subs -> Nat]

(* Group after group: a subscription's streams carry consecutive groups,   *)
(* and a stream is opened only once the one before it holds all objects of *)
(* its group and has been ended, however late the goroutine runs: it never *)
(* skips a group to catch up and never has two streams in progress.        *)
GroupsFollowOn ==
  \A s \in Subs : \A i \in 1 .. Len(streams[s]) - 1 :
    /\ streams[s][i + 1].group = streams[s][i].group + 1
    /\ streams[s][i].fin
    /\ streams[s][i].objects = GroupObjects(track[s], streams[s][i].group)

(* A subgroup stream that is ended in order (FIN) tells the subscriber     *)
(* that its group is complete.  The publishers of CMAF, LOCMAF, subtitles  *)
(* and moq-mi video keep to this even when they are cancelled or fail in   *)
(* the middle of a group, by not closing the stream; the others break it   *)
(* only with the last stream of a goroutine that is giving up.             *)
FinMeansComplete ==
  \A s \in Subs : \A i \in DOMAIN streams[s] :
    LET st == streams[s][i]
    IN  st.fin /\ st.objects # GroupObjects(track[s], st.group)
          => /\ track[s].packaging \in {"loc", "moqmiAudio"}
             /\ pc[s] = "done"
             /\ i = Len(streams[s])

(* After the context is cancelled a goroutine writes at most the one       *)
(* object it had already decided to write, although it tests the context   *)
(* only between objects and the select may prefer the timer.               *)
AtMostOneLateObject == \A s \in Subs : late[s] <= 1

(* moq-mi numbers its objects with a counter of its own that is bumped per *)
(* object (video) or per group (audio); whenever an object is written the  *)
(* counter is the number of the sample in it, so that subscribers that     *)
(* joined at different times see the same number on the same sample.       *)
SeqIDNamesSample ==
  \A s \in Subs :
    pc[s] = "write" /\ track[s].packaging \in {"moqmiVideo", "moqmiAudio"}
      => seqID[s] = Position(track[s], group[s], object[s])

(* A new subscription starts at the next group boundary: the first sample  *)
(* of its first group is at most one group period away.                    *)
JoinsWithin(s, periodMS) ==
  SampleTimeMS(track[s], GroupFirst(track[s], group'[s])) <= clock + periodMS

Joining(s) == pc[s] = "idle" /\ pc'[s] = "top"

JoinsNextGroup ==
  [][\A s \in Subs : Joining(s) =>
       CASE track[s].packaging = "moqmiVideo" -> TRUE
         [] track[s].packaging = "moqmiAudio" ->
              JoinsWithin(s, SampleTimeMS(track[s], 1) + 1)
         [] OTHER -> JoinsWithin(s, MoqGroupDurMS + SampleTimeMS(track[s], 1) + 1)]_vars

(* publishMoqMIVideo: "Align start with the next GOP boundary in wallclock *)
(* time so multiple subscribers joining separately land on the same        *)
(* grouping" (internal/pub/moqmi.go:66).  A GOP that is not a whole number *)
(* of milliseconds is truncated, and the error is multiplied by the number *)
(* of GOPs since 1970: the first group lies far in the future.             *)
JoinsNextGop ==
  [][\A s \in Subs : Joining(s) /\ track[s].packaging = "moqmiVideo" =>
       JoinsWithin(s, SampleTimeMS(track[s], track[s].gopLength) + 1)]_vars

(* What the subscriber sees of each goroutine is a live track.             *)
Subscription == INSTANCE LiveTrack WITH
  media <- [s \in Subs |->
              [timeScale |-> track[s].timeScale, sampleDur |-> track[s].sampleDur,
               chunk |-> Batch(track[s]),
               pacedBy |-> IF Batched(track[s]) THEN "end" ELSE "start"]],
  status <- [s \in Subs |-> IF pc[s] = "idle" THEN "idle"
                            ELSE IF pc[s] = "done" THEN "stopped" ELSE "live"],
  next <- [s \in Subs |-> IF pc[s] = "idle" THEN 0
                          ELSE Position(track[s], group[s], object[s])]

(* The publishers deliver every sample once, in order, without a gap, in   *)
(* chunks of at most a batch, never ahead of the wall clock, across group  *)
(* boundaries and in spite of failures and cancellation.                   *)
ImplementsLiveTrack == Subscription!Spec

(* A goroutine that runs behind the wall clock, after any delay, catches   *)
(* up with it or ends: late objects are sent without waiting.              *)
Behind(s) ==
  /\ Live(s)
  /\ \/ object[s] < GroupObjects(track[s], group[s]) /\ Due(s) <= clock
     \/ DueMS(track[s], group[s] + 1, 0) <= clock

CatchesUp == \A s \in Subs : Behind(s) ~> ~Behind(s)

(* Cancelling the context ends every goroutine, one asleep included; and a *)
(* goroutine whose peer is gone does not publish into the void for ever:   *)
(* it ends once its next object is due.                                    *)
GoroutinesEnd ==
  \A s \in Subs :
    /\ (ctxDone /\ Live(s)) ~> pc[s] = "done"
    /\ (gone[s] /\ Behind(s)) ~> pc[s] = "done"
=============================================================================
