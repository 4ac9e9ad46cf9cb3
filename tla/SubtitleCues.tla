---------------------------- MODULE SubtitleCues ----------------------------
(***************************************************************************)
(* The generated subtitles (internal/subtitle.go).  A group shows a text   *)
(* for each UTC second it covers, from the beginning of the second for     *)
(* cueDurMS milliseconds; the rest of the group is filled with empty       *)
(* samples.  An interval has startMS and endMS; utcS is the second whose   *)
(* time of day is its text.                                                *)
(***************************************************************************)
EXTENDS Timeline

CONSTANT Layouts  \* durations of a group and of a cue in milliseconds

DefaultCueDurMS == 900

(* The program has groups of a second and cues of DefaultCueDurMS.  A cue  *)
(* longer than a second, which calcCueItvls steps over in whole seconds,   *)
(* or a group that begins within a second are not considered.              *)
ASSUME LayoutsAssumption ==
  /\ Layouts \subseteq [groupDurMS : Nat \ {0}, cueDurMS : 1 .. 1000]
  /\ \A l \in Layouts : l.groupDurMS % 1000 = 0

NoText == -1

(* cueFullS: a cue in whole seconds, and the distance between two cues. *)
CueFullS(cueDur) == CeilDiv(cueDur, 1000)

(* Mutant: the second that begins where the segment ends has a cue. *)
CueSecondsToEnd(utcStart, segDur, cueDur) ==
  LET step == CueFullS(cueDur)
      first == utcStart \div (step * 1000)
  IN  {u \in first .. (utcStart + segDur) \div (step * 1000) : (u - first) % step = 0}

(* The loop of calcCueItvls, up to where it breaks. *)
CueSeconds(utcStart, segDur, cueDur) ==
  LET step == CueFullS(cueDur)
      first == utcStart \div (step * 1000)
  IN  {u \in first .. (utcStart + segDur) \div (step * 1000) :
         (u - first) % step = 0 /\ u * 1000 # utcStart + segDur}

(* The cue of second u, clipped to the segment and moved to media time. *)
CueItvl(u, segStart, segDur, utcStart, cueDur) ==
  LET start == IF u * 1000 < utcStart THEN utcStart ELSE u * 1000
      end == MinOf(u * 1000 + cueDur, utcStart + segDur)
  IN  [utcS |-> u, startMS |-> start + (segStart - utcStart),
       endMS |-> end + (segStart - utcStart)]

CalcCueItvls(segStart, segDur, utcStart, cueDur) ==
  {CueItvl(u, segStart, segDur, utcStart, cueDur) :
     u \in CueSeconds(utcStart, segDur, cueDur)}

(* createSubtitlesWvttMediaData: an empty sample wherever the next cue, or *)
(* the end of the segment, is later than the end of the cue before it.     *)
WvttGap(start, end) == [utcS |-> NoText, startMS |-> start, endMS |-> end]

WvttSamples(base, dur, cueDur) ==
  LET cues == CalcCueItvls(base, dur, base, cueDur)
      ends == {base} \union {c.endMS : c \in cues}
      starts == {c.startMS : c \in cues} \union {base + dur}
      currEnd(s) == CHOOSE e \in ends : /\ e <= s
                                        /\ \A d \in ends : d <= s => d <= e
  IN  cues \union {WvttGap(currEnd(s), s) : s \in {r \in starts : currEnd(r) < r}}

(* createSubtitlesStppMediaData: one document for the segment, with times  *)
(* as TTML writes them.                                                    *)
MsToTTMLTime(ms) ==
  [hours |-> ms \div 3600000, minutes |-> (ms % 3600000) \div 60000,
   seconds |-> (ms % 60000) \div 1000, millis |-> ms % 1000]

StppCues(base, dur, cueDur) ==
  {[utcS |-> c.utcS, begin |-> MsToTTMLTime(c.startMS), end |-> MsToTTMLTime(c.endMS)] :
     c \in CalcCueItvls(base, dur, base, cueDur)}

(* GenSubtitleGroup: the media time of a group is UTC. *)
GenSubtitleGroup(groupNr, layout) ==
  LET base == groupNr * layout.groupDurMS
  IN  [wvtt |-> WvttSamples(base, layout.groupDurMS, layout.cueDurMS),
       stpp |-> StppCues(base, layout.groupDurMS, layout.cueDurMS)]
-----------------------------------------------------------------------------
Tiles(samples, start, end) ==
  /\ \E s \in samples : s.startMS = start
  /\ \A s \in samples :
       /\ s.startMS \in start .. s.endMS - 1
       /\ s.endMS = end \/ \E r \in samples : r.startMS = s.endMS
       /\ \A r \in samples : r = s \/ r.endMS <= s.startMS \/ s.endMS <= r.startMS

(* What a player makes of the times in a document. *)
Millis(t) == ((t.hours * 60 + t.minutes) * 60 + t.seconds) * 1000 + t.millis

Shown(document) ==
  {[utcS |-> c.utcS, startMS |-> Millis(c.begin), endMS |-> Millis(c.end)] : c \in document}

(* A viewer sees the right time of day whichever group is shown and        *)
(* wherever it is joined: the samples of a group cover it without overlap, *)
(* none is empty, and each second of the group is told exactly once, from  *)
(* its beginning for the duration of a cue.  So no cue is lost, doubled or *)
(* cut at a group boundary, and both formats show the same.                *)
CuesTellTheTime ==
  \A l \in Layouts :
    LET group == GenSubtitleGroup(nr, l)
        start == nr * l.groupDurMS
        end == (nr + 1) * l.groupDurMS
        told == {[utcS |-> u, startMS |-> u * 1000, endMS |-> u * 1000 + l.cueDurMS] :
                   u \in start \div 1000 .. end \div 1000 - 1}
    IN  /\ Tiles(group.wvtt, start, end)
        /\ {s \in group.wvtt : s.utcS # NoText} = told
        /\ Shown(group.stpp) = told
=============================================================================
