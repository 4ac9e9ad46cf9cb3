---------------------------- MODULE GroupTiming ----------------------------
(***************************************************************************)
(* The arithmetic that ties sample numbers, MoQ groups and the wall clock  *)
(* together (internal/moqgroup.go and ContentTrack.CalcSample of           *)
(* internal/asset.go).                                                     *)
(*                                                                         *)
(* Sample n of a track starts n * sampleDur units of 1/timeScale s after   *)
(* the Unix epoch.  Group numbers count periods of durMS milliseconds from *)
(* the same origin, so every subscription that asks for group nr gets the  *)
(* same samples.  A track is a record with the fields of ContentTrack that *)
(* the arithmetic reads:                                                   *)
(*   timeScale, sampleDur, sampleBatch, gopLength, nrSamples, loopDur      *)
(*                                                                         *)
(* A definition marked "Mutant" is a wrong form of the one after it; no    *)
(* specification uses it, it shows which property would notice.            *)
(***************************************************************************)
EXTENDS Integers

MoqGroupDurMS == 1000

CeilDiv(a, b) == IF a % b # 0 THEN a \div b + 1 ELSE a \div b

MinOf(a, b) == IF a <= b THEN a ELSE b

(* Time in the track's timescale at which group nr begins. *)
GroupStartTime(ct, nr, durMS) == (nr * durMS * ct.timeScale) \div 1000

(* Mutant: the sample in progress at the beginning of the group. *)
GroupStartNrTruncated(ct, nr, durMS) == GroupStartTime(ct, nr, durMS) \div ct.sampleDur

(* First sample that starts at or after the beginning of group nr. *)
GroupStartNr(ct, nr, durMS) ==
  CeilDiv(GroupStartTime(ct, nr, durMS), ct.sampleDur)

(* calcMoQGroup: samples startNr .. endNr-1 belong to group nr. *)
CalcMoQGroup(ct, nr, durMS) ==
  [startNr |-> GroupStartNr(ct, nr, durMS),
   endNr   |-> GroupStartNr(ct, nr + 1, durMS)]

(* Mutant: the next boundary instead of the last. *)
NextMoQGroupNr(nowMS, durMS) == CeilDiv(nowMS, durMS)

(* Mutant: an epoch that may lie ahead of the clock. *)
GroupNrSinceStart(nowMS, durMS) == (nowMS - 4 * durMS) \div durMS

CurrMoQGroupNr(nowMS, durMS) == nowMS \div durMS

(* GenMoQGroup: object k of a group carries the samples of the k-th step   *)
(* of the loop over [startNr, endNr) in strides of sampleBatch.            *)
NrObjects(grp, batch) == CeilDiv(grp.endNr - grp.startNr, batch)

ObjectFirst(grp, batch, k) == MinOf(grp.startNr + k * batch, grp.endNr)

(* Mutant: due when its first sample starts. *)
ObjectStartMS(ct, startNr, k) ==
  ((startNr * ct.sampleDur + k * ct.sampleDur * ct.sampleBatch) * 1000) \div ct.timeScale

(* WriteMoQGroup: the wall-clock millisecond at which object k is due.     *)
(* The code multiplies by a float factor and truncates; the rounding of    *)
(* that product, below one millisecond, is not modelled.                   *)
ObjectDueMS(ct, startNr, k) ==
  ((startNr * ct.sampleDur + (k + 1) * ct.sampleDur * ct.sampleBatch) * 1000)
     \div ct.timeScale

(* Mutant: the restart moved down to a sample boundary. *)
WrapTimeRoundedDown(ct, nr) ==
  LET wrap == ((nr * ct.sampleDur) \div ct.loopDur) * ct.loopDur
  IN  wrap - (wrap % ct.sampleDur)

(* CalcSample: output sample nr plays the stored sample CalcSample(ct, nr).*)
(* The loop restarts at every multiple of loopDur, moved up to the next    *)
(* sample boundary.  All operands are uint64 in the code: the subtraction  *)
(* must never go below zero.                                               *)
WrapTime(ct, nr) ==
  LET wrap == ((nr * ct.sampleDur) \div ct.loopDur) * ct.loopDur
  IN  IF wrap % ct.sampleDur > 0
      THEN wrap + (ct.sampleDur - (wrap % ct.sampleDur))
      ELSE wrap

CalcSample(ct, nr) == (nr * ct.sampleDur - WrapTime(ct, nr)) \div ct.sampleDur
=============================================================================
