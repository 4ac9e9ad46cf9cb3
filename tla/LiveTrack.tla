----------------------------- MODULE LiveTrack -----------------------------
(***************************************************************************)
(* What a subscription to a live track is promised, whatever the packaging *)
(* and whatever goes wrong underneath: from the sample it joins at, every  *)
(* sample is delivered once, in order and without a gap, in chunks of      *)
(* bounded size, and never before the wall clock reaches it.  A delivery   *)
(* may stop at any time and never resumes.                                 *)
(***************************************************************************)
EXTENDS Integers

CONSTANT Subs

VARIABLES
  clock,    \* wall clock, milliseconds since the epoch of the samples
  media,    \* per subscription: timeScale, sampleDur, chunk, pacedBy
  status,   \* per subscription: "idle", "live" or "stopped"
  next      \* per subscription: the next sample it will receive

vars == <<clock, media, status, next>>

(* Sample n's time, in units of 1/(1000 * timeScale) s. *)
MediaTime(m, n) == n * m.sampleDur * 1000

(* A whole millisecond has passed the given media time. *)
Reached(m, n) == MediaTime(m, n) < (clock + 1) * m.timeScale

Init ==
  /\ clock \in Nat
  /\ status = [s \in Subs |-> "idle"]
  /\ next = [s \in Subs |-> 0]

(* Joining never reaches back to media that had begun before. *)
Join(s) ==
  /\ status[s] = "idle"
  /\ status' = [status EXCEPT ![s] = "live"]
  /\ next'[s] \in Nat
  /\ next'[s] * media[s].sampleDur >= (clock * media[s].timeScale) \div 1000
  /\ next' = [next EXCEPT ![s] = next'[s]]
  /\ UNCHANGED <<clock, media>>

(* The samples next .. next'-1 are delivered as one chunk. *)
Deliver(s) ==
  /\ status[s] = "live"
  /\ next'[s] \in next[s] + 1 .. next[s] + media[s].chunk
  /\ Reached(media[s], IF media[s].pacedBy = "end" THEN next'[s] ELSE next[s])
  /\ next' = [next EXCEPT ![s] = next'[s]]
  /\ UNCHANGED <<clock, media, status>>

Stop(s) ==
  /\ status[s] \in {"idle", "live"}
  /\ status' = [status EXCEPT ![s] = "stopped"]
  /\ UNCHANGED <<clock, media, next>>

Tick ==
  /\ clock' \in Nat
  /\ clock' > clock
  /\ UNCHANGED <<media, status, next>>

Next ==
  \/ Tick
  \/ \E s \in Subs : Join(s) \/ Deliver(s) \/ Stop(s)

Spec == Init /\ [][Next]_vars
=============================================================================
