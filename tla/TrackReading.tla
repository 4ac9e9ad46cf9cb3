---------------------------- MODULE TrackReading ----------------------------
(***************************************************************************)
(* The goroutines that read the subscribed tracks and what they write      *)
(* (internal/sub: subscribeAndRead, subscribeMoqMI, CmafMux): LOCMAF       *)
(* objects are expanded against the state left by the object before,       *)
(* moq-mi counters are compared, CMAF fragments go to the output that      *)
(* video and audio share and to an output of their own.                    *)
(*                                                                         *)
(* "none" is the packaging of a role for which nothing was chosen.         *)
(* A track is read from the group it was joined at, counted from 0 here.   *)
(* Every group is a stream of its own: objects of one group arrive in      *)
(* order, and those of different groups only if setting.ordered.  Object k *)
(* of group g has the position g * GroupSize + k, which stands for its     *)
(* decode time and, up to the offset of the first, its moq-mi counter.     *)
(***************************************************************************)
EXTENDS Naturals, Sequences, SequencesExt

CONSTANTS
  GroupSize,  \* objects in a group
  MaxGroup,   \* bound on the groups that are read
  CounterMod, \* number of values of the moq-mi counter, 2^64 in the code
  Settings    \* packagings, outputs and transports to consider

Roles == {"video", "audio"}

Packaging == {"cmaf", "locmaf", "loc", "moqmi", "none"}

Setting ==
  [packaging : [Roles -> Packaging], \* of the chosen tracks
   mux : BOOLEAN, out : BOOLEAN,     \* there is a muxed output, one per role
   ordered : BOOLEAN]

ASSUME ReadingAssumption ==
  /\ GroupSize \in Nat \ {0} /\ MaxGroup \in Nat \ {0}
  /\ CounterMod \in Nat /\ CounterMod > GroupSize * MaxGroup
  /\ Settings \subseteq Setting

VARIABLES
  setting,   \* of this run
  ctxDone,   \* the client's context is done
  inits,     \* m.inits: roles whose init segment the mux has
  muxInit,   \* m.init is set
  toAdd,     \* roles whose init segment has not been handed over
  mu,        \* m.mu: the role that holds it, or "free"
  muxed,     \* what was written to the muxed output
  rpc,       \* where a reading goroutine is
  got,       \* objects it has got of each group
  current,   \* the object it handles
  state,     \* locmafState: decode time of the last object, 0 if new
  haveSeq,   \* a moq-mi counter has been read
  lastSeq,   \* the last one
  log,       \* history: the objects it got, as it understood them
  file       \* what was written to the output of the role

muxVars == <<inits, muxInit, toAdd, mu, muxed>>
readVars == <<rpc, got, current, state, haveSeq, lastSeq, log, file>>
vars == <<setting, ctxDone, muxVars, readVars>>

Groups == 0 .. MaxGroup - 1
Objects == [group : Groups, object : 0 .. GroupSize - 1]
Position(o) == o.group * GroupSize + o.object
Nothing == [group |-> 0, object |-> 0]

Init ==
  /\ setting \in Settings /\ ctxDone = FALSE
  /\ inits = {} /\ muxInit = FALSE /\ mu = "free" /\ muxed = << >>
  /\ toAdd = IF setting.mux
             THEN {r \in Roles : setting.packaging[r] \in {"cmaf", "locmaf"}} ELSE {}
  /\ rpc = [r \in Roles |-> IF setting.packaging[r] = "none" THEN "ended" ELSE "read"]
  /\ got = [r \in Roles |-> [g \in Groups |-> 0]]
  /\ current = [r \in Roles |-> Nothing]
  /\ state = [r \in Roles |-> 0]
  /\ haveSeq = [r \in Roles |-> FALSE] /\ lastSeq = [r \in Roles |-> 0]
  /\ log = [r \in Roles |-> << >>]
  /\ file = [r \in Roles |-> << >>]
-----------------------------------------------------------------------------
(* The mux gets its init segments, before anything is read *)

(* muxInit waits for both. *)
MuxInit(added) == added = Roles

InitPart(written) ==
  [role |-> "both", position |-> 0, part |-> IF written THEN "init" ELSE "failed"]

(* AddInit: it may fail to parse what the catalog has.  Writing the muxed  *)
(* init may fail when m.init has been set already; handle logs the error   *)
(* and goes on.                                                            *)
AddInit(r) ==
  /\ r \in toAdd
  /\ toAdd' = toAdd \ {r}
  /\ \E parsed, written \in BOOLEAN :
       /\ inits' = IF parsed THEN inits \union {r} ELSE inits
       /\ muxInit' = (muxInit \/ (parsed /\ MuxInit(inits')))
       /\ muxed' = IF muxInit' /\ ~muxInit
                   THEN <<InitPart(written)>> ELSE muxed
  /\ UNCHANGED <<setting, ctxDone, mu, readVars>>
-----------------------------------------------------------------------------
(* Reading an object *)

At(r, place) == rpc[r] = place
To(r, place) == rpc' = [rpc EXCEPT ![r] = place]

(* What ReadObject may return. *)
Readable(r) ==
  {g \in Groups : /\ got[r][g] < GroupSize
                  /\ setting.ordered => \A h \in 0 .. g - 1 : got[r][h] = GroupSize}

(* Mutant: only a full header becomes the reference of what follows. *)
DecodeAgainstFull(r, o) ==
  IF o.object = 0 THEN [time |-> Position(o), next |-> Position(o)]
  ELSE [time |-> state[r] + 1, next |-> state[r]]

(* The first object of a group has a full header; for the others the       *)
(* decode time follows from the object decoded before.                     *)
Decode(r, o) ==
  IF o.object = 0 THEN [time |-> Position(o), next |-> Position(o)]
  ELSE [time |-> state[r] + 1, next |-> state[r] + 1]

(* Mutant: without haveSeq. *)
SeqDeltaFromZero(r, seq) == (CounterMod + seq - lastSeq[r]) % CounterMod

(* Unsigned, like the counter. *)
SeqDelta(r, seq) ==
  IF haveSeq[r] THEN (CounterMod + seq - lastSeq[r]) % CounterMod ELSE 0

Entry(o, time) == [position |-> Position(o), time |-> time, counted |-> FALSE, gap |-> 0]
CountedEntry(o, gap) ==
  [position |-> Position(o), time |-> Position(o), counted |-> TRUE, gap |-> gap]

(* ReadObject, the LOCMAF expansion or the moq-mi headers; which writer is *)
(* next.  An expansion that fails ends the goroutine; headers that cannot  *)
(* be read leave the counter alone.  An expansion to nothing is skipped by *)
(* the code; every object here is a fragment.                              *)
Read(r) ==
  /\ toAdd = {} /\ At(r, "read")
  /\ \E g \in Readable(r) :
       LET o == [group |-> g, object |-> got[r][g]]
           packaging == setting.packaging[r]
       IN  /\ got' = [got EXCEPT ![r][g] = @ + 1]
           /\ current' = [current EXCEPT ![r] = o]
           /\ CASE packaging = "locmaf" ->
                     \/ /\ state' = [state EXCEPT ![r] = Decode(r, o).next]
                        /\ log' = [log EXCEPT ![r] = Append(@, Entry(o, Decode(r, o).time))]
                        /\ To(r, "mux") /\ UNCHANGED <<haveSeq, lastSeq>>
                     \/ To(r, "ended") /\ UNCHANGED <<state, haveSeq, lastSeq, log>>
                [] packaging = "moqmi" ->
                     /\ \/ /\ haveSeq' = [haveSeq EXCEPT ![r] = TRUE]
                           /\ lastSeq' = [lastSeq EXCEPT ![r] = Position(o)]
                           /\ log' = [log EXCEPT ![r] =
                                Append(@, CountedEntry(o, SeqDelta(r, Position(o))))]
                        \/ /\ log' = [log EXCEPT ![r] = Append(@, Entry(o, Position(o)))]
                           /\ UNCHANGED <<haveSeq, lastSeq>>
                     /\ To(r, "file") /\ UNCHANGED state
                [] OTHER ->
                     /\ log' = [log EXCEPT ![r] = Append(@, Entry(o, Position(o)))]
                     /\ To(r, IF packaging = "cmaf" THEN "mux" ELSE "file")
                     /\ UNCHANGED <<state, haveSeq, lastSeq>>
  /\ UNCHANGED <<setting, ctxDone, muxVars, file>>

(* ReadObject fails: the stream has ended, or the context. *)
ReadEnds(r) ==
  /\ toAdd = {} /\ At(r, "read")
  /\ To(r, "ended")
  /\ UNCHANGED <<setting, ctxDone, muxVars, got, current, state, haveSeq, lastSeq,
                 log, file>>
-----------------------------------------------------------------------------
(* MuxSample *)

AfterRead ==
  <<setting, ctxDone, inits, muxInit, toAdd, got, current, state, haveSeq, lastSeq, log>>

Lock(r) == mu = "free" /\ mu' = r
Unlock(r) == mu' = "free"

(* Mutant: the early return keeps the lock. *)
SkipMuxLocked(r) ==
  /\ At(r, "mux") /\ ~muxInit
  /\ Lock(r)
  /\ To(r, "file")
  /\ UNCHANGED <<AfterRead, muxed, file>>

(* No mux, or one without its init: the object is not muxed.               *)
SkipMux(r) ==
  /\ At(r, "mux") /\ ~muxInit /\ mu = "free"
  /\ To(r, "file")
  /\ UNCHANGED <<AfterRead, mu, muxed, file>>

(* The test of m.init, then the parsing of the fragment, without the lock. *)
MuxParse(r) ==
  /\ At(r, "mux") /\ muxInit /\ mu = "free"
  /\ \E ok \in BOOLEAN : To(r, IF ok THEN "encode" ELSE "ended")
  /\ UNCHANGED <<AfterRead, mu, muxed, file>>

Part(r, part) == [role |-> r, position |-> Position(current[r]), part |-> part]

(* Mutant: no lock around the two writes. *)
MuxMoofUnlocked(r) ==
  /\ At(r, "encode")
  /\ \E ok \in BOOLEAN :
       /\ muxed' = IF ok THEN Append(muxed, Part(r, "moof")) ELSE muxed
       /\ To(r, IF ok THEN "mdat" ELSE "unlock")
  /\ UNCHANGED <<AfterRead, mu, file>>

(* Encode writes one box after the other, under the lock. *)
MuxMoof(r) ==
  /\ At(r, "encode") /\ Lock(r)
  /\ \E ok \in BOOLEAN :
       /\ muxed' = IF ok THEN Append(muxed, Part(r, "moof")) ELSE muxed
       /\ To(r, IF ok THEN "mdat" ELSE "unlock")
  /\ UNCHANGED <<AfterRead, file>>

MuxMdat(r) ==
  /\ At(r, "mdat")
  /\ \E ok \in BOOLEAN :
       /\ muxed' = IF ok THEN Append(muxed, Part(r, "mdat")) ELSE muxed
       /\ To(r, IF ok THEN "file" ELSE "ended")
  /\ Unlock(r)
  /\ UNCHANGED <<AfterRead, file>>

(* Mutant: the error path returns with the lock. *)
MuxFailedLocked(r) ==
  /\ At(r, "unlock")
  /\ To(r, "ended")
  /\ UNCHANGED <<AfterRead, mu, muxed, file>>

(* The unlock after the first write has failed. *)
MuxFailed(r) ==
  /\ At(r, "unlock")
  /\ To(r, "ended") /\ Unlock(r)
  /\ UNCHANGED <<AfterRead, muxed, file>>
-----------------------------------------------------------------------------
(* The output of the role *)

(* The payload of an object, in one write or several, with the framing of  *)
(* its writer.                                                             *)
WriteFile(r) ==
  /\ At(r, "file")
  /\ \E ok \in (IF setting.out THEN BOOLEAN ELSE {TRUE}) :
       /\ file' = IF setting.out /\ ok
                  THEN [file EXCEPT ![r] = Append(@, Position(current[r]))] ELSE file
       /\ To(r, IF ok THEN "read" ELSE "ended")
  /\ UNCHANGED <<AfterRead, mu, muxed>>
-----------------------------------------------------------------------------
CancelReading ==
  /\ ~ctxDone /\ ctxDone' = TRUE
  /\ UNCHANGED <<setting, muxVars, readVars>>

ReaderStep(r) ==
  \/ Read(r) \/ SkipMux(r) \/ MuxParse(r) \/ MuxMoof(r) \/ MuxMdat(r) \/ MuxFailed(r)
  \/ WriteFile(r)

Next ==
  \/ CancelReading
  \/ \E r \in Roles : AddInit(r) \/ ReaderStep(r) \/ ReadEnds(r)

Spec == Init /\ [][Next]_vars

(* Goroutines run, and a lock that is free for good is taken.  What is in  *)
(* the buffer of a subscription is read; when there is nothing, ReadObject *)
(* returns with the context.                                               *)
FairSpec ==
  /\ Spec
  /\ \A r \in Roles :
       /\ WF_vars(AddInit(r)) /\ WF_vars(ReaderStep(r)) /\ WF_vars(ctxDone /\ ReadEnds(r))
-----------------------------------------------------------------------------
(* The types, and who holds the lock. *)
Entries == [position : Nat, time : Nat, counted : BOOLEAN, gap : Nat]

Parts ==
  [role : Roles \union {"both"}, position : Nat,
   part : {"init", "failed", "moof", "mdat"}]

TypeOK ==
  /\ setting \in Settings /\ ctxDone \in BOOLEAN
  /\ inits \subseteq Roles /\ toAdd \subseteq Roles /\ muxInit \in BOOLEAN
  /\ mu \in Roles \union {"free"}
  /\ \A r \in Roles : mu = r <=> rpc[r] \in {"mdat", "unlock"}
  /\ muxed \in Seq(Parts)
  /\ rpc \in [Roles -> {"read", "mux", "encode", "mdat", "unlock", "file", "ended"}]
  /\ got \in [Roles -> [Groups -> 0 .. GroupSize]]
  /\ current \in [Roles -> Objects]
  /\ state \in [Roles -> Nat]
  /\ haveSeq \in [Roles -> BOOLEAN] /\ lastSeq \in [Roles -> 0 .. CounterMod - 1]
  /\ log \in [Roles -> Seq(Entries)]
  /\ file \in [Roles -> Seq(Nat)]

(* An expanded LOCMAF object gets its own decode time as long as groups do *)
(* not overlap: only an object that comes after one of another group, that *)
(* came in the middle of its own, may be placed wrongly.                   *)
GroupOf(entry) == entry.position \div GroupSize

Interrupted(entries, i) ==
  \E j \in 1 .. i - 1 : \E h \in 1 .. j - 1 :
    GroupOf(entries[h]) = GroupOf(entries[i]) /\ GroupOf(entries[j]) # GroupOf(entries[i])

DecodedInTime ==
  \A r \in Roles : \A i \in DOMAIN log[r] :
    log[r][i].time # log[r][i].position => ~setting.ordered /\ Interrupted(log[r], i)

(* What was reported as gaps up to the n-th object. *)
GapTotal(entries) ==
  LET total[n \in 0 .. Len(entries)] ==
        IF n = 0 THEN 0 ELSE total[n - 1] + entries[n].gap
  IN  total

FirstCounted(entries, i) ==
  entries[i].counted /\ \A h \in 1 .. i - 1 : ~entries[h].counted

(* "Returns 1 for the expected next value (no gap), 0 for the first        *)
(* sample" (moqmi.go:170): what is reported as gaps, counted modulo the    *)
(* width of the counter, is what lies between the first object with a      *)
(* counter and any later one, whatever their order and whatever came       *)
(* between them without a counter.  In order, it is exactly that.          *)
GapsAddUp ==
  \A r \in Roles : setting.packaging[r] = "moqmi" =>
    \A i, j \in DOMAIN log[r] :
      FirstCounted(log[r], i) /\ i <= j /\ log[r][j].counted =>
        LET reached == log[r][i].position + GapTotal(log[r])[j]
        IN  /\ reached % CounterMod = log[r][j].position
            /\ setting.ordered => reached = log[r][j].position

(* The muxed output begins with the init segment of both tracks; after it, *)
(* a fragment is never torn apart by one of the other track: its two parts *)
(* stand together, unless writing the second failed, which ended its       *)
(* goroutine, or is still to come.                                         *)
FragmentsWhole ==
  \A i \in 2 .. Len(muxed) :
    IF muxed[i].part = "mdat"
    THEN i > 2 /\ muxed[i - 1] = [muxed[i] EXCEPT !.part = "moof"]
    ELSE \/ i < Len(muxed) /\ muxed[i + 1] = [muxed[i] EXCEPT !.part = "mdat"]
         \/ rpc[muxed[i].role] = "mdat" /\ i = Len(muxed)
         \/ rpc[muxed[i].role] = "ended"

MuxedWhole ==
  /\ muxed # << >> => muxed[1].role = "both" /\ inits = Roles
  /\ \A i \in 2 .. Len(muxed) : muxed[i].role \in Roles
  /\ FragmentsWhole

(* A role's output has every object that was read, in the order in which   *)
(* they came and each once, but for the one that is being handled or whose *)
(* handling failed.                                                        *)
FileFollowsReads ==
  \A r \in Roles : setting.out =>
    LET positions == [i \in DOMAIN log[r] |-> log[r][i].position]
    IN  /\ IsPrefix(file[r], positions)
        /\ Len(log[r]) - Len(file[r]) \in
             IF rpc[r] = "read" THEN {0} ELSE IF rpc[r] = "ended" THEN {0, 1} ELSE {1}

(* Together: nothing is torn, lost or doubled on the way to an output.     *)
OutputsWhole == MuxedWhole /\ FileFollowsReads

(* No goroutine is left behind by a cancelled context, whatever another    *)
(* was doing with the mux it shares.                                       *)
CancelEndsReaders == ctxDone ~> \A r \in Roles : rpc[r] = "ended"
=============================================================================
