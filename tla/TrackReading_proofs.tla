------------------------ MODULE TrackReading_proofs ------------------------
(***************************************************************************)
(* Safety of the reading goroutines for any number and size of groups and  *)
(* any choice of packagings, outputs and transport.                        *)
(***************************************************************************)
EXTENDS TrackReading, SequenceTheorems, WellFoundedInduction, TLAPS

LastOf(s) == s[Len(s)]

(* What the mux has, and what a goroutine that holds its lock wrote last.  *)
Muxing ==
  /\ ~muxInit => muxed = << >>
  /\ muxInit => inits = Roles /\ muxed # << >> /\ muxed[1].role = "both"
  /\ \A i \in 2 .. Len(muxed) :
       muxed[i].role \in Roles /\ muxed[i].part \in {"moof", "mdat"}
  /\ \A r \in Roles :
       /\ rpc[r] \in {"encode", "mdat", "unlock"} => muxInit
       /\ rpc[r] = "mdat" => Len(muxed) > 1 /\ LastOf(muxed) = Part(r, "moof")

(* The output of a role is behind what was read by the object in hand.     *)
Filing ==
  \A r \in Roles :
    /\ rpc[r] \notin {"read", "ended"} =>
         log[r] # << >> /\ LastOf(log[r]).position = Position(current[r])
    /\ setting.out =>
         /\ \A i \in DOMAIN file[r] :
              i \in DOMAIN log[r] /\ file[r][i] = log[r][i].position
         /\ rpc[r] = "read" => Len(log[r]) = Len(file[r])
         /\ rpc[r] = "ended" => Len(log[r]) - Len(file[r]) \in {0, 1}
         /\ rpc[r] \notin {"read", "ended"} => Len(log[r]) = Len(file[r]) + 1

(* The LOCMAF state is of the object read last, and an object was read of  *)
(* each group that has begun.                                              *)
LastRead ==
  \A r \in Roles : rpc[r] # "ended" =>
    /\ \A g \in Groups : got[r][g] > 0 =>
         \E h \in DOMAIN log[r] : GroupOf(log[r][h]) = g
    /\ log[r] # << >> =>
         /\ LastOf(log[r]).position = Position(current[r])
         /\ got[r][current[r].group] = current[r].object + 1
         /\ setting.packaging[r] = "locmaf" => state[r] = LastOf(log[r]).time

(* With groups in order, a group begins when the ones before have ended.   *)
InOrder ==
  \A r \in Roles : setting.ordered /\ rpc[r] # "ended" =>
    /\ \A g, h \in Groups : h < g /\ got[r][g] > 0 => got[r][h] = GroupSize
    /\ \A g \in Groups : log[r] # << >> /\ got[r][g] > 0 => g <= current[r].group

ReadInv ==
  /\ TypeOK /\ Muxing /\ FragmentsWhole /\ Filing
  /\ LastRead /\ InOrder /\ DecodedInTime
-----------------------------------------------------------------------------
(* Sequences and positions                                                 *)

(* What appending does to the last element and to the others.              *)
LEMMA Appended ==
  ASSUME NEW S, NEW s \in Seq(S), NEW e \in S
  PROVE  /\ Append(s, e) \in Seq(S) /\ Append(s, e) # << >>
         /\ Len(s) \in Nat
         /\ Len(Append(s, e)) = Len(s) + 1
         /\ DOMAIN s = 1 .. Len(s) /\ DOMAIN Append(s, e) = 1 .. Len(s) + 1
         /\ \A i \in 1 .. Len(s) : Append(s, e)[i] = s[i] /\ s[i] \in S
         /\ Append(s, e)[Len(s) + 1] = e /\ LastOf(Append(s, e)) = e
BY DEF LastOf

LEMMA Lengths ==
  ASSUME NEW S, NEW s \in Seq(S)
  PROVE  /\ Len(s) \in Nat /\ DOMAIN s = 1 .. Len(s)
         /\ s # << >> => Len(s) > 0
         /\ \A i \in 1 .. Len(s) : s[i] \in S
OBVIOUS

(* A sequence that agrees with the beginning of another is a prefix of it. *)
LEMMA PrefixOf ==
  ASSUME NEW S, NEW s \in Seq(S), NEW t \in Seq(S), Len(s) <= Len(t),
         \A i \in 1 .. Len(s) : s[i] = t[i]
  PROVE  IsPrefix(s, t)
<1>1. SubSeq(s, 1, Len(s)) = s
  OBVIOUS
<1>2. SubSeq(t, 1, Len(s)) = s
  <2>1. SubSeq(t, 1, Len(s)) \in Seq(S) /\ Len(SubSeq(t, 1, Len(s))) = Len(s)
    OBVIOUS
  <2>2. \A i \in 1 .. Len(s) : SubSeq(t, 1, Len(s))[i] = s[i]
    OBVIOUS
  <2> QED
    BY <2>1, <2>2, SeqEqual
<1> QED
  BY <1>1, <1>2 DEF IsPrefix

LEMMA SettingFields ==
  ASSUME setting \in Settings
  PROVE  /\ setting.packaging \in [Roles -> Packaging]
         /\ setting.mux \in BOOLEAN /\ setting.out \in BOOLEAN
         /\ setting.ordered \in BOOLEAN
BY ReadingAssumption DEF Setting

(* The position of an object tells its group, and fits the counter.        *)
LEMMA Positions ==
  ASSUME NEW o \in Objects
  PROVE  /\ o.group \in Groups /\ o.object \in 0 .. GroupSize - 1
         /\ o.group \in Nat /\ o.object \in Nat
         /\ Position(o) \in 0 .. CounterMod - 1
         /\ Position(o) \div GroupSize = o.group
<1> DEFINE g == o.group
           k == o.object
           n == GroupSize
<1>1. /\ n \in Nat \ {0} /\ MaxGroup \in Nat \ {0} /\ CounterMod \in Nat
      /\ CounterMod > n * MaxGroup
  BY ReadingAssumption
<1>2. g \in 0 .. MaxGroup - 1 /\ k \in 0 .. n - 1 /\ Position(o) = g * n + k
  BY <1>1 DEF Objects, Groups, Position
<1>3. g * n <= (MaxGroup - 1) * n /\ (MaxGroup - 1) * n = n * MaxGroup - n
  BY <1>1, <1>2
<1>4. g * n \in Nat
  BY <1>1, <1>2
<1>5. (g * n + k) \div n = g
  <2> DEFINE p == g * n + k
             q == p \div n
  <2>1. p \in Nat
    BY <1>2, <1>4
  <2>2. q \in Nat /\ q * n <= p /\ p < (q + 1) * n
    BY <1>1, <2>1
  <2>3. CASE q < g
    <3>1. (q + 1) * n <= g * n
      BY <1>1, <1>2, <2>2, <2>3
    <3>2. (q + 1) * n \in Nat /\ p = g * n + k
      BY <1>1, <2>2
    <3>3. g * n + k < (q + 1) * n
      BY <2>2, <3>2
    <3> QED
      BY <1>1, <1>2, <1>4, <3>1, <3>2, <3>3
  <2>4. CASE q > g
    <3>1. (g + 1) * n <= q * n /\ (g + 1) * n = g * n + n
      BY <1>1, <1>2, <2>2, <2>4
    <3>2. q * n \in Nat /\ p = g * n + k
      BY <1>1, <2>2
    <3>3. q * n <= g * n + k
      BY <2>2, <3>2
    <3> QED
      BY <1>1, <1>2, <1>4, <3>1, <3>2, <3>3
  <2> QED
    BY <1>2, <2>2, <2>3, <2>4
<1> QED
  BY <1>1, <1>2, <1>3, <1>4, <1>5 DEF Groups
-----------------------------------------------------------------------------
(* Types                                                                   *)

Places == {"read", "mux", "encode", "mdat", "unlock", "file", "ended"}

(* What a goroutine does with an object it has got.                        *)
Gets(r, o) ==
  /\ o \in Objects /\ o.object = got[r][o.group] /\ o.group \in Readable(r)
  /\ got' = [got EXCEPT ![r] = [got[r] EXCEPT ![o.group] = o.object + 1]]
  /\ current' = [current EXCEPT ![r] = o]

Expands(r, o) ==
  /\ setting.packaging[r] = "locmaf"
  /\ state' = [state EXCEPT ![r] = Decode(r, o).next]
  /\ log' = [log EXCEPT ![r] = Append(log[r], Entry(o, Decode(r, o).time))]
  /\ rpc' = [rpc EXCEPT ![r] = "mux"]
  /\ UNCHANGED <<haveSeq, lastSeq>>

CannotExpand(r) ==
  /\ rpc' = [rpc EXCEPT ![r] = "ended"]
  /\ UNCHANGED <<state, haveSeq, lastSeq, log>>

(* The others take the decode time of the object as it comes.              *)
Takes(r, o, entry) ==
  /\ setting.packaging[r] # "locmaf"
  /\ entry \in Entries /\ entry.position = Position(o) /\ entry.time = Position(o)
  /\ log' = [log EXCEPT ![r] = Append(log[r], entry)]
  /\ \E place \in {"mux", "file"} : rpc' = [rpc EXCEPT ![r] = place]
  /\ haveSeq' \in [Roles -> BOOLEAN] /\ lastSeq' \in [Roles -> 0 .. CounterMod - 1]
  /\ UNCHANGED state

LEMMA Reading ==
  ASSUME TypeOK, NEW r \in Roles, Read(r)
  PROVE  /\ rpc[r] = "read"
         /\ UNCHANGED <<setting, ctxDone, muxVars, file>>
         /\ \E o \in Objects :
              /\ Gets(r, o)
              /\ \/ Expands(r, o)
                 \/ CannotExpand(r)
                 \/ \E entry \in Entries : Takes(r, o, entry)
<1>1. rpc[r] = "read" /\ UNCHANGED <<setting, ctxDone, muxVars, file>>
  BY DEF Read, At
<1>2. PICK g \in Readable(r) :
        LET o == [group |-> g, object |-> got[r][g]]
            packaging == setting.packaging[r]
        IN  /\ got' = [got EXCEPT ![r][g] = @ + 1]
            /\ current' = [current EXCEPT ![r] = o]
            /\ CASE packaging = "locmaf" ->
                      \/ /\ state' = [state EXCEPT ![r] = Decode(r, o).next]
                         /\ log' = [log EXCEPT ![r] = Append(@, Entry(o, Decode(r, o).time))]
                         /\ To(r, "mux") /\ UNCHANGED <<haveSeq, lastSeq>>
                      \/ To(r, "ended") /\ UNCHANGED <<state, haveSeq, lastSeq, log>>
                 [] packaging = "moqmi" ->
                      /\ \/ /\ haveSeq' = [haveSeq EXCEPT ![r] = TRUE]
                            /\ lastSeq' = [lastSeq EXCEPT ![r] = Position(o)]
                            /\ log' = [log EXCEPT ![r] =
                                 Append(@, CountedEntry(o, SeqDelta(r, Position(o))))]
                         \/ /\ log' = [log EXCEPT ![r] = Append(@, Entry(o, Position(o)))]
                            /\ UNCHANGED <<haveSeq, lastSeq>>
                      /\ To(r, "file") /\ UNCHANGED state
                 [] OTHER ->
                      /\ log' = [log EXCEPT ![r] = Append(@, Entry(o, Position(o)))]
                      /\ To(r, IF packaging = "cmaf" THEN "mux" ELSE "file")
                      /\ UNCHANGED <<state, haveSeq, lastSeq>>
  BY DEF Read
<1> DEFINE o == [group |-> g, object |-> got[r][g]]
           packaging == setting.packaging[r]
<1>3. /\ got \in [Roles -> [Groups -> 0 .. GroupSize]]
      /\ haveSeq \in [Roles -> BOOLEAN]
      /\ lastSeq \in [Roles -> 0 .. CounterMod - 1]
      /\ GroupSize \in Nat \ {0} /\ CounterMod \in Nat \ {0}
  BY ReadingAssumption DEF TypeOK
<1>4. g \in Groups /\ got[r][g] \in 0 .. GroupSize - 1
  BY <1>3 DEF Readable
<1>5. o \in Objects /\ o.group = g /\ o.object = got[r][g]
  BY <1>4 DEF Objects
<1>6. Position(o) \in 0 .. CounterMod - 1 /\ Position(o) \in Nat
  BY <1>3, <1>5, Positions
<1>7. Gets(r, o)
  <2>1. got' = [got EXCEPT ![r] = [got[r] EXCEPT ![g] = o.object + 1]]
    BY <1>2, <1>3, <1>4
  <2>2. current' = [current EXCEPT ![r] = o]
    BY <1>2
  <2> HIDE DEF o
  <2> QED
    BY <1>2, <1>5, <2>1, <2>2 DEF Gets
<1>8. CASE packaging = "locmaf"
  <2>1. \/ /\ state' = [state EXCEPT ![r] = Decode(r, o).next]
           /\ log' = [log EXCEPT ![r] = Append(log[r], Entry(o, Decode(r, o).time))]
           /\ To(r, "mux") /\ UNCHANGED <<haveSeq, lastSeq>>
        \/ To(r, "ended") /\ UNCHANGED <<state, haveSeq, lastSeq, log>>
    BY <1>2, <1>8
  <2> HIDE DEF o
  <2> QED
    BY <1>1, <1>5, <1>7, <1>8, <2>1 DEF Expands, CannotExpand, To
<1>9. CASE packaging = "moqmi"
  <2>1. /\ \/ /\ haveSeq' = [haveSeq EXCEPT ![r] = TRUE]
              /\ lastSeq' = [lastSeq EXCEPT ![r] = Position(o)]
              /\ log' = [log EXCEPT ![r] =
                    Append(log[r], CountedEntry(o, SeqDelta(r, Position(o))))]
           \/ /\ log' = [log EXCEPT ![r] = Append(log[r], Entry(o, Position(o)))]
              /\ UNCHANGED <<haveSeq, lastSeq>>
        /\ To(r, "file") /\ UNCHANGED state
    BY <1>2, <1>9
  <2> HIDE DEF o
  <2>2. SeqDelta(r, Position(o)) \in Nat
    BY <1>3, <1>6 DEF SeqDelta
  <2>3. CountedEntry(o, SeqDelta(r, Position(o))) \in Entries
    BY <1>6, <2>2 DEF CountedEntry, Entries
  <2>4. Entry(o, Position(o)) \in Entries
    BY <1>6 DEF Entry, Entries
  <2>5. haveSeq' \in [Roles -> BOOLEAN] /\ lastSeq' \in [Roles -> 0 .. CounterMod - 1]
    BY <1>3, <1>6, <2>1
  <2>6. \/ Takes(r, o, CountedEntry(o, SeqDelta(r, Position(o))))
        \/ Takes(r, o, Entry(o, Position(o)))
    BY <1>9, <2>1, <2>3, <2>4, <2>5 DEF Takes, CountedEntry, Entry, To
  <2> QED
    BY <1>1, <1>5, <1>7, <2>3, <2>4, <2>6
<1>10. CASE packaging \notin {"locmaf", "moqmi"}
  <2>1. /\ log' = [log EXCEPT ![r] = Append(log[r], Entry(o, Position(o)))]
        /\ To(r, IF packaging = "cmaf" THEN "mux" ELSE "file")
        /\ UNCHANGED <<state, haveSeq, lastSeq>>
    BY <1>2, <1>10
  <2> HIDE DEF o
  <2>2. Entry(o, Position(o)) \in Entries
    BY <1>6 DEF Entry, Entries
  <2>3. Takes(r, o, Entry(o, Position(o)))
    BY <1>3, <1>10, <2>1, <2>2 DEF Takes, Entry, To
  <2> QED
    BY <1>1, <1>5, <1>7, <2>2, <2>3
<1> QED
  BY <1>8, <1>9, <1>10

(* Reading grows the log of the reader only, by one entry or by none.      *)
LEMMA ReadTypes ==
  ASSUME TypeOK, NEW r \in Roles, Read(r)
  PROVE  TypeOK'
<1>1. /\ rpc[r] = "read"
      /\ UNCHANGED <<setting, ctxDone, muxVars, file>>
  BY Reading
<1>2. PICK o \in Objects :
        /\ Gets(r, o)
        /\ \/ Expands(r, o)
           \/ CannotExpand(r)
           \/ \E entry \in Entries : Takes(r, o, entry)
  BY Reading
<1>3. /\ got \in [Roles -> [Groups -> 0 .. GroupSize]]
      /\ current \in [Roles -> Objects]
      /\ state \in [Roles -> Nat] /\ log \in [Roles -> Seq(Entries)]
      /\ haveSeq \in [Roles -> BOOLEAN] /\ lastSeq \in [Roles -> 0 .. CounterMod - 1]
      /\ GroupSize \in Nat \ {0}
  BY ReadingAssumption DEF TypeOK
<1>4. rpc \in [Roles -> Places] /\ \A q \in Roles : mu = q <=> rpc[q] \in {"mdat", "unlock"}
  BY DEF TypeOK, Places
<1>5. /\ o.group \in Groups /\ o.object \in 0 .. GroupSize - 1 /\ Position(o) \in Nat
  BY ReadingAssumption, Positions
<1>6. o.object + 1 \in 0 .. GroupSize
  BY <1>3, <1>5
<1>7. got' \in [Roles -> [Groups -> 0 .. GroupSize]] /\ current' \in [Roles -> Objects]
  BY <1>2, <1>3, <1>5, <1>6 DEF Gets
<1>8. /\ state' \in [Roles -> Nat] /\ log' \in [Roles -> Seq(Entries)]
      /\ haveSeq' \in [Roles -> BOOLEAN] /\ lastSeq' \in [Roles -> 0 .. CounterMod - 1]
      /\ \E place \in {"mux", "file", "ended"} : rpc' = [rpc EXCEPT ![r] = place]
  <2>1. CASE Expands(r, o)
    <3>1. Decode(r, o).time \in Nat /\ Decode(r, o).next \in Nat
      BY <1>3, <1>5 DEF Decode
    <3>2. Entry(o, Decode(r, o).time) \in Entries
      BY <1>5, <3>1 DEF Entry, Entries
    <3>3. Append(log[r], Entry(o, Decode(r, o).time)) \in Seq(Entries)
      BY <1>3, <3>2
    <3>4. /\ state' = [state EXCEPT ![r] = Decode(r, o).next]
          /\ log' = [log EXCEPT ![r] = Append(log[r], Entry(o, Decode(r, o).time))]
          /\ rpc' = [rpc EXCEPT ![r] = "mux"]
          /\ UNCHANGED <<haveSeq, lastSeq>>
      BY <2>1 DEF Expands
    <3> QED
      BY <1>3, <3>1, <3>3, <3>4
  <2>2. CASE CannotExpand(r)
    BY <1>3, <2>2 DEF CannotExpand
  <2>3. CASE \E entry \in Entries : Takes(r, o, entry)
    <3>1. PICK entry \in Entries : Takes(r, o, entry)
      BY <2>3
    <3>2. Append(log[r], entry) \in Seq(Entries)
      BY <1>3
    <3> QED
      BY <1>3, <3>1, <3>2 DEF Takes
  <2> QED
    BY <1>2, <2>1, <2>2, <2>3
<1>9. /\ rpc' \in [Roles -> Places]
      /\ \A q \in Roles : mu' = q <=> rpc'[q] \in {"mdat", "unlock"}
  BY <1>1, <1>4, <1>8 DEF Places, muxVars
<1>10. /\ setting' \in Settings /\ ctxDone' \in BOOLEAN
       /\ inits' \subseteq Roles /\ toAdd' \subseteq Roles /\ muxInit' \in BOOLEAN
       /\ mu' \in Roles \union {"free"} /\ muxed' \in Seq(Parts)
       /\ file' \in [Roles -> Seq(Nat)]
  BY <1>1 DEF TypeOK, muxVars
<1> QED
  BY <1>7, <1>8, <1>9, <1>10 DEF TypeOK, Places

(* The part of the types that the steps of the mux and of the outputs can  *)
(* change.                                                                 *)
WriteTypes ==
  /\ mu \in Roles \union {"free"}
  /\ rpc \in [Roles -> Places]
  /\ \A r \in Roles : mu = r <=> rpc[r] \in {"mdat", "unlock"}
  /\ muxed \in Seq(Parts)
  /\ file \in [Roles -> Seq(Nat)]

LEMMA WritesOnly ==
  ASSUME TypeOK, UNCHANGED AfterRead, WriteTypes'
  PROVE  TypeOK'
BY DEF TypeOK, WriteTypes, AfterRead, Places

Writes(r) ==
  SkipMux(r) \/ MuxParse(r) \/ MuxMoof(r) \/ MuxMdat(r) \/ MuxFailed(r) \/ WriteFile(r)

LEMMA PartsOfObjects ==
  ASSUME TypeOK, NEW r \in Roles, NEW part \in {"init", "failed", "moof", "mdat"}
  PROVE  /\ Part(r, part) \in Parts /\ Part(r, part).role = r
         /\ Part(r, part).part = part /\ Part(r, part).position = Position(current[r])
         /\ Position(current[r]) \in Nat
<1>1. current[r] \in Objects
  BY DEF TypeOK
<1>2. Position(current[r]) \in Nat
  BY <1>1, Positions, ReadingAssumption
<1> QED
  BY <1>2 DEF Part, Parts

LEMMA WritesKeepTypes ==
  ASSUME TypeOK, NEW r \in Roles, Writes(r)
  PROVE  TypeOK' /\ UNCHANGED AfterRead
<1>1. WriteTypes
  BY DEF TypeOK, WriteTypes, Places
<1>2. r # "free"
  BY DEF Roles
<1>3. CASE SkipMux(r)
  <2>1. UNCHANGED AfterRead /\ WriteTypes'
    BY <1>1, <1>3 DEF SkipMux, WriteTypes, At, To, Places
  <2> QED
    BY <2>1, WritesOnly
<1>4. CASE MuxParse(r)
  <2>1. UNCHANGED AfterRead /\ WriteTypes'
    BY <1>1, <1>4 DEF MuxParse, WriteTypes, At, To, Places
  <2> QED
    BY <2>1, WritesOnly
<1>5. CASE MuxMoof(r)
  <2>1. PICK ok \in BOOLEAN :
          /\ muxed' = IF ok THEN Append(muxed, Part(r, "moof")) ELSE muxed
          /\ To(r, IF ok THEN "mdat" ELSE "unlock")
    BY <1>5 DEF MuxMoof
  <2>2. mu = "free" /\ mu' = r /\ rpc[r] = "encode" /\ UNCHANGED <<AfterRead, file>>
    BY <1>5 DEF MuxMoof, Lock, At
  <2>3. muxed' \in Seq(Parts)
    BY <1>1, <2>1, PartsOfObjects DEF WriteTypes
  <2>4. /\ rpc' \in [Roles -> Places]
        /\ \A q \in Roles : mu' = q <=> rpc'[q] \in {"mdat", "unlock"}
    BY <1>1, <1>2, <2>1, <2>2 DEF WriteTypes, To, Places, Roles
  <2>5. WriteTypes'
    BY <1>1, <2>2, <2>3, <2>4 DEF WriteTypes
  <2> QED
    BY <2>2, <2>5, WritesOnly
<1>6. CASE MuxMdat(r)
  <2>1. PICK ok \in BOOLEAN :
          /\ muxed' = IF ok THEN Append(muxed, Part(r, "mdat")) ELSE muxed
          /\ To(r, IF ok THEN "file" ELSE "ended")
    BY <1>6 DEF MuxMdat
  <2>2. mu' = "free" /\ rpc[r] = "mdat" /\ UNCHANGED <<AfterRead, file>>
    BY <1>6 DEF MuxMdat, Unlock, At
  <2>3. muxed' \in Seq(Parts)
    BY <1>1, <2>1, PartsOfObjects DEF WriteTypes
  <2>4. /\ rpc' \in [Roles -> Places]
        /\ \A q \in Roles : mu' = q <=> rpc'[q] \in {"mdat", "unlock"}
    BY <1>1, <1>2, <2>1, <2>2 DEF WriteTypes, To, Places, Roles
  <2>5. WriteTypes'
    BY <1>1, <2>2, <2>3, <2>4 DEF WriteTypes
  <2> QED
    BY <2>2, <2>5, WritesOnly
<1>7. CASE MuxFailed(r)
  <2>1. mu' = "free" /\ rpc[r] = "unlock" /\ UNCHANGED <<AfterRead, muxed, file>>
        /\ rpc' = [rpc EXCEPT ![r] = "ended"]
    BY <1>7 DEF MuxFailed, Unlock, At, To
  <2>2. WriteTypes'
    BY <1>1, <1>2, <2>1 DEF WriteTypes, Places, Roles
  <2> QED
    BY <2>1, <2>2, WritesOnly
<1>8. CASE WriteFile(r)
  <2>1. PICK ok \in BOOLEAN :
          /\ file' = IF setting.out /\ ok
                     THEN [file EXCEPT ![r] = Append(file[r], Position(current[r]))] ELSE file
          /\ To(r, IF ok THEN "read" ELSE "ended")
    BY <1>8 DEF WriteFile
  <2>2. rpc[r] = "file" /\ UNCHANGED <<AfterRead, mu, muxed>>
    BY <1>8 DEF WriteFile, At
  <2>3. Append(file[r], Position(current[r])) \in Seq(Nat)
    <3>1. Position(current[r]) \in Nat /\ file[r] \in Seq(Nat)
      BY PartsOfObjects DEF TypeOK
    <3> QED
      BY <3>1
  <2>4. file' \in [Roles -> Seq(Nat)]
    BY <1>1, <2>1, <2>3 DEF WriteTypes
  <2>5. /\ rpc' \in [Roles -> Places]
        /\ \A q \in Roles : mu' = q <=> rpc'[q] \in {"mdat", "unlock"}
    BY <1>1, <2>1, <2>2 DEF WriteTypes, To, Places
  <2>6. WriteTypes'
    BY <1>1, <2>2, <2>4, <2>5 DEF WriteTypes
  <2> QED
    BY <2>2, <2>6, WritesOnly
<1> QED
  BY <1>3, <1>4, <1>5, <1>6, <1>7, <1>8 DEF Writes
-----------------------------------------------------------------------------
(* The muxed output                                                        *)

(* A step that writes nothing to the mux, of a goroutine that was not in   *)
(* the middle of a fragment.                                               *)
LEMMA NothingMuxed ==
  ASSUME TypeOK, Muxing, FragmentsWhole, NEW r \in Roles, NEW place \in Places,
         rpc' = [rpc EXCEPT ![r] = place],
         rpc[r] \notin {"mdat", "ended"}, place # "mdat",
         place \in {"encode", "unlock"} => muxInit,
         UNCHANGED <<inits, muxInit, muxed>>,
         \A q \in Roles \ {r} : current'[q] = current[q]
  PROVE  Muxing' /\ FragmentsWhole'
<1>1. rpc \in [Roles -> Places] /\ muxed \in Seq(Parts)
  BY DEF TypeOK, Places
<1>2. \A q \in Roles \ {r} : rpc'[q] = rpc[q] /\ rpc'[r] = place
  BY <1>1
<1>3. Muxing'
  <2>1. \A q \in Roles : rpc'[q] \in {"encode", "mdat", "unlock"} => muxInit'
    BY <1>2 DEF Muxing
  <2>2. \A q \in Roles \ {r} : Part(q, "moof")' = Part(q, "moof")
    BY DEF Part, Position
  <2>3. \A q \in Roles : rpc'[q] = "mdat" =>
          Len(muxed') > 1 /\ LastOf(muxed') = Part(q, "moof")'
    BY <1>2, <2>2 DEF Muxing
  <2> QED
    BY <2>1, <2>3 DEF Muxing, LastOf
<1>4. FragmentsWhole'
  <2> SUFFICES ASSUME NEW i \in 2 .. Len(muxed)
               PROVE  IF muxed[i].part = "mdat"
                      THEN i > 2 /\ muxed[i - 1] = [muxed[i] EXCEPT !.part = "moof"]
                      ELSE \/ i < Len(muxed) /\ muxed[i + 1] = [muxed[i] EXCEPT !.part = "mdat"]
                           \/ rpc'[muxed[i].role] = "mdat" /\ i = Len(muxed)
                           \/ rpc'[muxed[i].role] = "ended"
    BY DEF FragmentsWhole
  <2>1. muxed[i].role \in Roles
    BY DEF Muxing
  <2>2. rpc[muxed[i].role] \in {"mdat", "ended"} => rpc'[muxed[i].role] = rpc[muxed[i].role]
    BY <1>2, <2>1
  <2> QED
    BY <2>2 DEF FragmentsWhole
<1> QED
  BY <1>3, <1>4

(* The first part of a fragment: nobody else is between the two parts.     *)
LEMMA MoofMuxed ==
  ASSUME TypeOK, Muxing, FragmentsWhole, NEW r \in Roles, mu = "free",
         rpc[r] = "encode", rpc' = [rpc EXCEPT ![r] = "mdat"],
         muxed' = Append(muxed, Part(r, "moof")),
         UNCHANGED <<inits, muxInit, current>>
  PROVE  Muxing' /\ FragmentsWhole'
<1> DEFINE n == Len(muxed)
           m == Append(muxed, Part(r, "moof"))
<1>1. rpc \in [Roles -> Places] /\ muxed \in Seq(Parts) /\ "free" \notin Roles
      /\ \A q \in Roles : mu = q <=> rpc[q] \in {"mdat", "unlock"}
  BY DEF TypeOK, Places, Roles
<1>2. \A q \in Roles : rpc[q] # "mdat"
  BY <1>1
<1>3. Part(r, "moof") \in Parts /\ Part(r, "moof").role = r /\ Part(r, "moof").part = "moof"
  BY PartsOfObjects
<1>4. /\ n \in Nat /\ Len(m) = n + 1 /\ m[n + 1] = Part(r, "moof")
      /\ \A i \in 1 .. n : m[i] = muxed[i]
      /\ m # << >> /\ LastOf(m) = Part(r, "moof")
  BY <1>1, <1>3, Appended
<1>5. muxInit /\ muxed # << >> /\ n > 0
  BY <1>1 DEF Muxing
<1>6. \A q \in Roles : Part(q, "moof")' = Part(q, "moof")
  BY DEF Part, Position
<1> HIDE DEF m
<1>7. muxed' = m /\ (\A q \in Roles \ {r} : rpc'[q] = rpc[q]) /\ rpc'[r] = "mdat"
  BY <1>1 DEF m
<1>8. \A i \in 2 .. n + 1 : m[i].role \in Roles /\ m[i].part \in {"moof", "mdat"}
  <2> TAKE i \in 2 .. n + 1
  <2>1. CASE i = n + 1
    BY <1>3, <1>4, <2>1
  <2>2. CASE i \in 2 .. n
    BY <1>4, <2>2 DEF Muxing
  <2> QED
    BY <1>4, <2>1, <2>2
<1>9. Muxing'
  <2>1. m[1] = muxed[1]
    BY <1>4, <1>5
  <2>2. muxInit' /\ inits' = Roles /\ muxed'[1].role = "both" /\ muxed' # << >>
    BY <1>4, <1>5, <1>7, <2>1 DEF Muxing
  <2>3. \A q \in Roles : rpc'[q] = "mdat" =>
          Len(muxed') > 1 /\ LastOf(muxed') = Part(q, "moof")'
    <3>1. \A q \in Roles : rpc'[q] = "mdat" => q = r
      BY <1>2, <1>7
    <3>2. Len(muxed') > 1 /\ LastOf(muxed') = Part(r, "moof")
      BY <1>4, <1>5, <1>7 DEF LastOf
    <3>3. Part(r, "moof")' = Part(r, "moof")
      BY <1>6
    <3> QED
      BY <3>1, <3>2, <3>3
  <2> QED
    BY <1>4, <1>7, <1>8, <2>2, <2>3 DEF Muxing, LastOf
<1>10. ASSUME NEW i \in 2 .. n + 1
       PROVE  IF m[i].part = "mdat"
              THEN i > 2 /\ m[i - 1] = [m[i] EXCEPT !.part = "moof"]
              ELSE \/ i < n + 1 /\ m[i + 1] = [m[i] EXCEPT !.part = "mdat"]
                   \/ rpc'[m[i].role] = "mdat" /\ i = n + 1
                   \/ rpc'[m[i].role] = "ended"
  <2>1. CASE i = n + 1
    BY <1>3, <1>4, <1>7, <2>1
  <2>2. CASE i \in 2 .. n
    <3>1. m[i] = muxed[i] /\ muxed[i].role \in Roles
      BY <1>4, <2>2 DEF Muxing
    <3>2. i - 1 \in 1 .. n /\ m[i - 1] = muxed[i - 1]
      BY <1>4, <2>2
    <3>3. i < n => i + 1 \in 1 .. n /\ m[i + 1] = muxed[i + 1]
      BY <1>4, <2>2
    <3>4. rpc[muxed[i].role] = "ended" => rpc'[muxed[i].role] = "ended"
      BY <1>7, <3>1
    <3>5. rpc[muxed[i].role] # "mdat"
      BY <1>2, <3>1
    <3>6. IF muxed[i].part = "mdat"
          THEN i > 2 /\ muxed[i - 1] = [muxed[i] EXCEPT !.part = "moof"]
          ELSE \/ i < n /\ muxed[i + 1] = [muxed[i] EXCEPT !.part = "mdat"]
               \/ rpc[muxed[i].role] = "ended"
      BY <2>2, <3>5 DEF FragmentsWhole
    <3> QED
      BY <1>4, <2>2, <3>1, <3>2, <3>3, <3>4, <3>6
  <2> QED
    BY <1>4, <2>1, <2>2
<1> QED
  BY <1>4, <1>7, <1>9, <1>10 DEF FragmentsWhole

(* The second part, of the goroutine whose first part was the last.        *)
LEMMA MdatMuxed ==
  ASSUME TypeOK, Muxing, FragmentsWhole, NEW r \in Roles,
         rpc[r] = "mdat", rpc' = [rpc EXCEPT ![r] = "file"],
         muxed' = Append(muxed, Part(r, "mdat")),
         UNCHANGED <<inits, muxInit, current>>
  PROVE  Muxing' /\ FragmentsWhole'
<1> DEFINE n == Len(muxed)
           m == Append(muxed, Part(r, "mdat"))
<1>1. rpc \in [Roles -> Places] /\ muxed \in Seq(Parts)
      /\ \A q \in Roles : mu = q <=> rpc[q] \in {"mdat", "unlock"}
  BY DEF TypeOK, Places
<1>2. \A q \in Roles \ {r} : rpc[q] # "mdat"
  BY <1>1
<1>3. Part(r, "mdat") \in Parts /\ Part(r, "mdat").role = r /\ Part(r, "mdat").part = "mdat"
  BY PartsOfObjects
<1>4. /\ n \in Nat /\ Len(m) = n + 1 /\ m[n + 1] = Part(r, "mdat")
      /\ \A i \in 1 .. n : m[i] = muxed[i]
      /\ m # << >>
  BY <1>1, <1>3, Appended
<1>5. muxInit /\ muxed # << >> /\ n > 1 /\ muxed[n] = Part(r, "moof")
  BY <1>1 DEF Muxing, LastOf
<1>6. /\ [Part(r, "mdat") EXCEPT !.part = "moof"] = Part(r, "moof")
      /\ [Part(r, "moof") EXCEPT !.part = "mdat"] = Part(r, "mdat")
      /\ Part(r, "moof").part = "moof"
  BY DEF Part
<1> HIDE DEF m
<1>7. muxed' = m /\ (\A q \in Roles \ {r} : rpc'[q] = rpc[q]) /\ rpc'[r] = "file"
  BY <1>1 DEF m
<1>8. \A i \in 2 .. n + 1 : m[i].role \in Roles /\ m[i].part \in {"moof", "mdat"}
  <2> TAKE i \in 2 .. n + 1
  <2>1. CASE i = n + 1
    BY <1>3, <1>4, <2>1
  <2>2. CASE i \in 2 .. n
    BY <1>4, <2>2 DEF Muxing
  <2> QED
    BY <1>4, <2>1, <2>2
<1>9. Muxing'
  <2>1. m[1] = muxed[1]
    BY <1>4, <1>5
  <2>2. muxInit' /\ inits' = Roles /\ muxed'[1].role = "both" /\ muxed' # << >>
    BY <1>4, <1>5, <1>7, <2>1 DEF Muxing
  <2>3. \A q \in Roles : rpc'[q] # "mdat"
    BY <1>2, <1>7
  <2> QED
    BY <1>4, <1>7, <1>8, <2>2, <2>3 DEF Muxing
<1>10. ASSUME NEW i \in 2 .. n + 1
       PROVE  IF m[i].part = "mdat"
              THEN i > 2 /\ m[i - 1] = [m[i] EXCEPT !.part = "moof"]
              ELSE \/ i < n + 1 /\ m[i + 1] = [m[i] EXCEPT !.part = "mdat"]
                   \/ rpc'[m[i].role] = "mdat" /\ i = n + 1
                   \/ rpc'[m[i].role] = "ended"
  <2>1. CASE i = n + 1
    <3>1. i > 2 /\ i - 1 = n /\ m[n] = muxed[n]
      BY <1>4, <1>5, <2>1
    <3> QED
      BY <1>3, <1>4, <1>5, <1>6, <2>1, <3>1
  <2>2. CASE i = n
    <3>1. m[n] = muxed[n] /\ n < n + 1
      BY <1>4, <1>5
    <3> QED
      BY <1>4, <1>5, <1>6, <2>2, <3>1
  <2>3. CASE i \in 2 .. n - 1
    <3>1. m[i] = muxed[i] /\ muxed[i].role \in Roles /\ i # n
      BY <1>4, <2>3 DEF Muxing
    <3>2. m[i - 1] = muxed[i - 1] /\ m[i + 1] = muxed[i + 1]
      BY <1>4, <2>3
    <3>3. rpc[muxed[i].role] = "ended" => rpc'[muxed[i].role] = "ended"
      BY <1>7, <3>1
    <3>4. IF muxed[i].part = "mdat"
          THEN i > 2 /\ muxed[i - 1] = [muxed[i] EXCEPT !.part = "moof"]
          ELSE \/ i < n /\ muxed[i + 1] = [muxed[i] EXCEPT !.part = "mdat"]
               \/ rpc[muxed[i].role] = "ended"
      BY <1>4, <2>3, <3>1 DEF FragmentsWhole
    <3> QED
      BY <1>4, <2>3, <3>1, <3>2, <3>3, <3>4
  <2> QED
    BY <1>4, <2>1, <2>2, <2>3
<1> QED
  BY <1>4, <1>7, <1>9, <1>10 DEF FragmentsWhole

(* A second part that could not be written: the first stays without it.    *)
LEMMA MdatFails ==
  ASSUME TypeOK, Muxing, FragmentsWhole, NEW r \in Roles,
         rpc[r] = "mdat", rpc' = [rpc EXCEPT ![r] = "ended"],
         UNCHANGED <<inits, muxInit, muxed, current>>
  PROVE  Muxing' /\ FragmentsWhole'
<1>1. rpc \in [Roles -> Places]
  BY DEF TypeOK, Places
<1>2. (\A q \in Roles \ {r} : rpc'[q] = rpc[q]) /\ rpc'[r] = "ended"
  BY <1>1
<1>3. Muxing'
  <2>1. \A q \in Roles : Part(q, "moof")' = Part(q, "moof")
    BY DEF Part, Position
  <2> QED
    BY <1>2, <2>1 DEF Muxing, LastOf
<1>4. \A i \in 2 .. Len(muxed) :
        /\ muxed[i].role \in Roles
        /\ rpc[muxed[i].role] \in {"mdat", "ended"} =>
             rpc'[muxed[i].role] \in {rpc[muxed[i].role], "ended"}
  BY <1>2 DEF Muxing
<1> QED
  BY <1>3, <1>4 DEF FragmentsWhole
-----------------------------------------------------------------------------
(* The outputs of the roles                                                *)

(* A step that reads nothing and files nothing.                            *)
LEMMA NothingFiled ==
  ASSUME TypeOK, Filing, NEW r \in Roles, NEW place \in Places,
         rpc' = [rpc EXCEPT ![r] = place],
         rpc[r] # "ended", place # "read",
         rpc[r] = "read" => place = "ended",
         UNCHANGED <<setting, log, current, file>>
  PROVE  Filing'
<1>1. rpc \in [Roles -> Places] /\ log \in [Roles -> Seq(Entries)]
      /\ file \in [Roles -> Seq(Nat)]
  BY DEF TypeOK, Places
<1>2. (\A q \in Roles \ {r} : rpc'[q] = rpc[q]) /\ rpc'[r] = place
  BY <1>1
<1>3. Len(log[r]) \in Nat /\ Len(file[r]) \in Nat
  BY <1>1, Lengths
<1>4. ASSUME NEW q \in Roles
      PROVE  Position(current[q])' = Position(current[q])
  BY DEF Position
<1> SUFFICES ASSUME NEW q \in Roles
             PROVE  /\ rpc'[q] \notin {"read", "ended"} =>
                         log[q] # << >> /\ LastOf(log[q]).position = Position(current[q])
                    /\ setting.out =>
                         /\ \A i \in DOMAIN file[q] :
                              i \in DOMAIN log[q] /\ file[q][i] = log[q][i].position
                         /\ rpc'[q] = "read" => Len(log[q]) = Len(file[q])
                         /\ rpc'[q] = "ended" => Len(log[q]) - Len(file[q]) \in {0, 1}
                         /\ rpc'[q] \notin {"read", "ended"} => Len(log[q]) = Len(file[q]) + 1
  BY <1>4 DEF Filing, LastOf
<1>5. CASE q = r
  <2>1. rpc[r] \notin {"read", "ended"} \/ (rpc[r] = "read" /\ place = "ended")
    OBVIOUS
  <2>2. place # "ended" => rpc[r] \notin {"read", "ended"}
    BY <2>1
  <2>3. setting.out => Len(log[r]) - Len(file[r]) \in {0, 1}
    BY <1>3, <2>1 DEF Filing
  <2> QED
    BY <1>2, <1>5, <2>2, <2>3 DEF Filing
<1>6. CASE q # r
  BY <1>2, <1>6 DEF Filing
<1> QED
  BY <1>5, <1>6

(* The object in hand is written, or not.                                  *)
LEMMA ObjectFiled ==
  ASSUME TypeOK, Filing, NEW r \in Roles, WriteFile(r)
  PROVE  Filing'
<1>1. /\ rpc \in [Roles -> Places] /\ log \in [Roles -> Seq(Entries)]
      /\ file \in [Roles -> Seq(Nat)] /\ setting.out \in BOOLEAN
  BY SettingFields DEF TypeOK, Places
<1>2. PICK ok \in (IF setting.out THEN BOOLEAN ELSE {TRUE}) :
        /\ file' = IF setting.out /\ ok
                   THEN [file EXCEPT ![r] = Append(file[r], Position(current[r]))] ELSE file
        /\ rpc' = [rpc EXCEPT ![r] = IF ok THEN "read" ELSE "ended"]
  BY DEF WriteFile, To
<1>3. rpc[r] = "file" /\ UNCHANGED <<setting, current, log>>
  BY DEF WriteFile, At, AfterRead
<1>4. (\A q \in Roles \ {r} : rpc'[q] = rpc[q] /\ file'[q] = file[q])
      /\ rpc'[r] \in {"read", "ended"}
  BY <1>1, <1>2
<1>5. log[r] # << >> /\ LastOf(log[r]).position = Position(current[r])
  BY <1>3 DEF Filing
<1>6. ASSUME NEW q \in Roles
      PROVE  Position(current[q])' = Position(current[q])
  BY <1>3 DEF Position
<1>7. /\ Len(log[r]) \in Nat /\ DOMAIN log[r] = 1 .. Len(log[r])
      /\ Len(file[r]) \in Nat /\ DOMAIN file[r] = 1 .. Len(file[r])
  BY <1>1, Lengths
<1>8. CASE setting.out /\ ok
  <2> DEFINE f == Append(file[r], Position(current[r]))
  <2>1. Position(current[r]) \in Nat
    BY PartsOfObjects
  <2>2. /\ Len(f) = Len(file[r]) + 1 /\ DOMAIN f = 1 .. Len(file[r]) + 1
        /\ \A i \in 1 .. Len(file[r]) : f[i] = file[r][i]
        /\ f[Len(file[r]) + 1] = Position(current[r])
    BY <1>1, <2>1, Appended
  <2>3. file'[r] = f /\ rpc'[r] = "read"
    BY <1>1, <1>2, <1>8
  <2> HIDE DEF f
  <2>4. Len(log[r]) = Len(file[r]) + 1
    BY <1>3, <1>8 DEF Filing
  <2>5. log[r][Len(file[r]) + 1].position = Position(current[r])
    BY <1>5, <2>4 DEF LastOf
  <2>6. \A i \in DOMAIN f : i \in DOMAIN log[r] /\ f[i] = log[r][i].position
    <3> TAKE i \in DOMAIN f
    <3>1. i \in DOMAIN log[r]
      BY <1>7, <2>2, <2>4
    <3>2. CASE i = Len(file[r]) + 1
      BY <2>2, <2>5, <3>1, <3>2
    <3>3. CASE i \in 1 .. Len(file[r])
      BY <1>7, <1>8, <2>2, <3>1, <3>3 DEF Filing
    <3> QED
      BY <1>7, <2>2, <3>2, <3>3
  <2>7. Len(f) = Len(log[r])
    BY <2>2, <2>4
  <2> QED
    BY <1>3, <1>4, <1>6, <2>3, <2>6, <2>7 DEF Filing, LastOf
<1>9. CASE ~(setting.out /\ ok)
  <2>1. file' = file /\ (setting.out => rpc'[r] = "ended")
    BY <1>1, <1>2, <1>9
  <2>2. setting.out => Len(log[r]) - Len(file[r]) \in {0, 1}
    BY <1>3, <1>7 DEF Filing
  <2> QED
    BY <1>3, <1>4, <1>6, <2>1, <2>2 DEF Filing, LastOf
<1> QED
  BY <1>8, <1>9
-----------------------------------------------------------------------------
(* What is read                                                            *)

(* Earlier interruptions are still there when an entry is appended.        *)
LEMMA StillInterrupted ==
  ASSUME NEW s \in Seq(Entries), NEW e \in Entries, NEW i \in 1 .. Len(s)
  PROVE  /\ Append(s, e)[i] = s[i]
         /\ Interrupted(s, i) => Interrupted(Append(s, e), i)
<1> DEFINE t == Append(s, e)
<1>1. Len(s) \in Nat /\ \A j \in 1 .. Len(s) : t[j] = s[j]
  BY Appended
<1> HIDE DEF t
<1>2. ASSUME Interrupted(s, i)
      PROVE  Interrupted(t, i)
  <2>0. PICK j \in 1 .. i - 1 : \E h \in 1 .. j - 1 :
          GroupOf(s[h]) = GroupOf(s[i]) /\ GroupOf(s[j]) # GroupOf(s[i])
    BY <1>2 DEF Interrupted
  <2>1. PICK h \in 1 .. j - 1 :
          GroupOf(s[h]) = GroupOf(s[i]) /\ GroupOf(s[j]) # GroupOf(s[i])
    BY <2>0
  <2>2. t[h] = s[h] /\ t[i] = s[i] /\ t[j] = s[j]
    BY <1>1, <2>1
  <2> QED
    BY <2>1, <2>2 DEF Interrupted
<1> QED
  BY <1>1, <1>2 DEF t

(* The decode time that the expansion finds is that of the object, or the  *)
(* object was interrupted by one of another group.                         *)
LEMMA Expanded ==
  ASSUME TypeOK, LastRead, InOrder, DecodedInTime,
         NEW r \in Roles, rpc[r] # "ended", NEW o \in Objects,
         o.object = got[r][o.group], setting.packaging[r] = "locmaf",
         NEW e \in Entries, e.position = Position(o), e.time = Decode(r, o).time,
         e.time # e.position
  PROVE  ~setting.ordered /\ Interrupted(Append(log[r], e), Len(log[r]) + 1)
<1> DEFINE g == o.group
           n == Len(log[r])
           c == current[r]
           last == log[r][n]
           t == Append(log[r], e)
<1>1. /\ log[r] \in Seq(Entries) /\ c \in Objects /\ got[r] \in [Groups -> 0 .. GroupSize]
      /\ GroupSize \in Nat \ {0} /\ setting.ordered \in BOOLEAN
  BY ReadingAssumption, SettingFields DEF TypeOK
<1>2. /\ g \in Groups /\ o.object \in 0 .. GroupSize - 1 /\ g \in Nat
      /\ Position(o) \div GroupSize = g
  BY Positions
<1>3. o.object > 0 /\ e.time = state[r] + 1
  BY <1>1, <1>2 DEF Decode
<1>4. /\ n \in Nat /\ DOMAIN log[r] = 1 .. n
      /\ \A i \in 1 .. n : t[i] = log[r][i]
      /\ t[n + 1] = e
  BY <1>1, Appended
<1>5. PICK h \in 1 .. n : GroupOf(log[r][h]) = g
  BY <1>2, <1>3, <1>4 DEF LastRead
<1>6. n > 0 /\ log[r] # << >>
  BY <1>1, <1>4, <1>5
<1>7. /\ last.position = Position(c) /\ got[r][c.group] = c.object + 1
      /\ state[r] = last.time
  BY <1>6 DEF LastRead, LastOf
<1>8. /\ c.group \in Groups /\ c.object \in 0 .. GroupSize - 1 /\ c.group \in Nat
      /\ Position(c) \div GroupSize = c.group
  BY <1>1, Positions
<1>9. GroupOf(last) = c.group /\ GroupOf(e) = g
  BY <1>2, <1>7, <1>8 DEF GroupOf
<1> HIDE DEF t
<1>10. CASE c.group = g
  <2>1. o.object = c.object + 1
    BY <1>7, <1>10
  <2>2. Position(o) = Position(c) + 1
    <3>1. g * GroupSize \in Nat
      BY <1>1, <1>2
    <3> QED
      BY <1>8, <1>10, <2>1, <3>1 DEF Position
  <2>3. last.time # last.position
    BY <1>3, <1>7, <2>2
  <2>4. ~setting.ordered /\ Interrupted(log[r], n)
    BY <1>4, <1>6, <2>3 DEF DecodedInTime
  <2> PICK j \in 1 .. n - 1 : \E k \in 1 .. j - 1 :
        /\ GroupOf(log[r][k]) = GroupOf(last) /\ GroupOf(log[r][j]) # GroupOf(last)
    BY <2>4 DEF Interrupted
  <2>5. PICK k \in 1 .. j - 1 :
          /\ GroupOf(log[r][k]) = GroupOf(last) /\ GroupOf(log[r][j]) # GroupOf(last)
    OBVIOUS
  <2>6. t[k] = log[r][k] /\ t[j] = log[r][j] /\ j \in 1 .. n + 1 - 1
    BY <1>4, <2>5
  <2>7. GroupOf(t[k]) = GroupOf(t[n + 1]) /\ GroupOf(t[j]) # GroupOf(t[n + 1])
    BY <1>4, <1>9, <1>10, <2>5, <2>6
  <2>8. Interrupted(t, n + 1)
    BY <2>5, <2>6, <2>7 DEF Interrupted
  <2> QED
    BY <2>4, <2>8 DEF t
<1>11. CASE c.group # g
  <2>1. h # n
    BY <1>5, <1>9, <1>11
  <2>2. n \in 1 .. n + 1 - 1 /\ h \in 1 .. n - 1
    BY <1>4, <1>5, <1>6, <2>1
  <2>3. GroupOf(t[h]) = GroupOf(t[n + 1]) /\ GroupOf(t[n]) # GroupOf(t[n + 1])
    <3>1. t[h] = log[r][h] /\ t[n] = last
      BY <1>4, <1>6, <2>2
    <3> QED
      BY <1>4, <1>5, <1>9, <1>11, <3>1
  <2>4. Interrupted(t, n + 1)
    BY <2>2, <2>3 DEF Interrupted
  <2>5. ASSUME setting.ordered
        PROVE  FALSE
    <3>1. g <= c.group
      BY <1>2, <1>3, <1>6, <2>5 DEF InOrder
    <3>2. g < c.group
      BY <1>2, <1>8, <1>11, <3>1
    <3>3. got[r][g] = GroupSize
      BY <1>2, <1>7, <1>8, <2>5, <3>2 DEF InOrder
    <3> QED
      BY <1>1, <1>2, <3>3
  <2> QED
    BY <2>4, <2>5 DEF t
<1> QED
  BY <1>10, <1>11

(* A step that reads nothing, of a goroutine that had not ended.           *)
LEMMA NothingRead ==
  ASSUME TypeOK, LastRead, InOrder, DecodedInTime, NEW r \in Roles, NEW place \in Places,
         rpc[r] # "ended", rpc' = [rpc EXCEPT ![r] = place],
         UNCHANGED <<setting, got, current, state, log>>
  PROVE  LastRead' /\ InOrder' /\ DecodedInTime'
<1>1. rpc \in [Roles -> Places]
  BY DEF TypeOK, Places
<1>2. \A q \in Roles : rpc'[q] # "ended" => rpc[q] # "ended"
  BY <1>1
<1>3. \A q \in Roles : Position(current[q])' = Position(current[q])
  BY DEF Position
<1>4. LastRead'
  BY <1>2, <1>3 DEF LastRead, LastOf, GroupOf
<1>5. InOrder'
  BY <1>2 DEF InOrder
<1>6. DecodedInTime'
  BY DEF DecodedInTime, Interrupted, GroupOf
<1> QED
  BY <1>4, <1>5, <1>6

(* An object that is understood: e is what is noted of it.                 *)
LEMMA ObjectRead ==
  ASSUME TypeOK, Filing, LastRead, InOrder, DecodedInTime, NEW r \in Roles,
         rpc[r] = "read", NEW o \in Objects, Gets(r, o), NEW e \in Entries,
         e.position = Position(o),
         log' = [log EXCEPT ![r] = Append(log[r], e)],
         NEW place \in {"mux", "file"}, rpc' = [rpc EXCEPT ![r] = place],
         UNCHANGED <<setting, file>>,
         \A q \in Roles \ {r} : state'[q] = state[q],
         setting.packaging[r] = "locmaf" =>
           state'[r] = e.time /\ e.time = Decode(r, o).time,
         setting.packaging[r] # "locmaf" => e.time = e.position
  PROVE  Filing' /\ LastRead' /\ InOrder' /\ DecodedInTime'
<1> DEFINE n == Len(log[r])
           t == Append(log[r], e)
<1>1. /\ rpc \in [Roles -> Places] /\ log \in [Roles -> Seq(Entries)]
      /\ got \in [Roles -> [Groups -> 0 .. GroupSize]] /\ current \in [Roles -> Objects]
      /\ file \in [Roles -> Seq(Nat)]
      /\ GroupSize \in Nat \ {0} /\ setting.ordered \in BOOLEAN
  BY ReadingAssumption, SettingFields DEF TypeOK, Places
<1>2. /\ o.group \in Groups /\ o.object \in 0 .. GroupSize - 1 /\ o.group \in Nat
      /\ Position(o) \div GroupSize = o.group
  BY Positions
<1>3. /\ n \in Nat /\ DOMAIN log[r] = 1 .. n /\ Len(t) = n + 1
      /\ DOMAIN t = 1 .. n + 1 /\ t # << >>
      /\ \A i \in 1 .. n : t[i] = log[r][i]
      /\ t[n + 1] = e /\ LastOf(t) = e
  <2>1. log[r] \in Seq(Entries)
    BY <1>1
  <2> QED
    BY <2>1, Appended
<1>4. /\ log'[r] = t /\ rpc'[r] \in {"mux", "file"} /\ current'[r] = o
      /\ got'[r][o.group] = o.object + 1
      /\ \A g \in Groups \ {o.group} : got'[r][g] = got[r][g]
      /\ o.object = got[r][o.group] /\ o.group \in Readable(r)
  BY <1>1, <1>2 DEF Gets
<1>5. \A q \in Roles \ {r} :
        /\ log'[q] = log[q] /\ rpc'[q] = rpc[q] /\ current'[q] = current[q]
        /\ got'[q] = got[q] /\ state'[q] = state[q]
  BY <1>1 DEF Gets
<1>6. \A q \in Roles \ {r} : Position(current[q])' = Position(current[q])
  BY <1>5 DEF Position
<1>7. Position(current[r])' = Position(o)
  BY <1>4 DEF Position
<1>8. setting' = setting /\ file' = file
  OBVIOUS
<1>9. setting.packaging[r] = "locmaf" => state'[r] = e.time
  OBVIOUS
<1> HIDE DEF t
<1>10. Filing'
  <2>1. ASSUME setting.out
        PROVE  /\ Len(t) = Len(file[r]) + 1
               /\ \A i \in DOMAIN file[r] : i \in DOMAIN t /\ file[r][i] = t[i].position
    <3>1. n = Len(file[r])
      BY <2>1 DEF Filing
    <3>2. \A i \in DOMAIN file[r] : i \in 1 .. n /\ file[r][i] = log[r][i].position
      BY <1>3, <2>1 DEF Filing
    <3> QED
      BY <1>3, <3>1, <3>2
  <2>2. ASSUME NEW q \in Roles
        PROVE  /\ rpc'[q] \notin {"read", "ended"} =>
                    log'[q] # << >> /\ LastOf(log'[q]).position = Position(current[q])'
               /\ setting.out =>
                    /\ \A i \in DOMAIN file[q] :
                         i \in DOMAIN log'[q] /\ file[q][i] = log'[q][i].position
                    /\ rpc'[q] = "read" => Len(log'[q]) = Len(file[q])
                    /\ rpc'[q] = "ended" => Len(log'[q]) - Len(file[q]) \in {0, 1}
                    /\ rpc'[q] \notin {"read", "ended"} => Len(log'[q]) = Len(file[q]) + 1
    <3>1. CASE q = r
      BY <1>3, <1>4, <1>7, <2>1, <3>1 DEF LastOf
    <3>2. CASE q # r
      BY <1>5, <1>6, <3>2 DEF Filing, LastOf
    <3> QED
      BY <3>1, <3>2
  <2> QED
    BY <1>8, <2>2 DEF Filing, LastOf
<1>11. LastRead'
  <2>1. ASSUME NEW g \in Groups, got'[r][g] > 0
        PROVE  \E h \in DOMAIN t : GroupOf(t[h]) = g
    <3>1. CASE g = o.group
      <4>1. n + 1 \in DOMAIN t /\ GroupOf(t[n + 1]) = g
        BY <1>2, <1>3, <3>1 DEF GroupOf
      <4> QED
        BY <4>1
    <3>2. CASE g # o.group
      <4>1. PICK h \in DOMAIN log[r] : GroupOf(log[r][h]) = g
        BY <1>4, <2>1, <3>2 DEF LastRead
      <4>2. h \in DOMAIN t /\ t[h] = log[r][h]
        BY <1>3, <4>1
      <4> QED
        BY <4>1, <4>2
    <3> QED
      BY <3>1, <3>2
  <2>2. ASSUME NEW q \in Roles, rpc'[q] # "ended"
        PROVE  /\ \A g \in Groups : got'[q][g] > 0 =>
                    \E h \in DOMAIN log'[q] : GroupOf(log'[q][h]) = g
               /\ log'[q] # << >> =>
                    /\ LastOf(log'[q]).position = Position(current[q])'
                    /\ got'[q][current'[q].group] = current'[q].object + 1
                    /\ setting.packaging[q] = "locmaf" => state'[q] = LastOf(log'[q]).time
    <3>1. CASE q = r
      BY <1>3, <1>4, <1>7, <1>9, <2>1, <3>1 DEF LastOf
    <3>2. CASE q # r
      <4>1. rpc[q] # "ended"
        BY <1>5, <2>2, <3>2
      <4> QED
        BY <1>5, <1>6, <3>2, <4>1 DEF LastRead, LastOf
    <3> QED
      BY <3>1, <3>2
  <2> QED
    BY <1>8, <2>2 DEF LastRead, LastOf, GroupOf
<1>12. InOrder'
  <2>1. ASSUME setting.ordered
        PROVE  /\ \A g, h \in Groups : h < g /\ got'[r][g] > 0 => got'[r][h] = GroupSize
               /\ \A g \in Groups : got'[r][g] > 0 => g <= o.group
    <3>1. \A h \in Groups : h < o.group => got[r][h] = GroupSize
      BY <1>2, <1>4, <2>1 DEF Readable, Groups
    <3>2. \A g, h \in Groups : h < g /\ got[r][g] > 0 => got[r][h] = GroupSize
      BY <2>1 DEF InOrder
    <3>3. got[r][o.group] # GroupSize
      BY <1>1, <1>2, <1>4
    <3>4. ASSUME NEW g \in Groups, NEW h \in Groups, h < g, got'[r][g] > 0
          PROVE  got'[r][h] = GroupSize
      <4>1. CASE g = o.group
        <5>1. h # o.group /\ got[r][h] = GroupSize
          BY <1>2, <3>1, <3>4, <4>1
        <5> QED
          BY <1>4, <5>1
      <4>2. CASE g # o.group
        <5>1. got[r][h] = GroupSize
          BY <1>4, <3>2, <3>4, <4>2
        <5>2. h # o.group
          BY <3>3, <5>1
        <5> QED
          BY <1>4, <5>1, <5>2
      <4> QED
        BY <4>1, <4>2
    <3>5. ASSUME NEW g \in Groups, got'[r][g] > 0
          PROVE  g <= o.group
      <4>1. CASE g > o.group
        <5>1. got[r][g] > 0
          BY <1>2, <1>4, <3>5, <4>1
        <5>2. got[r][o.group] = GroupSize
          BY <1>2, <3>2, <4>1, <5>1
        <5> QED
          BY <3>3, <5>2
      <4>2. g \in Nat
        BY ReadingAssumption DEF Groups
      <4> QED
        BY <1>2, <4>1, <4>2
    <3> QED
      BY <3>4, <3>5
  <2>2. ASSUME NEW q \in Roles, setting.ordered, rpc'[q] # "ended"
        PROVE  /\ \A g, h \in Groups : h < g /\ got'[q][g] > 0 => got'[q][h] = GroupSize
               /\ \A g \in Groups : log'[q] # << >> /\ got'[q][g] > 0 =>
                    g <= current'[q].group
    <3>1. CASE q = r
      BY <1>4, <2>1, <2>2, <3>1
    <3>2. CASE q # r
      <4>1. rpc[q] # "ended"
        BY <1>5, <2>2, <3>2
      <4> QED
        BY <1>5, <2>2, <3>2, <4>1 DEF InOrder
    <3> QED
      BY <3>1, <3>2
  <2> QED
    BY <1>8, <2>2 DEF InOrder
<1>13. DecodedInTime'
  <2>1. ASSUME NEW i \in 1 .. n + 1, t[i].time # t[i].position
        PROVE  ~setting.ordered /\ Interrupted(t, i)
    <3>1. CASE i = n + 1
      <4>1. e.time # e.position /\ setting.packaging[r] = "locmaf"
        BY <1>3, <2>1, <3>1
      <4>2. e.time = Decode(r, o).time
        BY <4>1
      <4> QED
        BY <1>4, <3>1, <4>1, <4>2, Expanded DEF t
    <3>2. CASE i \in 1 .. n
      <4>1. t[i] = log[r][i] /\ (Interrupted(log[r], i) => Interrupted(t, i))
        BY <1>1, <3>2, StillInterrupted DEF t
      <4>2. ~setting.ordered /\ Interrupted(log[r], i)
        BY <1>3, <2>1, <3>2, <4>1 DEF DecodedInTime
      <4> QED
        BY <4>1, <4>2
    <3> QED
      BY <1>3, <3>1, <3>2
  <2>2. ASSUME NEW q \in Roles, NEW i \in DOMAIN log'[q],
               log'[q][i].time # log'[q][i].position
        PROVE  ~setting.ordered /\ Interrupted(log'[q], i)
    <3>1. CASE q = r
      BY <1>3, <1>4, <2>1, <2>2, <3>1
    <3>2. CASE q # r
      <4>1. log'[q] = log[q]
        BY <1>5, <3>2
      <4>2. ~setting.ordered /\ Interrupted(log[q], i)
        BY <2>2, <4>1 DEF DecodedInTime
      <4> QED
        BY <4>1, <4>2
    <3> QED
      BY <3>1, <3>2
  <2> QED
    BY <1>8, <2>2 DEF DecodedInTime
<1> QED
  BY <1>10, <1>11, <1>12, <1>13
-----------------------------------------------------------------------------
(* The invariant                                                           *)

LEMMA ReadInvInit ==
  ASSUME Init
  PROVE  ReadInv
<1>1. /\ setting \in Settings /\ ctxDone = FALSE
      /\ inits = {} /\ muxInit = FALSE /\ mu = "free" /\ muxed = << >>
      /\ toAdd \subseteq Roles
      /\ rpc \in [Roles -> {"read", "ended"}]
      /\ got = [r \in Roles |-> [g \in Groups |-> 0]]
      /\ current = [r \in Roles |-> Nothing]
      /\ state = [r \in Roles |-> 0]
      /\ haveSeq = [r \in Roles |-> FALSE] /\ lastSeq = [r \in Roles |-> 0]
      /\ log = [r \in Roles |-> << >>]
      /\ file = [r \in Roles |-> << >>]
  BY DEF Init
<1>2. /\ GroupSize \in Nat \ {0} /\ MaxGroup \in Nat \ {0} /\ CounterMod \in Nat
      /\ CounterMod > GroupSize * MaxGroup /\ GroupSize * MaxGroup \in Nat
  BY ReadingAssumption
<1>3. 0 \in Groups /\ 0 \in 0 .. GroupSize - 1 /\ 0 \in 0 .. CounterMod - 1
      /\ 0 \in 0 .. GroupSize
  BY <1>2 DEF Groups
<1>4. Nothing \in Objects
  BY <1>3 DEF Nothing, Objects
<1>5. /\ got \in [Roles -> [Groups -> 0 .. GroupSize]]
      /\ current \in [Roles -> Objects]
      /\ state \in [Roles -> Nat]
      /\ haveSeq \in [Roles -> BOOLEAN] /\ lastSeq \in [Roles -> 0 .. CounterMod - 1]
      /\ log \in [Roles -> Seq(Entries)] /\ file \in [Roles -> Seq(Nat)]
      /\ muxed \in Seq(Parts)
  BY <1>1, <1>3, <1>4
<1>6. /\ rpc \in [Roles -> {"read", "mux", "encode", "mdat", "unlock", "file", "ended"}]
      /\ \A r \in Roles : mu = r <=> rpc[r] \in {"mdat", "unlock"}
      /\ mu \in Roles \union {"free"}
  BY <1>1 DEF Roles
<1>7. TypeOK
  BY <1>1, <1>5, <1>6 DEF TypeOK
<1>8. Muxing /\ FragmentsWhole
  BY <1>1 DEF Muxing, FragmentsWhole
<1>9. \A r \in Roles : Len(log[r]) = 0 /\ Len(file[r]) = 0 /\ DOMAIN file[r] = {}
                       /\ DOMAIN log[r] = {} /\ log[r] = << >>
  BY <1>1
<1>10. Filing
  BY <1>1, <1>9 DEF Filing
<1>11. LastRead /\ InOrder /\ DecodedInTime
  <2>1. \A r \in Roles : \A g \in Groups : got[r][g] = 0
    BY <1>1
  <2> QED
    BY <1>9, <2>1 DEF LastRead, InOrder, DecodedInTime
<1> QED
  BY <1>7, <1>8, <1>10, <1>11 DEF ReadInv

LEMMA ReadingNext ==
  ASSUME ReadInv, NEW r \in Roles, Read(r)
  PROVE  ReadInv'
<1>0. TypeOK /\ Muxing /\ FragmentsWhole /\ Filing /\ LastRead /\ InOrder /\ DecodedInTime
  BY DEF ReadInv
<1>1. rpc[r] = "read" /\ UNCHANGED <<setting, ctxDone, muxVars, file>>
  BY <1>0, Reading
<1>2. PICK o \in Objects :
        /\ Gets(r, o)
        /\ \/ Expands(r, o)
           \/ CannotExpand(r)
           \/ \E entry \in Entries : Takes(r, o, entry)
  BY <1>0, Reading
<1>3. TypeOK'
  BY <1>0, ReadTypes
<1>4. UNCHANGED <<inits, muxInit, muxed>> /\ (\A q \in Roles \ {r} : current'[q] = current[q])
  BY <1>0, <1>1, <1>2 DEF muxVars, Gets, TypeOK
<1>5. /\ state \in [Roles -> Nat] /\ GroupSize \in Nat \ {0} /\ Position(o) \in Nat
      /\ o.object \in Nat
  BY <1>0, ReadingAssumption, Positions DEF TypeOK
<1>6. CASE Expands(r, o)
  <2> DEFINE e == Entry(o, Decode(r, o).time)
  <2>1. /\ Decode(r, o).time \in Nat
        /\ Decode(r, o).next = Decode(r, o).time
    BY <1>5 DEF Decode
  <2>2. e \in Entries /\ e.position = Position(o) /\ e.time = Decode(r, o).time
    BY <1>5, <2>1 DEF Entry, Entries
  <2>3. /\ setting.packaging[r] = "locmaf"
        /\ log' = [log EXCEPT ![r] = Append(log[r], e)]
        /\ rpc' = [rpc EXCEPT ![r] = "mux"]
        /\ state'[r] = e.time
        /\ \A q \in Roles \ {r} : state'[q] = state[q]
    BY <1>5, <1>6, <2>1, <2>2 DEF Expands
  <2> HIDE DEF e
  <2>4. Filing' /\ LastRead' /\ InOrder' /\ DecodedInTime'
    BY <1>0, <1>1, <1>2, <2>2, <2>3, ObjectRead
  <2>5. Muxing' /\ FragmentsWhole'
    <3>1. "mux" \in Places
      BY DEF Places
    <3> QED
      BY <1>0, <1>1, <1>4, <2>3, <3>1, NothingMuxed
  <2> QED
    BY <1>3, <2>4, <2>5 DEF ReadInv
<1>7. CASE CannotExpand(r)
  <2>1. rpc' = [rpc EXCEPT ![r] = "ended"] /\ UNCHANGED <<state, log, setting, file>>
    BY <1>1, <1>7 DEF CannotExpand
  <2>2. "ended" \in Places
    BY DEF Places
  <2>3. Muxing' /\ FragmentsWhole'
    BY <1>0, <1>1, <1>4, <2>1, <2>2, NothingMuxed
  <2>4. rpc \in [Roles -> Places]
    BY <1>0 DEF TypeOK, Places
  <2>5. /\ rpc'[r] = "ended"
        /\ \A q \in Roles \ {r} : rpc'[q] = rpc[q] /\ got'[q] = got[q]
                                  /\ current'[q] = current[q]
    BY <1>0, <1>2, <1>4, <2>1, <2>4 DEF Gets, TypeOK
  <2>6. \A q \in Roles \ {r} : Position(current[q])' = Position(current[q])
    BY <2>5 DEF Position
  <2>7. Filing'
    <3>1. setting.out => Len(log[r]) - Len(file[r]) \in {0, 1}
      <4>1. Len(file[r]) \in Nat
        BY <1>0, Lengths DEF TypeOK
      <4> QED
        BY <1>0, <1>1, <4>1 DEF Filing
    <3>2. ASSUME NEW q \in Roles
          PROVE  /\ rpc'[q] \notin {"read", "ended"} =>
                      log[q] # << >> /\ LastOf(log[q]).position = Position(current[q])'
                 /\ setting.out =>
                      /\ \A i \in DOMAIN file[q] :
                           i \in DOMAIN log[q] /\ file[q][i] = log[q][i].position
                      /\ rpc'[q] = "read" => Len(log[q]) = Len(file[q])
                      /\ rpc'[q] = "ended" => Len(log[q]) - Len(file[q]) \in {0, 1}
                      /\ rpc'[q] \notin {"read", "ended"} => Len(log[q]) = Len(file[q]) + 1
      <4>1. CASE q = r
        BY <1>0, <2>5, <3>1, <4>1 DEF Filing
      <4>2. CASE q # r
        BY <1>0, <2>5, <2>6, <4>2 DEF Filing
      <4> QED
        BY <4>1, <4>2
    <3> QED
      BY <2>1, <3>2 DEF Filing, LastOf
  <2>8. LastRead'
    BY <1>0, <2>1, <2>5, <2>6 DEF LastRead, LastOf, GroupOf
  <2>9. InOrder'
    BY <1>0, <2>1, <2>5 DEF InOrder
  <2>10. DecodedInTime'
    BY <1>0, <2>1 DEF DecodedInTime, Interrupted, GroupOf
  <2> QED
    BY <1>3, <2>3, <2>7, <2>8, <2>9, <2>10 DEF ReadInv
<1>8. CASE \E entry \in Entries : Takes(r, o, entry)
  <2>1. PICK e \in Entries : Takes(r, o, e)
    BY <1>8
  <2>2. PICK place \in {"mux", "file"} : rpc' = [rpc EXCEPT ![r] = place]
    BY <2>1 DEF Takes
  <2>3. /\ setting.packaging[r] # "locmaf" /\ e.position = Position(o) /\ e.time = e.position
        /\ log' = [log EXCEPT ![r] = Append(log[r], e)] /\ state' = state
    BY <2>1 DEF Takes
  <2>4. Filing' /\ LastRead' /\ InOrder' /\ DecodedInTime'
    BY <1>0, <1>1, <1>2, <2>2, <2>3, ObjectRead
  <2>5. Muxing' /\ FragmentsWhole'
    <3>1. place \in Places /\ place \notin {"mdat", "encode", "unlock"}
      BY <2>2 DEF Places
    <3> QED
      BY <1>0, <1>1, <1>4, <2>2, <3>1, NothingMuxed
  <2> QED
    BY <1>3, <2>4, <2>5 DEF ReadInv
<1> QED
  BY <1>2, <1>6, <1>7, <1>8

LEMMA WritingNext ==
  ASSUME ReadInv, NEW r \in Roles, Writes(r)
  PROVE  ReadInv'
<1>0. TypeOK /\ Muxing /\ FragmentsWhole /\ Filing /\ LastRead /\ InOrder /\ DecodedInTime
  BY DEF ReadInv
<1>1. TypeOK' /\ UNCHANGED AfterRead
  BY <1>0, WritesKeepTypes
<1>2. UNCHANGED <<setting, inits, muxInit, got, current, state, log>>
      /\ \A q \in Roles \ {r} : current'[q] = current[q]
  BY <1>1 DEF AfterRead
<1>3. /\ rpc[r] \in {"mux", "encode", "mdat", "unlock", "file"}
      /\ \E place \in Places : rpc' = [rpc EXCEPT ![r] = place]
  BY DEF Writes, SkipMux, MuxParse, MuxMoof, MuxMdat, MuxFailed, WriteFile, At, To, Places
<1>4. LastRead' /\ InOrder' /\ DecodedInTime'
  <2>1. PICK place \in Places : rpc' = [rpc EXCEPT ![r] = place]
    BY <1>3
  <2> QED
    BY <1>0, <1>2, <1>3, <2>1, NothingRead
<1>5. ASSUME ~WriteFile(r)
      PROVE  Filing'
  <2>1. UNCHANGED file
    BY <1>5 DEF Writes, SkipMux, MuxParse, MuxMoof, MuxMdat, MuxFailed
  <2>2. PICK place \in Places \ {"read"} : rpc' = [rpc EXCEPT ![r] = place]
    BY <1>5 DEF Writes, SkipMux, MuxParse, MuxMoof, MuxMdat, MuxFailed, To, Places
  <2>3. place \in Places /\ place # "read" /\ rpc[r] \notin {"read", "ended"}
    BY <1>3, <2>2
  <2> QED
    BY <1>0, <1>2, <2>1, <2>2, <2>3, NothingFiled
<1>6. Filing'
  BY <1>0, <1>5, ObjectFiled
<1>7. Muxing' /\ FragmentsWhole'
  <2>1. CASE SkipMux(r) \/ MuxParse(r) \/ MuxFailed(r) \/ WriteFile(r)
    <3>1. UNCHANGED muxed
      BY <2>1 DEF SkipMux, MuxParse, MuxFailed, WriteFile
    <3>2. PICK place \in {"file", "encode", "ended", "read"} :
            rpc' = [rpc EXCEPT ![r] = place] /\ (place = "encode" => muxInit)
      BY <2>1 DEF SkipMux, MuxParse, MuxFailed, WriteFile, To
    <3>3. rpc[r] \in {"mux", "unlock", "file"}
      BY <2>1 DEF SkipMux, MuxParse, MuxFailed, WriteFile, At
    <3>4. /\ place \in Places /\ place # "mdat" /\ rpc[r] \notin {"mdat", "ended"}
          /\ place \in {"encode", "unlock"} => muxInit
      BY <3>2, <3>3 DEF Places
    <3> QED
      BY <1>0, <1>2, <3>1, <3>2, <3>4, NothingMuxed
  <2>2. CASE MuxMoof(r)
    <3>1. mu = "free" /\ rpc[r] = "encode"
      BY <2>2 DEF MuxMoof, Lock, At
    <3>2. PICK ok \in BOOLEAN :
            /\ muxed' = IF ok THEN Append(muxed, Part(r, "moof")) ELSE muxed
            /\ rpc' = [rpc EXCEPT ![r] = IF ok THEN "mdat" ELSE "unlock"]
      BY <2>2 DEF MuxMoof, To
    <3>3. CASE ok
      BY <1>0, <1>2, <3>1, <3>2, <3>3, MoofMuxed
    <3>4. CASE ~ok
      <4>1. rpc' = [rpc EXCEPT ![r] = "unlock"] /\ muxed' = muxed /\ muxInit
        BY <1>0, <3>1, <3>2, <3>4 DEF Muxing
      <4>2. "unlock" \in Places
        BY DEF Places
      <4> QED
        BY <1>0, <1>2, <3>1, <4>1, <4>2, NothingMuxed
    <3> QED
      BY <3>3, <3>4
  <2>3. CASE MuxMdat(r)
    <3>1. rpc[r] = "mdat"
      BY <2>3 DEF MuxMdat, At
    <3>2. PICK ok \in BOOLEAN :
            /\ muxed' = IF ok THEN Append(muxed, Part(r, "mdat")) ELSE muxed
            /\ rpc' = [rpc EXCEPT ![r] = IF ok THEN "file" ELSE "ended"]
      BY <2>3 DEF MuxMdat, To
    <3>3. CASE ok
      BY <1>0, <1>2, <3>1, <3>2, <3>3, MdatMuxed
    <3>4. CASE ~ok
      BY <1>0, <1>2, <3>1, <3>2, <3>4, MdatFails
    <3> QED
      BY <3>3, <3>4
  <2> QED
    BY <2>1, <2>2, <2>3 DEF Writes
<1> QED
  BY <1>1, <1>4, <1>6, <1>7 DEF ReadInv

LEMMA ReadEndsNext ==
  ASSUME ReadInv, NEW r \in Roles, ReadEnds(r)
  PROVE  ReadInv'
<1>0. TypeOK /\ Muxing /\ FragmentsWhole /\ Filing /\ LastRead /\ InOrder /\ DecodedInTime
  BY DEF ReadInv
<1>1. /\ rpc[r] = "read" /\ rpc' = [rpc EXCEPT ![r] = "ended"] /\ "ended" \in Places
      /\ UNCHANGED <<setting, ctxDone, muxVars, got, current, state, haveSeq, lastSeq,
                     log, file>>
  BY DEF ReadEnds, At, To, Places
<1>2. TypeOK'
  <2>1. rpc \in [Roles -> Places] /\ \A q \in Roles : mu = q <=> rpc[q] \in {"mdat", "unlock"}
    BY <1>0 DEF TypeOK, Places
  <2>2. rpc' \in [Roles -> Places] /\ \A q \in Roles : mu' = q <=> rpc'[q] \in {"mdat", "unlock"}
    BY <1>1, <2>1 DEF muxVars
  <2> QED
    BY <1>0, <1>1, <2>2 DEF TypeOK, muxVars, Places
<1>3. Muxing' /\ FragmentsWhole'
  BY <1>0, <1>1, NothingMuxed DEF muxVars
<1>4. Filing'
  BY <1>0, <1>1, NothingFiled
<1>5. LastRead' /\ InOrder' /\ DecodedInTime'
  BY <1>0, <1>1, NothingRead
<1> QED
  BY <1>2, <1>3, <1>4, <1>5 DEF ReadInv

LEMMA AddInitNext ==
  ASSUME ReadInv, NEW r \in Roles, AddInit(r)
  PROVE  ReadInv'
<1>0. TypeOK /\ Muxing /\ FragmentsWhole /\ Filing /\ LastRead /\ InOrder /\ DecodedInTime
  BY DEF ReadInv
<1>1. toAdd' = toAdd \ {r} /\ UNCHANGED <<setting, ctxDone, mu, readVars>>
  BY DEF AddInit
<1>2. PICK parsed \in BOOLEAN, written \in BOOLEAN :
        /\ inits' = IF parsed THEN inits \union {r} ELSE inits
        /\ muxInit' = (muxInit \/ (parsed /\ MuxInit(inits')))
        /\ muxed' = IF muxInit' /\ ~muxInit
                    THEN <<InitPart(written)>> ELSE muxed
  BY DEF AddInit
<1>3. InitPart(written) \in Parts /\ InitPart(written).role = "both"
  BY DEF InitPart, Parts
<1>4. muxInit \in BOOLEAN /\ inits \subseteq Roles /\ muxed \in Seq(Parts)
  BY <1>0 DEF TypeOK
<1>5. muxInit' \in BOOLEAN /\ inits' \subseteq Roles
  BY <1>2, <1>4
<1>6. muxed' \in Seq(Parts)
  <2>1. CASE muxInit' /\ ~muxInit
    <3>1. muxed' = <<InitPart(written)>>
      BY <1>2, <2>1
    <3> QED
      BY <1>3, <3>1
  <2>2. CASE ~(muxInit' /\ ~muxInit)
    BY <1>2, <1>4, <2>2
  <2> QED
    BY <2>1, <2>2
<1>7. TypeOK'
  BY <1>0, <1>1, <1>5, <1>6 DEF TypeOK, readVars
<1>8. \A q \in Roles : rpc'[q] = rpc[q] /\ Part(q, "moof")' = Part(q, "moof")
  BY <1>1 DEF readVars, Part, Position
<1>9. Muxing' /\ FragmentsWhole'
  <2>1. CASE muxInit' /\ ~muxInit
    <3>1. muxed' = <<InitPart(written)>> /\ inits' = Roles
      BY <1>2, <2>1 DEF MuxInit
    <3>2. Len(muxed') = 1 /\ muxed' # << >> /\ muxed'[1].role = "both"
      BY <1>3, <3>1
    <3>3. \A q \in Roles : rpc'[q] # "mdat"
      BY <1>0, <1>8, <2>1 DEF Muxing
    <3> QED
      BY <2>1, <3>1, <3>2, <3>3 DEF Muxing, FragmentsWhole
  <2>2. CASE ~(muxInit' /\ ~muxInit)
    <3>1. muxed' = muxed /\ muxInit' = muxInit
      BY <1>2, <1>4, <1>5, <2>2
    <3>2. muxInit => inits' = Roles
      BY <1>0, <1>2 DEF Muxing
    <3>3. Muxing'
      BY <1>0, <1>8, <3>1, <3>2 DEF Muxing, LastOf
    <3>4. rpc' = rpc
      BY <1>1 DEF readVars
    <3>5. FragmentsWhole'
      BY <1>0, <3>1, <3>4 DEF FragmentsWhole
    <3> QED
      BY <3>3, <3>5
  <2> QED
    BY <2>1, <2>2
<1>10. Filing' /\ LastRead' /\ InOrder' /\ DecodedInTime'
  <2>1. UNCHANGED <<setting, rpc, got, current, state, log, file>>
    BY <1>1 DEF readVars
  <2> QED
    BY <1>0, <2>1 DEF Filing, LastRead, InOrder, DecodedInTime, LastOf, Position, GroupOf,
                      Interrupted
<1> QED
  BY <1>7, <1>9, <1>10 DEF ReadInv

LEMMA SameNext ==
  ASSUME ReadInv, UNCHANGED <<setting, muxVars, readVars>>, ctxDone' \in BOOLEAN
  PROVE  ReadInv'
<1>1. TypeOK'
  BY DEF ReadInv, TypeOK, muxVars, readVars
<1>2. Muxing' /\ FragmentsWhole'
  BY DEF ReadInv, Muxing, FragmentsWhole, Part, Position, LastOf, muxVars, readVars
<1>3. Filing' /\ LastRead' /\ InOrder' /\ DecodedInTime'
  BY DEF ReadInv, Filing, LastRead, InOrder, DecodedInTime, Interrupted, GroupOf, Position,
         LastOf, muxVars, readVars
<1> QED
  BY <1>1, <1>2, <1>3 DEF ReadInv

(* The invariant holds initially and is kept by every step of the client's *)
(* cancellation, of the main goroutine and of the reading ones.            *)
THEOREM ReadInductive == Spec => []ReadInv
<1>1. Init => ReadInv
  BY ReadInvInit
<1>2. ReadInv /\ [Next]_vars => ReadInv'
  <2> SUFFICES ASSUME ReadInv, [Next]_vars
               PROVE  ReadInv'
    OBVIOUS
  <2>1. CASE CancelReading
    BY <2>1, SameNext DEF CancelReading
  <2>2. ASSUME NEW r \in Roles, AddInit(r)
        PROVE  ReadInv'
    BY <2>2, AddInitNext
  <2>3. ASSUME NEW r \in Roles, ReaderStep(r)
        PROVE  ReadInv'
    <3>1. CASE Read(r)
      BY <3>1, ReadingNext
    <3>2. CASE Writes(r)
      BY <3>2, WritingNext
    <3> QED
      BY <2>3, <3>1, <3>2 DEF ReaderStep, Writes
  <2>4. ASSUME NEW r \in Roles, ReadEnds(r)
        PROVE  ReadInv'
    BY <2>4, ReadEndsNext
  <2>5. CASE UNCHANGED vars
    <3>1. UNCHANGED <<setting, muxVars, readVars>> /\ ctxDone' \in BOOLEAN
      BY <2>5 DEF vars, muxVars, readVars, ReadInv, TypeOK
    <3> QED
      BY <3>1, SameNext
  <2> QED
    BY <2>1, <2>2, <2>3, <2>4, <2>5 DEF Next
<1> QED
  BY <1>1, <1>2, PTL DEF Spec

(* Every variable has its type, and the lock of the mux is held by the     *)
(* goroutine that is between the two writes of a fragment or that is to    *)
(* unlock it after a failure, by nobody else (mux.go:102).                 *)
THEOREM ReadingTypeCorrect == Spec => []TypeOK
<1>1. ReadInv => TypeOK
  BY DEF ReadInv
<1> QED
  BY <1>1, ReadInductive, PTL

(* However the streams of the groups overlap, the only LOCMAF objects that *)
(* are given another decode time than their own are those whose group was  *)
(* interrupted by another (sub.go:664, :763); with groups in order none.   *)
THEOREM ExpandedInTime == Spec => []DecodedInTime
<1>1. ReadInv => DecodedInTime
  BY DEF ReadInv
<1> QED
  BY <1>1, ReadInductive, PTL

(* The muxed output begins with both init segments and has no fragment     *)
(* torn apart by the other track, and the output of a role has what was    *)
(* read, each object once and in order, up to the one in hand (mux.go:77,  *)
(* loc.go:42).                                                             *)
THEOREM OutputsAreWhole == Spec => []OutputsWhole
<1>1. ReadInv => OutputsWhole
  <2> SUFFICES ASSUME ReadInv
               PROVE  OutputsWhole
    OBVIOUS
  <2>1. MuxedWhole
    BY DEF ReadInv, Muxing, MuxedWhole, TypeOK
  <2>2. ASSUME NEW r \in Roles, setting.out
        PROVE  LET positions == [i \in DOMAIN log[r] |-> log[r][i].position]
               IN  /\ IsPrefix(file[r], positions)
                   /\ Len(log[r]) - Len(file[r]) \in
                        IF rpc[r] = "read" THEN {0}
                        ELSE IF rpc[r] = "ended" THEN {0, 1} ELSE {1}
    <3> DEFINE positions == [i \in DOMAIN log[r] |-> log[r][i].position]
    <3>1. log[r] \in Seq(Entries) /\ file[r] \in Seq(Nat)
      BY DEF ReadInv, TypeOK
    <3>2. /\ Len(log[r]) \in Nat /\ DOMAIN log[r] = 1 .. Len(log[r])
          /\ Len(file[r]) \in Nat /\ DOMAIN file[r] = 1 .. Len(file[r])
          /\ \A i \in 1 .. Len(log[r]) : log[r][i].position \in Nat
      <4>1. \A i \in 1 .. Len(log[r]) : log[r][i] \in Entries
        BY <3>1, Lengths
      <4>2. \A e \in Entries : e.position \in Nat
        BY DEF Entries
      <4> QED
        BY <3>1, <4>1, <4>2, Lengths
    <3>3. positions \in Seq(Nat) /\ Len(positions) = Len(log[r])
      BY <3>2
    <3>4. /\ rpc[r] = "read" => Len(log[r]) = Len(file[r])
          /\ rpc[r] = "ended" => Len(log[r]) - Len(file[r]) \in {0, 1}
          /\ rpc[r] \notin {"read", "ended"} => Len(log[r]) = Len(file[r]) + 1
          /\ \A i \in DOMAIN file[r] :
               i \in DOMAIN log[r] /\ file[r][i] = log[r][i].position
      BY <2>2 DEF ReadInv, Filing
    <3>5. Len(file[r]) <= Len(positions)
      BY <3>2, <3>3, <3>4
    <3>6. \A i \in 1 .. Len(file[r]) : file[r][i] = positions[i]
      BY <3>2, <3>4
    <3>7. IsPrefix(file[r], positions)
      <4> HIDE DEF positions
      <4> QED
        BY <3>1, <3>3, <3>5, <3>6, PrefixOf
    <3>8. Len(log[r]) - Len(file[r]) \in
            IF rpc[r] = "read" THEN {0}
            ELSE IF rpc[r] = "ended" THEN {0, 1} ELSE {1}
      <4> DEFINE n == Len(log[r])
                 m == Len(file[r])
      <4>1. n \in Nat /\ m \in Nat
        BY <3>2
      <4>2. /\ rpc[r] = "read" => n = m
            /\ rpc[r] = "ended" => n - m \in {0, 1}
            /\ rpc[r] \notin {"read", "ended"} => n = m + 1
        BY <3>4
      <4> HIDE DEF n, m
      <4>3. n - m \in
              IF rpc[r] = "read" THEN {0}
              ELSE IF rpc[r] = "ended" THEN {0, 1} ELSE {1}
        BY <4>1, <4>2
      <4> QED
        BY <4>3 DEF n, m
    <3> QED
      BY <3>7, <3>8
  <2> QED
    BY <2>1, <2>2 DEF OutputsWhole, FileFollowsReads
<1> QED
  BY <1>1, ReadInductive, PTL
-----------------------------------------------------------------------------
(* Counters                                                                *)

(* A set of numbers has a least one.                                       *)
LEMMA LeastOf ==
  ASSUME NEW S \in SUBSET Nat, S # {}
  PROVE  \E x \in S : \A y \in S : x <= y
<1>1. PICK x \in S : \A y \in S : ~ (<<y, x>> \in OpToRel(<, Nat))
  BY WFMin, NatLessThanWellFounded
<1>2. \A y \in S : x <= y
  <2> SUFFICES ASSUME NEW y \in S, ~(x <= y)
               PROVE  FALSE
    OBVIOUS
  <2>1. x \in Nat /\ y \in Nat /\ y < x
    OBVIOUS
  <2> DEFINE yx == <<y, x>>
  <2>2. yx \in Nat \X Nat /\ yx[1] < yx[2]
    BY <2>1
  <2>3. ~ (yx \in OpToRel(<, Nat))
    BY <1>1
  <2> HIDE DEF yx
  <2> QED
    BY <2>2, <2>3 DEF OpToRel
<1> QED
  BY <1>2

(* The equation that GapTotal is defined by, up to the n-th object.        *)
SumsUp(total, entries, n) ==
  total = [k \in 0 .. n |-> IF k = 0 THEN 0 ELSE total[k - 1] + entries[k].gap]

LEMMA SumsExist ==
  ASSUME NEW s \in Seq(Entries), NEW n \in 0 .. Len(s)
  PROVE  \E total : SumsUp(total, s, n)
<1> DEFINE Without == {k \in 0 .. Len(s) : ~ \E total : SumsUp(total, s, k)}
<1>1. Len(s) \in Nat
  OBVIOUS
<1>2. SUFFICES ASSUME Without # {}
               PROVE  FALSE
  OBVIOUS
<1>3. PICK k \in Without : \A l \in Without : k <= l
  <2>1. Without \in SUBSET Nat
    BY <1>1
  <2> HIDE DEF Without
  <2> QED
    BY <1>2, <2>1, LeastOf
<1>4. CASE k = 0
  <2> DEFINE zero == [l \in 0 .. 0 |-> 0]
  <2>1. SumsUp(zero, s, 0)
    BY DEF SumsUp
  <2> QED
    BY <1>3, <1>4, <2>1
<1>5. CASE k # 0
  <2>1. k - 1 \in 0 .. Len(s) /\ k - 1 \notin Without /\ k \in Nat
    BY <1>1, <1>3, <1>5
  <2>2. PICK total : SumsUp(total, s, k - 1)
    BY <2>1
  <2> DEFINE longer == [l \in 0 .. k |-> IF l = k THEN total[k - 1] + s[k].gap ELSE total[l]]
  <2>3. \A l \in 0 .. k :
          longer[l] = IF l = 0 THEN 0 ELSE longer[l - 1] + s[l].gap
    <3> SUFFICES ASSUME NEW l \in 0 .. k
                 PROVE  longer[l] = IF l = 0 THEN 0 ELSE longer[l - 1] + s[l].gap
      OBVIOUS
    <3>1. CASE l = k
      BY <1>5, <2>1, <3>1
    <3>2. CASE l # k
      <4>1. l \in 0 .. k - 1
        BY <2>1, <3>2
      <4>2. total[l] = IF l = 0 THEN 0 ELSE total[l - 1] + s[l].gap
        BY <2>2, <4>1 DEF SumsUp
      <4> QED
        BY <2>1, <3>2, <4>1, <4>2
    <3> QED
      BY <3>1, <3>2
  <2>4. SumsUp(longer, s, k)
    <3>1. longer = [l \in 0 .. k |-> longer[l]]
      OBVIOUS
    <3> HIDE DEF longer
    <3> QED
      BY <2>3, <3>1 DEF SumsUp
  <2> QED
    BY <1>3, <2>4
<1> QED
  BY <1>4, <1>5

LEMMA Totals ==
  ASSUME NEW s \in Seq(Entries)
  PROVE  /\ GapTotal(s)[0] = 0
         /\ \A k \in 1 .. Len(s) : GapTotal(s)[k] = GapTotal(s)[k - 1] + s[k].gap
<1> DEFINE n == Len(s)
           total == GapTotal(s)
<1>1. n \in Nat
  OBVIOUS
<1>2. total = CHOOSE f : SumsUp(f, s, n)
  BY DEF GapTotal, SumsUp
<1>3. \E f : SumsUp(f, s, n)
  BY <1>1, SumsExist
<1>4. SumsUp(total, s, n)
  BY <1>2, <1>3
<1> HIDE DEF total, n
<1>5. \A k \in 0 .. n : total[k] = IF k = 0 THEN 0 ELSE total[k - 1] + s[k].gap
  BY <1>4 DEF SumsUp
<1> QED
  BY <1>1, <1>5 DEF total, n

(* What holds of 0 and of the number after each for which it holds.        *)
LEMMA UpTo ==
  ASSUME NEW n \in Nat, NEW S, 0 \in S, \A k \in 0 .. n - 1 : k \in S => k + 1 \in S
  PROVE  0 .. n \subseteq S
<1> DEFINE Out == (0 .. n) \ S
<1>1. SUFFICES ASSUME Out # {}
               PROVE  FALSE
  OBVIOUS
<1>2. PICK k \in Out : \A l \in Out : k <= l
  <2>1. Out \in SUBSET Nat
    OBVIOUS
  <2> HIDE DEF Out
  <2> QED
    BY <1>1, <2>1, LeastOf
<1>3. k # 0 /\ k \in 0 .. n
  BY <1>2
<1>4. k - 1 \in 0 .. n - 1 /\ k - 1 \notin Out /\ k - 1 + 1 = k
  BY <1>2, <1>3
<1> QED
  BY <1>2, <1>3, <1>4

LEMMA TotalsAreNumbers ==
  ASSUME NEW s \in Seq(Entries), NEW k \in 0 .. Len(s)
  PROVE  GapTotal(s)[k] \in Nat
<1> DEFINE n == Len(s)
           S == {l \in 0 .. n : GapTotal(s)[l] \in Nat}
<1>1. n \in Nat /\ \A l \in 1 .. n : s[l].gap \in Nat
  <2>1. n \in Nat /\ \A l \in 1 .. n : s[l] \in Entries
    BY Lengths
  <2> QED
    BY <2>1 DEF Entries
<1>2. 0 \in S
  BY <1>1, Totals
<1>3. \A l \in 0 .. n - 1 : l \in S => l + 1 \in S
  <2> SUFFICES ASSUME NEW l \in 0 .. n - 1, l \in S
               PROVE  l + 1 \in S
    OBVIOUS
  <2>1. l + 1 \in 1 .. n /\ l + 1 - 1 = l /\ l + 1 \in 0 .. n
    BY <1>1
  <2>2. GapTotal(s)[l + 1] = GapTotal(s)[l] + s[l + 1].gap
    BY <2>1, Totals
  <2> QED
    BY <1>1, <2>1, <2>2
<1>4. 0 .. n \subseteq S
  BY <1>1, <1>2, <1>3, UpTo
<1> QED
  BY <1>4

(* What one more object adds.                                              *)
LEMMA TotalAppended ==
  ASSUME NEW s \in Seq(Entries), NEW e \in Entries
  PROVE  /\ \A k \in 0 .. Len(s) : GapTotal(Append(s, e))[k] = GapTotal(s)[k]
         /\ GapTotal(Append(s, e))[Len(s) + 1] = GapTotal(s)[Len(s)] + e.gap
<1> DEFINE t == Append(s, e)
           n == Len(s)
           S == {l \in 0 .. n : GapTotal(t)[l] = GapTotal(s)[l]}
<1>1. /\ n \in Nat /\ t \in Seq(Entries) /\ Len(t) = n + 1 /\ t[n + 1] = e
      /\ \A i \in 1 .. n : t[i] = s[i]
  BY Appended
<1> HIDE DEF t, n
<1>2. 0 \in S
  BY <1>1, Totals DEF n
<1>3. \A l \in 0 .. n - 1 : l \in S => l + 1 \in S
  <2> SUFFICES ASSUME NEW l \in 0 .. n - 1, l \in S
               PROVE  l + 1 \in S
    OBVIOUS
  <2>1. /\ l + 1 \in 1 .. n /\ l + 1 \in 1 .. n + 1 /\ l + 1 - 1 = l /\ l + 1 \in 0 .. n
    BY <1>1
  <2>2. GapTotal(s)[l + 1] = GapTotal(s)[l] + s[l + 1].gap
    BY <2>1, Totals DEF n
  <2>3. GapTotal(t)[l + 1] = GapTotal(t)[l] + t[l + 1].gap
    BY <1>1, <2>1, Totals
  <2> QED
    BY <1>1, <2>1, <2>2, <2>3
<1>4. \A k \in 0 .. n : GapTotal(t)[k] = GapTotal(s)[k]
  BY <1>1, <1>2, <1>3, UpTo
<1>5. GapTotal(t)[n + 1] = GapTotal(t)[n] + e.gap
  <2>1. n + 1 \in 1 .. n + 1 /\ n + 1 - 1 = n
    BY <1>1
  <2> QED
    BY <1>1, <2>1, Totals
<1>6. n \in 0 .. n
  BY <1>1
<1> QED
  BY <1>4, <1>5, <1>6 DEF t, n

(* A counter reached modulo the width, and in order without it.            *)
Agrees(reached, position, ordered) ==
  reached % CounterMod = position /\ (ordered => reached = position)

(* The counter read last is what the first one and the gaps of the objects *)
(* add up to, and so is every other; with groups in order it is not ahead  *)
(* of the object in hand.                                                  *)
Counts(entries, have, last, inHand, ordered) ==
  LET n == Len(entries)
      total == GapTotal(entries)
  IN  /\ \A i \in 1 .. n : ~entries[i].counted => entries[i].gap = 0
      /\ have <=> \E i \in 1 .. n : entries[i].counted
      /\ ~have => total[n] = 0
      /\ have => \A i \in 1 .. n : FirstCounted(entries, i) =>
           Agrees(entries[i].position + total[n], last, ordered)
      /\ have /\ ordered => last <= inHand
      /\ \A i, j \in 1 .. n :
           FirstCounted(entries, i) /\ i <= j /\ entries[j].counted =>
             Agrees(entries[i].position + total[j], entries[j].position, ordered)

CountsOf(r) ==
  Counts(log[r], haveSeq[r], lastSeq[r], Position(current[r]), setting.ordered)

CountInv == \A r \in Roles : setting.packaging[r] = "moqmi" => CountsOf(r)

LEMMA QuotientAndRest ==
  ASSUME NEW m \in Nat \ {0}, NEW q \in Nat, NEW p \in 0 .. m - 1
  PROVE  (m * q + p) % m = p
<1> DEFINE a == m * q + p
           x == a % m
           y == a \div m
<1>1. a \in Nat
  OBVIOUS
<1>2. x \in 0 .. m - 1 /\ y \in Nat /\ a = m * y + x
  BY <1>1
<1> HIDE DEF x, y
<1>3. ~(y < q)
  <2> SUFFICES ASSUME y < q
               PROVE  FALSE
    OBVIOUS
  <2>1. m * (y + 1) <= m * q /\ m * (y + 1) = m * y + m
    BY <1>2
  <2> QED
    BY <1>2, <2>1
<1>4. ~(q < y)
  <2> SUFFICES ASSUME q < y
               PROVE  FALSE
    OBVIOUS
  <2>1. m * (q + 1) <= m * y /\ m * (q + 1) = m * q + m
    BY <1>2
  <2> QED
    BY <1>2, <2>1
<1>5. x = p
  BY <1>2, <1>3, <1>4
<1> QED
  BY <1>5 DEF x

(* A difference of two counters modulo the width leads from one to the     *)
(* other.                                                                  *)
LEMMA DeltaLeadsOn ==
  \A m \in Nat \ {0} : \A a \in Nat : \A l, p \in 0 .. m - 1 :
    a % m = l => /\ (a + ((m + p - l) % m)) % m = p
                 /\ l <= p => (m + p - l) % m = p - l
<1> TAKE m \in Nat \ {0}
<1> TAKE a \in Nat
<1> TAKE l, p \in 0 .. m - 1
<1> HAVE a % m = l
<1> DEFINE q == a \div m
           d == (m + p - l) % m
<1>1. q \in Nat /\ a = m * q + l
  OBVIOUS
<1>2. /\ l <= p => d = p - l
      /\ p < l => d = m + p - l
  OBVIOUS
<1> HIDE DEF d, q
<1>3. ASSUME l <= p
      PROVE  d \in Nat /\ (a + d) % m = p /\ (l <= p => d = p - l)
  <2>1. a + d = m * q + p /\ d \in Nat
    BY <1>1, <1>2, <1>3
  <2>2. (m * q + p) % m = p
    BY <1>1, QuotientAndRest
  <2>3. (a + d) % m = p
    BY <2>1, <2>2
  <2> QED
    BY <1>2, <2>1, <2>3
<1>4. ASSUME p < l
      PROVE  d \in Nat /\ (a + d) % m = p /\ (l <= p => d = p - l)
  <2>1. m * (q + 1) = m * q + m /\ q + 1 \in Nat /\ d \in Nat
    BY <1>1, <1>2, <1>4
  <2>2. a + d = m * (q + 1) + p
    BY <1>1, <1>2, <1>4, <2>1
  <2>3. (m * (q + 1) + p) % m = p
    BY <2>1, QuotientAndRest
  <2>4. (a + d) % m = p
    BY <2>2, <2>3
  <2> QED
    BY <1>2, <2>1, <2>4
<1>5. d \in Nat /\ (a + d) % m = p /\ (l <= p => d = p - l)
  BY <1>3, <1>4
<1> QED
  BY <1>5 DEF d

(* With groups in order the object that is read lies behind the last one.  *)
LEMMA InOrderForward ==
  ASSUME TypeOK, LastRead, InOrder, NEW r \in Roles, rpc[r] = "read", NEW o \in Objects,
         Gets(r, o), setting.ordered, log[r] # << >>
  PROVE  Position(current[r]) < Position(o)
<1> DEFINE c == current[r]
<1>1. /\ c \in Objects /\ GroupSize \in Nat \ {0} /\ MaxGroup \in Nat \ {0}
      /\ got \in [Roles -> [Groups -> 0 .. GroupSize]]
  BY ReadingAssumption DEF TypeOK
<1>2. /\ c.group \in Groups /\ c.object \in 0 .. GroupSize - 1 /\ c.group \in Nat
      /\ o.group \in Groups /\ o.object \in 0 .. GroupSize - 1 /\ o.group \in Nat
      /\ o.object \in Nat /\ c.object \in Nat
  BY <1>1, Positions
<1>3. /\ got[r][c.group] = c.object + 1 /\ o.object = got[r][o.group]
      /\ o.group \in Readable(r)
  BY DEF LastRead, Gets
<1>4. got[r][o.group] < GroupSize /\ got[r][c.group] > 0
  BY <1>2, <1>3 DEF Readable
<1>5. c.group < o.group \/ (c.group = o.group /\ o.object = c.object + 1)
  <2>1. ~(o.group < c.group)
    BY <1>1, <1>2, <1>4 DEF InOrder
  <2> QED
    BY <1>2, <1>3, <2>1
<1>6. CASE c.group < o.group
  <2>1. (c.group + 1) * GroupSize <= o.group * GroupSize
    <3>1. c.group + 1 \in Nat /\ c.group + 1 <= o.group
      BY <1>2, <1>6
    <3>2. \A a, b \in Nat : a <= b => a * GroupSize <= b * GroupSize
      BY <1>1
    <3> QED
      BY <1>2, <3>1, <3>2
  <2>2. (c.group + 1) * GroupSize = c.group * GroupSize + GroupSize
    BY <1>1, <1>2
  <2>3. c.group * GroupSize \in Nat /\ o.group * GroupSize \in Nat
    BY <1>1, <1>2
  <2>4. c.group * GroupSize + c.object < o.group * GroupSize + o.object
    <3> DEFINE x == c.group * GroupSize
               y == o.group * GroupSize
    <3>1. x \in Nat /\ y \in Nat /\ x + GroupSize <= y
      BY <2>1, <2>2, <2>3
    <3> HIDE DEF x, y
    <3>2. GroupSize \in Nat /\ c.object < GroupSize /\ c.object \in Nat /\ o.object \in Nat
      BY <1>1, <1>2
    <3>3. x + c.object < y + o.object
      BY ONLY <3>1, <3>2
    <3> QED
      BY <3>3 DEF x, y
  <2> QED
    BY <2>4 DEF Position
<1>7. CASE c.group = o.group /\ o.object = c.object + 1
  <2>1. c.group * GroupSize \in Nat
    BY <1>1, <1>2
  <2> QED
    BY <1>2, <1>7, <2>1 DEF Position
<1> QED
  BY <1>5, <1>6, <1>7

(* What reading an object of a moq-mi track does to counter and log.       *)
LEMMA CounterRead ==
  ASSUME TypeOK, NEW r \in Roles, Read(r), setting.packaging[r] = "moqmi"
  PROVE  \E o \in Objects :
           /\ Gets(r, o)
           /\ \/ /\ haveSeq' = [haveSeq EXCEPT ![r] = TRUE]
                 /\ lastSeq' = [lastSeq EXCEPT ![r] = Position(o)]
                 /\ log' = [log EXCEPT ![r] =
                              Append(log[r], CountedEntry(o, SeqDelta(r, Position(o))))]
              \/ /\ UNCHANGED <<haveSeq, lastSeq>>
                 /\ log' = [log EXCEPT ![r] = Append(log[r], Entry(o, Position(o)))]
<1>1. PICK g \in Readable(r) :
        LET o == [group |-> g, object |-> got[r][g]]
        IN  /\ got' = [got EXCEPT ![r][g] = @ + 1]
            /\ current' = [current EXCEPT ![r] = o]
            /\ \/ /\ haveSeq' = [haveSeq EXCEPT ![r] = TRUE]
                  /\ lastSeq' = [lastSeq EXCEPT ![r] = Position(o)]
                  /\ log' = [log EXCEPT ![r] =
                       Append(@, CountedEntry(o, SeqDelta(r, Position(o))))]
               \/ /\ log' = [log EXCEPT ![r] = Append(@, Entry(o, Position(o)))]
                  /\ UNCHANGED <<haveSeq, lastSeq>>
  BY DEF Read
<1> DEFINE o == [group |-> g, object |-> got[r][g]]
<1>2. /\ got \in [Roles -> [Groups -> 0 .. GroupSize]] /\ GroupSize \in Nat \ {0}
      /\ log \in [Roles -> Seq(Entries)]
  BY ReadingAssumption DEF TypeOK
<1>3. g \in Groups /\ got[r][g] \in 0 .. GroupSize - 1
  BY <1>2 DEF Readable
<1>4. o \in Objects /\ o.group = g /\ o.object = got[r][g]
  BY <1>3 DEF Objects
<1>5. got' = [got EXCEPT ![r] = [got[r] EXCEPT ![g] = o.object + 1]]
  BY <1>1, <1>2, <1>3
<1>6. /\ current' = [current EXCEPT ![r] = o]
      /\ \/ /\ haveSeq' = [haveSeq EXCEPT ![r] = TRUE]
            /\ lastSeq' = [lastSeq EXCEPT ![r] = Position(o)]
            /\ log' = [log EXCEPT ![r] =
                         Append(log[r], CountedEntry(o, SeqDelta(r, Position(o))))]
         \/ /\ UNCHANGED <<haveSeq, lastSeq>>
            /\ log' = [log EXCEPT ![r] = Append(log[r], Entry(o, Position(o)))]
  BY <1>1, <1>2
<1> HIDE DEF o
<1>7. Gets(r, o)
  BY <1>4, <1>5, <1>6 DEF Gets
<1> QED
  BY <1>4, <1>6, <1>7

(* One more object without a counter, and one with.                        *)
LEMMA CountsOn ==
  ASSUME NEW s \in Seq(Entries), NEW have \in BOOLEAN, NEW l \in 0 .. CounterMod - 1,
         NEW inHand, NEW ordered \in BOOLEAN, Counts(s, have, l, inHand, ordered),
         NEW e \in Entries, ~e.counted, e.gap = 0, NEW p, have /\ ordered => l <= p
  PROVE  Counts(Append(s, e), have, l, p, ordered)
<1> DEFINE n == Len(s)
           t == Append(s, e)
           total == GapTotal(s)
           longer == GapTotal(t)
<1>1. /\ n \in Nat /\ Len(t) = n + 1 /\ t[n + 1] = e
      /\ \A i \in 1 .. n : t[i] = s[i]
  BY Appended
<1>2. /\ \A k \in 0 .. n : longer[k] = total[k] /\ total[k] \in Nat
      /\ longer[n + 1] = total[n] + e.gap
  BY TotalAppended, TotalsAreNumbers
<1>3. /\ \A i \in 1 .. n : ~s[i].counted => s[i].gap = 0
      /\ have <=> \E i \in 1 .. n : s[i].counted
      /\ ~have => total[n] = 0
      /\ have => \A i \in 1 .. n : FirstCounted(s, i) =>
           Agrees(s[i].position + total[n], l, ordered)
      /\ \A i, j \in 1 .. n :
           FirstCounted(s, i) /\ i <= j /\ s[j].counted =>
             Agrees(s[i].position + total[j], s[j].position, ordered)
  BY DEF Counts
<1> HIDE DEF n, t, total, longer
<1>4. /\ \A i \in 1 .. n + 1 : i \in 1 .. n \/ i = n + 1
      /\ \A i \in 1 .. n : i \in 1 .. n + 1 /\ i \in 0 .. n
      /\ n \in 0 .. n /\ \A i \in 1 .. n : \A h \in 1 .. i - 1 : h \in 1 .. n
  BY <1>1
<1>5. \A i \in 1 .. n : FirstCounted(t, i) => FirstCounted(s, i)
  BY <1>1, <1>4 DEF FirstCounted
<1>6. longer[n + 1] = total[n]
  BY <1>2, <1>4
<1>7. \A i \in 1 .. n + 1 : t[i].counted => i \in 1 .. n
  BY <1>1, <1>4
<1>8. \A i \in 1 .. n + 1 : FirstCounted(t, i) => i \in 1 .. n /\ FirstCounted(s, i)
  BY <1>5, <1>7 DEF FirstCounted
<1>9. have => \A i \in 1 .. n + 1 : FirstCounted(t, i) =>
        Agrees(t[i].position + longer[n + 1], l, ordered)
  BY <1>1, <1>3, <1>6, <1>8
<1>10. \A i, j \in 1 .. n + 1 :
         FirstCounted(t, i) /\ i <= j /\ t[j].counted =>
           Agrees(t[i].position + longer[j], t[j].position, ordered)
  <2> SUFFICES ASSUME NEW i \in 1 .. n + 1, NEW j \in 1 .. n + 1,
                      FirstCounted(t, i), i <= j, t[j].counted
               PROVE  Agrees(t[i].position + longer[j], t[j].position, ordered)
    OBVIOUS
  <2>1. i \in 1 .. n /\ j \in 1 .. n /\ FirstCounted(s, i)
    BY <1>7, <1>8
  <2>2. t[i] = s[i] /\ t[j] = s[j] /\ longer[j] = total[j]
    BY <1>1, <1>2, <1>4, <2>1
  <2>3. s[j].counted
    BY <2>2
  <2> QED
    BY <1>3, <2>1, <2>2, <2>3
<1>11. /\ \A i \in 1 .. n + 1 : ~t[i].counted => t[i].gap = 0
       /\ have <=> \E i \in 1 .. n + 1 : t[i].counted
       /\ ~have => longer[n + 1] = 0
  BY <1>1, <1>3, <1>4, <1>6
<1> QED
  BY <1>1, <1>9, <1>10, <1>11 DEF Counts, t, longer

LEMMA CountsOneMore ==
  ASSUME NEW s \in Seq(Entries), NEW have \in BOOLEAN, NEW l \in 0 .. CounterMod - 1,
         NEW inHand, NEW ordered \in BOOLEAN, Counts(s, have, l, inHand, ordered),
         NEW p \in 0 .. CounterMod - 1, have /\ ordered => l <= p,
         NEW e \in Entries, e.counted, e.position = p,
         e.gap = IF have THEN (CounterMod + p - l) % CounterMod ELSE 0
  PROVE  Counts(Append(s, e), TRUE, p, p, ordered)
<1> DEFINE n == Len(s)
           t == Append(s, e)
           total == GapTotal(s)
           longer == GapTotal(t)
<1>1. /\ n \in Nat /\ Len(t) = n + 1 /\ t[n + 1] = e
      /\ \A i \in 1 .. n : t[i] = s[i] /\ s[i] \in Entries
  BY Appended
<1>2. /\ \A k \in 0 .. n : longer[k] = total[k] /\ total[k] \in Nat
      /\ longer[n + 1] = total[n] + e.gap
  BY TotalAppended, TotalsAreNumbers
<1>3. /\ \A i \in 1 .. n : ~s[i].counted => s[i].gap = 0
      /\ have <=> \E i \in 1 .. n : s[i].counted
      /\ ~have => total[n] = 0
      /\ have => \A i \in 1 .. n : FirstCounted(s, i) =>
           Agrees(s[i].position + total[n], l, ordered)
      /\ \A i, j \in 1 .. n :
           FirstCounted(s, i) /\ i <= j /\ s[j].counted =>
             Agrees(s[i].position + total[j], s[j].position, ordered)
  BY DEF Counts
<1> HIDE DEF n, t, total, longer
<1>4. /\ \A i \in 1 .. n + 1 : i \in 1 .. n \/ i = n + 1
      /\ \A i \in 1 .. n : i \in 1 .. n + 1 /\ i \in 0 .. n
      /\ n \in 0 .. n /\ n + 1 \in 1 .. n + 1
      /\ \A i \in 1 .. n : \A h \in 1 .. i - 1 : h \in 1 .. n
      /\ \A i \in 1 .. n : i \in 1 .. n + 1 - 1
  BY <1>1
<1>5. \A i \in 1 .. n : FirstCounted(t, i) => FirstCounted(s, i)
  BY <1>1, <1>4 DEF FirstCounted
<1>6. CounterMod \in Nat \ {0} /\ l \in Nat /\ p \in Nat /\ p % CounterMod = p
  BY ReadingAssumption
<1>7. \A i \in 1 .. n + 1 : FirstCounted(t, i) =>
        Agrees(t[i].position + longer[n + 1], p, ordered)
  <2> SUFFICES ASSUME NEW i \in 1 .. n + 1, FirstCounted(t, i)
               PROVE  Agrees(t[i].position + longer[n + 1], p, ordered)
    OBVIOUS
  <2>1. CASE have
    <3>1. PICK j \in 1 .. n : s[j].counted
      BY <1>3, <2>1
    <3>2. i \in 1 .. n
      BY <1>1, <1>4, <3>1 DEF FirstCounted
    <3>3. FirstCounted(s, i) /\ t[i] = s[i] /\ s[i].position \in Nat
      BY <1>1, <1>5, <3>2 DEF Entries
    <3> DEFINE a == s[i].position + total[n]
    <3>4. a \in Nat /\ Agrees(a, l, ordered)
      <4>1. total[n] \in Nat
        BY <1>2, <1>4
      <4>2. Agrees(a, l, ordered)
        BY <1>3, <2>1, <3>2, <3>3
      <4> QED
        BY <3>3, <4>1, <4>2
    <3>5. t[i].position + longer[n + 1] = a + e.gap
      <4>1. e.gap \in Nat
        BY DEF Entries
      <4> QED
        BY <1>2, <1>4, <3>3, <4>1
    <3> HIDE DEF a
    <3>6. a % CounterMod = l /\ (ordered => a = l)
      BY <3>4 DEF Agrees
    <3>7. /\ (a + e.gap) % CounterMod = p
          /\ l <= p => e.gap = p - l
      <4>1. e.gap = (CounterMod + p - l) % CounterMod
        BY <2>1
      <4>2. /\ (a + ((CounterMod + p - l) % CounterMod)) % CounterMod = p
            /\ l <= p => (CounterMod + p - l) % CounterMod = p - l
        <5>1. /\ CounterMod \in Nat \ {0}
              /\ l \in 0 .. CounterMod - 1 /\ p \in 0 .. CounterMod - 1
          BY <1>6
        <5>2. \A x, y \in 0 .. CounterMod - 1 :
                a % CounterMod = x =>
                  /\ (a + ((CounterMod + y - x) % CounterMod)) % CounterMod = y
                  /\ x <= y => (CounterMod + y - x) % CounterMod = y - x
          BY <3>4, <5>1, DeltaLeadsOn, ZenonT(30)
        <5> QED
          BY <3>6, <5>1, <5>2, ZenonT(30)
      <4> QED
        BY <4>1, <4>2, Zenon
    <3>8. ordered => a + e.gap = p
      BY <1>6, <2>1, <3>6, <3>7
    <3> QED
      BY <3>5, <3>7, <3>8 DEF Agrees
  <2>2. CASE ~have
    <3>1. i = n + 1
      BY <1>1, <1>3, <1>4, <2>2 DEF FirstCounted
    <3>2. longer[n + 1] = 0 /\ t[i].position = p
      <4>1. e.gap = 0 /\ total[n] = 0
        BY <1>3, <2>2, Zenon
      <4>2. longer[n + 1] = total[n] + e.gap
        BY <1>2
      <4>3. longer[n + 1] = 0
        BY <4>1, <4>2
      <4>4. t[i].position = p
        BY <1>1, <3>1, Zenon
      <4> QED
        BY <4>3, <4>4
    <3>3. t[i].position + longer[n + 1] = p
      BY <1>6, <3>2
    <3> QED
      BY <1>6, <3>3 DEF Agrees
  <2> QED
    BY <2>1, <2>2
<1>8. \A i, j \in 1 .. n + 1 :
        FirstCounted(t, i) /\ i <= j /\ t[j].counted =>
          Agrees(t[i].position + longer[j], t[j].position, ordered)
  <2> SUFFICES ASSUME NEW i \in 1 .. n + 1, NEW j \in 1 .. n + 1,
                      FirstCounted(t, i), i <= j, t[j].counted
               PROVE  Agrees(t[i].position + longer[j], t[j].position, ordered)
    OBVIOUS
  <2>1. CASE j = n + 1
    BY <1>1, <1>7, <2>1
  <2>2. CASE j \in 1 .. n
    <3>1. i \in 1 .. n
      BY <1>1, <2>2
    <3>2. t[i] = s[i] /\ t[j] = s[j] /\ longer[j] = total[j] /\ FirstCounted(s, i)
      BY <1>1, <1>2, <1>4, <1>5, <2>2, <3>1
    <3> QED
      BY <1>3, <2>2, <3>1, <3>2
  <2> QED
    BY <1>4, <2>1, <2>2
<1>9. /\ \A i \in 1 .. n + 1 : ~t[i].counted => t[i].gap = 0
      /\ \E i \in 1 .. n + 1 : t[i].counted
  BY <1>1, <1>3, <1>4
<1>10. p <= p
  BY <1>6
<1> QED
  BY <1>1, <1>7, <1>8, <1>9, <1>10 DEF Counts, t, longer

LEMMA CountNext ==
  ASSUME ReadInv, NEW r \in Roles, Read(r), setting.packaging[r] = "moqmi", CountsOf(r)
  PROVE  CountsOf(r)'
<1>1. /\ TypeOK /\ LastRead /\ InOrder
      /\ rpc[r] = "read" /\ UNCHANGED <<setting, ctxDone, muxVars, file>>
  BY Reading DEF ReadInv
<1>2. PICK o \in Objects :
        /\ Gets(r, o)
        /\ \/ /\ haveSeq' = [haveSeq EXCEPT ![r] = TRUE]
              /\ lastSeq' = [lastSeq EXCEPT ![r] = Position(o)]
              /\ log' = [log EXCEPT ![r] =
                           Append(log[r], CountedEntry(o, SeqDelta(r, Position(o))))]
           \/ /\ UNCHANGED <<haveSeq, lastSeq>>
              /\ log' = [log EXCEPT ![r] = Append(log[r], Entry(o, Position(o)))]
  BY <1>1, CounterRead
<1> DEFINE s == log[r]
           l == lastSeq[r]
           p == Position(o)
           have == haveSeq[r]
           ordered == setting.ordered
           inHand == Position(current[r])
<1>3. /\ current \in [Roles -> Objects] /\ log \in [Roles -> Seq(Entries)]
      /\ haveSeq \in [Roles -> BOOLEAN] /\ lastSeq \in [Roles -> 0 .. CounterMod - 1]
      /\ ordered \in BOOLEAN
  BY <1>1, SettingFields DEF TypeOK
<1>4. CounterMod \in Nat \ {0} /\ p \in 0 .. CounterMod - 1 /\ inHand \in Nat /\ p \in Nat
  BY <1>3, Positions, ReadingAssumption
<1>5. current'[r] = o
  BY <1>2, <1>3 DEF Gets
<1>6. Counts(s, have, l, inHand, ordered)
  BY DEF CountsOf
<1>7. have /\ ordered => l <= p
  <2>1. have /\ ordered => s # << >> /\ l <= inHand
    <3>1. have => \E i \in 1 .. Len(s) : s[i].counted
      BY <1>6 DEF Counts
    <3>2. have /\ ordered => l <= inHand
      BY <1>6 DEF Counts
    <3> QED
      BY <3>1, <3>2
  <2>2. ordered /\ s # << >> => inHand < p
    BY <1>1, <1>2, InOrderForward
  <2> QED
    BY <1>3, <1>4, <2>1, <2>2
<1>8. CountsOf(r)' = Counts(log'[r], haveSeq'[r], lastSeq'[r], p, ordered)
  BY <1>1, <1>5 DEF CountsOf
<1>9. CASE /\ haveSeq' = [haveSeq EXCEPT ![r] = TRUE] /\ lastSeq' = [lastSeq EXCEPT ![r] = p]
           /\ log' = [log EXCEPT ![r] = Append(s, CountedEntry(o, SeqDelta(r, p)))]
  <2> DEFINE e == CountedEntry(o, SeqDelta(r, p))
  <2>1. SeqDelta(r, p) = IF have THEN (CounterMod + p - l) % CounterMod ELSE 0
    BY DEF SeqDelta
  <2>2. SeqDelta(r, p) \in Nat
    BY <1>3, <1>4, <2>1
  <2>3. /\ e \in Entries /\ e.counted /\ e.position = p
        /\ e.gap = IF have THEN (CounterMod + p - l) % CounterMod ELSE 0
    BY <1>4, <2>1, <2>2 DEF CountedEntry, Entries
  <2>4. haveSeq'[r] = TRUE /\ lastSeq'[r] = p /\ log'[r] = Append(s, e)
    BY <1>3, <1>9
  <2> HIDE DEF e, s, l, p, have, ordered, inHand
  <2>5. s \in Seq(Entries) /\ have \in BOOLEAN /\ l \in 0 .. CounterMod - 1
    BY <1>3 DEF s, have, l
  <2>6. Counts(Append(s, e), TRUE, p, p, ordered)
    <3>1. ordered \in BOOLEAN /\ p \in 0 .. CounterMod - 1
      BY <1>3, <1>4 DEF ordered, p
    <3> QED
      BY <1>6, <1>7, <2>3, <2>5, <3>1, CountsOneMore, ZenonT(60)
  <2> QED
    BY <1>8, <2>4, <2>6
<1>10. CASE /\ UNCHANGED <<haveSeq, lastSeq>>
            /\ log' = [log EXCEPT ![r] = Append(s, Entry(o, p))]
  <2> DEFINE e == Entry(o, p)
  <2>1. e \in Entries /\ ~e.counted /\ e.gap = 0
    BY <1>4 DEF Entry, Entries
  <2>2. haveSeq'[r] = have /\ lastSeq'[r] = l /\ log'[r] = Append(s, e)
    BY <1>3, <1>10
  <2> HIDE DEF e, s, l, p, have, ordered, inHand
  <2>3. s \in Seq(Entries) /\ have \in BOOLEAN /\ l \in 0 .. CounterMod - 1
    BY <1>3 DEF s, have, l
  <2>4. Counts(Append(s, e), have, l, p, ordered)
    BY <1>3, <1>6, <1>7, <2>1, <2>3, CountsOn
  <2> QED
    BY <1>8, <2>2, <2>4
<1> QED
  BY <1>2, <1>9, <1>10

(* What is reported as gaps leads from the first counter to every later    *)
(* one, modulo the width of the counter, or exactly if groups come in      *)
(* order (moqmi.go:171).                                                   *)
THEOREM GapsLeadOn == Spec => []GapsAddUp
<1>1. Init => CountInv
  <2> SUFFICES ASSUME Init, NEW r \in Roles
               PROVE  CountsOf(r)
    BY DEF CountInv
  <2>1. log[r] = << >> /\ haveSeq[r] = FALSE
    BY DEF Init
  <2>2. << >> \in Seq(Entries) /\ Len(<< >>) = 0
    OBVIOUS
  <2>3. GapTotal(<< >>)[0] = 0
    BY <2>2, Totals
  <2> QED
    BY <2>1, <2>2, <2>3 DEF CountsOf, Counts
<1>2. ReadInv /\ CountInv /\ [Next]_vars => CountInv'
  <2>1. ASSUME ReadInv, CountInv, [Next]_vars, NEW r \in Roles,
               setting'.packaging[r] = "moqmi"
        PROVE  CountsOf(r)'
    <3>1. CASE UNCHANGED <<setting, log, haveSeq, lastSeq, current>>
      BY <2>1, <3>1 DEF CountInv, CountsOf, Position
    <3>2. ASSUME NEW q \in Roles, Read(q)
          PROVE  CountsOf(r)'
      <4>1. rpc[q] = "read" /\ UNCHANGED <<setting, ctxDone, muxVars, file>>
        BY <2>1, <3>2, Reading DEF ReadInv
      <4>2. setting.packaging[r] = "moqmi" /\ CountsOf(r)
        BY <2>1, <4>1 DEF CountInv
      <4>3. CASE q = r
        BY <2>1, <3>2, <4>2, <4>3, CountNext
      <4>4. CASE q # r
        <5>1. /\ current \in [Roles -> Objects] /\ log \in [Roles -> Seq(Entries)]
              /\ haveSeq \in [Roles -> BOOLEAN]
              /\ lastSeq \in [Roles -> 0 .. CounterMod - 1]
          BY <2>1 DEF ReadInv, TypeOK
        <5>2. /\ log'[r] = log[r] /\ current'[r] = current[r]
              /\ haveSeq'[r] = haveSeq[r] /\ lastSeq'[r] = lastSeq[r]
          BY <3>2, <4>4, <5>1 DEF Read
        <5> QED
          BY <4>1, <4>2, <5>2 DEF CountsOf, Position
      <4> QED
        BY <4>3, <4>4
    <3> QED
      BY <2>1, <3>1, <3>2 DEF Next, ReaderStep, AddInit, SkipMux, MuxParse, MuxMoof,
         MuxMdat, MuxFailed, WriteFile, ReadEnds, CancelReading, AfterRead, readVars, vars
  <2> QED
    BY <2>1 DEF CountInv
<1>3. ReadInv /\ CountInv => GapsAddUp
  <2> SUFFICES ASSUME ReadInv, CountInv, NEW r \in Roles, setting.packaging[r] = "moqmi",
                      NEW i \in DOMAIN log[r], NEW j \in DOMAIN log[r],
                      FirstCounted(log[r], i), i <= j, log[r][j].counted
               PROVE  Agrees(log[r][i].position + GapTotal(log[r])[j], log[r][j].position,
                             setting.ordered)
    BY DEF GapsAddUp, Agrees
  <2>1. DOMAIN log[r] = 1 .. Len(log[r])
    BY Lengths DEF ReadInv, TypeOK
  <2> QED
    BY <2>1 DEF CountInv, CountsOf, Counts
<1> QED
  BY <1>1, <1>2, <1>3, ReadInductive, PTL DEF Spec
=============================================================================
