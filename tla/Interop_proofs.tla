--------------------------- MODULE Interop_proofs ---------------------------
(***************************************************************************)
(* The lines of the interop client can be trusted and its connections are  *)
(* closed, whatever a relay answers and whenever the deadline passes.      *)
(***************************************************************************)
EXTENDS Interop, SequenceTheorems, TLAPS

Ops == {"dial", "setup", "announce", "unannounce", "subscribe", "spawn", "join"}

Calls == [op : Ops, who : {"pub", "sub"}, namespace : {Interop, Nonexistent}]

Hows == {"ok", "error", "lost", "deadline"}

Cases == Range(TestCases)

(* The subscription of subscribe-error is the one call made for a          *)
(* namespace that is not there.                                            *)
Refused(case, call) == case = "subscribe-error" /\ call.op = "subscribe"

OneSession(case) == case \in {"announce-only", "publish-namespace-done"}

(* What the proofs use of the scripts: no call is made twice; a            *)
(* subscription spawned is joined by the last call, and only then.         *)
WellFormed(case, s) ==
  /\ s \in Seq(Calls) /\ Len(s) \in Nat \ {0}
  /\ \A i, j \in 1 .. Len(s) : s[i] = s[j] => i = j
  /\ \A i \in 1 .. Len(s) :
       /\ s[i].op = "join" =>
            i = Len(s) /\ \E k \in 1 .. Len(s) - 1 : s[k].op = "spawn"
       /\ s[i].op = "spawn" => s[i] = SpawnCall /\ s[Len(s)].op = "join"
       /\ s[i].namespace = IF Refused(case, s[i]) THEN Nonexistent ELSE Interop
       /\ OneSession(case) => s[i].who = "sub"
-----------------------------------------------------------------------------
(* The scripts                                                             *)

LEMMA CallFields ==
  ASSUME NEW op \in Ops, NEW who \in {"pub", "sub"}, NEW namespace \in {Interop, Nonexistent}
  PROVE  /\ Call(op, who, namespace) \in Calls
         /\ Call(op, who, namespace).op = op /\ Call(op, who, namespace).who = who
         /\ Call(op, who, namespace).namespace = namespace
BY DEF Call, Calls

LEMMA SixCases ==
  Cases = {"setup-only", "announce-only", "publish-namespace-done",
           "subscribe-error", "announce-subscribe", "subscribe-before-announce"}
BY DEF Cases, Range, TestCases

(* The calls of a script one by one. *)
LEMMA Joined ==
  ASSUME NEW S, NEW a \in S, NEW b \in S, NEW c \in S, NEW d \in S, NEW e \in S,
         NEW f \in S, NEW g \in S
  PROVE  /\ LET s == <<a, b>>
            IN  s \in Seq(S) /\ Len(s) = 2 /\ s[1] = a /\ s[2] = b
         /\ LET s == <<a, b>> \o <<c>>
            IN  s \in Seq(S) /\ Len(s) = 3 /\ s[1] = a /\ s[2] = b /\ s[3] = c
         /\ LET s == (<<a, b>> \o <<c>>) \o <<d>>
            IN  /\ s \in Seq(S) /\ Len(s) = 4
                /\ s[1] = a /\ s[2] = b /\ s[3] = c /\ s[4] = d
         /\ LET s == ((<<a, b>> \o <<c>>) \o <<d, e>>) \o <<f>>
            IN  /\ s \in Seq(S) /\ Len(s) = 6
                /\ s[1] = a /\ s[2] = b /\ s[3] = c /\ s[4] = d /\ s[5] = e /\ s[6] = f
         /\ LET s == ((<<a, b>> \o <<c>>) \o (<<d, e>> \o <<f>>)) \o <<g>>
            IN  /\ s \in Seq(S) /\ Len(s) = 7
                /\ s[1] = a /\ s[2] = b /\ s[3] = c /\ s[4] = d /\ s[5] = e /\ s[6] = f
                /\ s[7] = g
<1>1. LET s == <<a, b>>
      IN  s \in Seq(S) /\ Len(s) = 2 /\ s[1] = a /\ s[2] = b
  OBVIOUS
<1>2. LET s == <<a, b>> \o <<c>>
      IN  s \in Seq(S) /\ Len(s) = 3 /\ s[1] = a /\ s[2] = b /\ s[3] = c
  OBVIOUS
<1>3. LET s == (<<a, b>> \o <<c>>) \o <<d>>
      IN  /\ s \in Seq(S) /\ Len(s) = 4
          /\ s[1] = a /\ s[2] = b /\ s[3] = c /\ s[4] = d
  OBVIOUS
<1>4. LET s == ((<<a, b>> \o <<c>>) \o <<d, e>>) \o <<f>>
      IN  /\ s \in Seq(S) /\ Len(s) = 6
          /\ s[1] = a /\ s[2] = b /\ s[3] = c /\ s[4] = d /\ s[5] = e /\ s[6] = f
  OBVIOUS
<1>5. LET s == ((<<a, b>> \o <<c>>) \o (<<d, e>> \o <<f>>)) \o <<g>>
      IN  /\ s \in Seq(S) /\ Len(s) = 7
          /\ s[1] = a /\ s[2] = b /\ s[3] = c /\ s[4] = d /\ s[5] = e /\ s[6] = f
          /\ s[7] = g
  OBVIOUS
<1> QED
  BY <1>1, <1>2, <1>3, <1>4, <1>5

LEMMA Scripts == ASSUME NEW case \in Cases PROVE WellFormed(case, Script(case))
<1> DEFINE s == Script(case)
           dial(w) == Call("dial", w, Interop)
           setup(w) == Call("setup", w, Interop)
           announce(w) == Call("announce", w, Interop)
<1>1. \A w \in {"pub", "sub"} :
        /\ dial(w) \in Calls /\ dial(w).op = "dial" /\ dial(w).who = w
        /\ setup(w) \in Calls /\ setup(w).op = "setup" /\ setup(w).who = w
        /\ announce(w) \in Calls /\ announce(w).op = "announce" /\ announce(w).who = w
        /\ dial(w).namespace = Interop /\ setup(w).namespace = Interop
        /\ announce(w).namespace = Interop
  BY CallFields DEF Ops
<1> DEFINE unannounce == Call("unannounce", "sub", Interop)
           subscribe(n) == Call("subscribe", "sub", n)
           join == Call("join", "sub", Interop)
<1>2. /\ unannounce \in Calls /\ unannounce.op = "unannounce" /\ unannounce.who = "sub"
      /\ unannounce.namespace = Interop
      /\ join \in Calls /\ join.op = "join" /\ join.namespace = Interop
      /\ SpawnCall \in Calls /\ SpawnCall.op = "spawn" /\ SpawnCall.namespace = Interop
      /\ \A n \in {Interop, Nonexistent} :
           subscribe(n) \in Calls /\ subscribe(n).op = "subscribe" /\ subscribe(n).namespace = n
  BY CallFields DEF Ops, SpawnCall
<1>3. CASE case = "setup-only"
  <2>1. s = <<dial("sub"), setup("sub")>>
    BY <1>3 DEF Script, Session
  <2> HIDE DEF s, dial, setup, announce, unannounce, subscribe, join
  <2>2. s \in Seq(Calls) /\ Len(s) = 2 /\ s[1] = dial("sub") /\ s[2] = setup("sub")
    BY <1>1, <2>1, Joined
  <2>3. WellFormed(case, s)
    BY <1>1, <1>2, <1>3, <2>2 DEF WellFormed, Refused, OneSession
  <2> QED
    BY <2>3 DEF s
<1>4. CASE case = "announce-only"
  <2>1. s = <<dial("sub"), setup("sub")>> \o <<announce("sub")>>
    BY <1>4 DEF Script, Session, Announce
  <2> HIDE DEF s, dial, setup, announce, unannounce, subscribe, join
  <2>2. /\ s \in Seq(Calls) /\ Len(s) = 3
        /\ s[1] = dial("sub") /\ s[2] = setup("sub") /\ s[3] = announce("sub")
    BY <1>1, <2>1, Joined
  <2>3. WellFormed(case, s)
    BY <1>1, <1>2, <1>4, <2>2 DEF WellFormed, Refused, OneSession
  <2> QED
    BY <2>3 DEF s
<1>5. CASE case = "publish-namespace-done"
  <2>1. s = (<<dial("sub"), setup("sub")>> \o <<announce("sub")>>) \o <<unannounce>>
    BY <1>5 DEF Script, Session, Announce
  <2> HIDE DEF s, dial, setup, announce, unannounce, subscribe, join
  <2>2. /\ s \in Seq(Calls) /\ Len(s) = 4
        /\ s[1] = dial("sub") /\ s[2] = setup("sub") /\ s[3] = announce("sub")
        /\ s[4] = unannounce
    BY <1>1, <1>2, <2>1, Joined
  <2>3. WellFormed(case, s)
    BY <1>1, <1>2, <1>5, <2>2 DEF WellFormed, Refused, OneSession
  <2> QED
    BY <2>3 DEF s
<1>6. CASE case = "subscribe-error"
  <2>1. s = <<dial("sub"), setup("sub")>> \o <<subscribe(Nonexistent)>>
    BY <1>6 DEF Script, Session
  <2> HIDE DEF s, dial, setup, announce, unannounce, subscribe, join
  <2>2. /\ s \in Seq(Calls) /\ Len(s) = 3
        /\ s[1] = dial("sub") /\ s[2] = setup("sub") /\ s[3] = subscribe(Nonexistent)
    BY <1>1, <1>2, <2>1, Joined
  <2>3. WellFormed(case, s)
    BY <1>1, <1>2, <1>6, <2>2 DEF WellFormed, Refused, OneSession
  <2> QED
    BY <2>3 DEF s
<1>7. CASE case = "announce-subscribe"
  <2>1. s = ((<<dial("pub"), setup("pub")>> \o <<announce("pub")>>)
               \o <<dial("sub"), setup("sub")>>) \o <<subscribe(Interop)>>
    BY <1>7 DEF Script, Session, Announce, Publisher
  <2> HIDE DEF s, dial, setup, announce, unannounce, subscribe, join
  <2>2. /\ s \in Seq(Calls) /\ Len(s) = 6
        /\ s[1] = dial("pub") /\ s[2] = setup("pub") /\ s[3] = announce("pub")
        /\ s[4] = dial("sub") /\ s[5] = setup("sub") /\ s[6] = subscribe(Interop)
    BY <1>1, <1>2, <2>1, Joined
  <2>3. WellFormed(case, s)
    BY <1>1, <1>2, <1>7, <2>2 DEF WellFormed, Refused, OneSession
  <2> QED
    BY <2>3 DEF s
<1>8. CASE case = "subscribe-before-announce"
  <2>1. s = ((<<dial("sub"), setup("sub")>> \o <<SpawnCall>>)
               \o (<<dial("pub"), setup("pub")>> \o <<announce("pub")>>)) \o <<join>>
    BY <1>8 DEF Script, Session, Announce, Publisher, SpawnCall
  <2> HIDE DEF s, dial, setup, announce, unannounce, subscribe, join
  <2>2. /\ s \in Seq(Calls) /\ Len(s) = 7
        /\ s[1] = dial("sub") /\ s[2] = setup("sub") /\ s[3] = SpawnCall
        /\ s[4] = dial("pub") /\ s[5] = setup("pub") /\ s[6] = announce("pub")
        /\ s[7] = join
    BY <1>1, <1>2, <2>1, Joined
  <2>3. WellFormed(case, s)
    BY <1>1, <1>2, <1>8, <2>2 DEF WellFormed, Refused, OneSession
  <2> QED
    BY <2>3 DEF s
<1> QED
  BY <1>3, <1>4, <1>5, <1>6, <1>7, <1>8, SixCases
-----------------------------------------------------------------------------
(* The inductive invariant                                                 *)

Selected == cases \in Seq(Cases) /\ num \in 0 .. Len(cases)

Types ==
  /\ relay \in {"any", "mlmpub"} /\ Selected
  /\ step \in Nat /\ deadline \in BOOLEAN /\ failed \in BOOLEAN
  /\ background \in {"none", "pending"} \union Hows
  /\ open \subseteq {"pub", "sub"} /\ verdict \in {"none", "ok", "not_ok"}
  /\ log \subseteq [call : Calls, how : Hows]
  /\ step > 0 => num > 0 /\ step <= Len(Script(Case)) /\ verdict = "none"
  /\ verdict # "none" => num > 0

Answered(call) == \E e \in log : e.call = call /\ e.how \in Wanted(Case, call)

Spawned == \E k \in 1 .. step - 1 : Script(Case)[k].op = "spawn"

(* While a case runs, the calls before the current one have ended as it    *)
(* wants, the log holds no other, and the goroutine was started if its     *)
(* turn has come.                                                          *)
Running ==
  /\ \A k \in 1 .. step - 1 :
       Script(Case)[k].op # "spawn" => Answered(Script(Case)[k])
  /\ \A e \in log : e.call = SpawnCall \/ \E k \in 1 .. step - 1 : e.call = Script(Case)[k]
  /\ background # "none" <=> Spawned
  /\ OneSession(Case) => open \subseteq {"sub"}

(* What became of the subscription in the background is what was logged.   *)
BackgroundLogged ==
  /\ background \in Hows => [call |-> SpawnCall, how |-> background] \in log
  /\ \A e \in log : e.call = SpawnCall => e.how = background

(* A call stays without the answer that the case wants.                    *)
Missing ==
  \E call \in Range(Script(Case)) :
    /\ call.op # "join"
    /\ call = SpawnCall => background = "deadline"
    /\ \A e \in log : e.call = call => e.how \notin Wanted(Case, call)

CaseInv ==
  /\ Types /\ BackgroundLogged
  /\ step > 0 => Running
  /\ verdict = "ok" => Conforms /\ open = {}
  /\ verdict = "not_ok" =>
       /\ failed /\ Missing /\ \A c, d \in open : c = d
       /\ relay = "mlmpub" => \E e \in log : e.how \in {"lost", "deadline"}
-----------------------------------------------------------------------------
LEMMA CaseFacts ==
  ASSUME Types, num > 0
  PROVE  /\ Case \in Cases /\ WellFormed(Case, Script(Case))
<1>1. Selected
  BY DEF Types
<1>2. Case \in Cases
  BY <1>1 DEF Selected, Case
<1> QED
  BY <1>2, Scripts

(* What the client takes for the right ending is what the case wants.      *)
LEMMA Judged ==
  ASSUME NEW call, call.op # "spawn", NEW how \in Hows
  PROVE  AsExpected(call, how) <=> how \in Wanted(Case, call)
<1>1. CASE Refused(Case, call)
  BY <1>1 DEF AsExpected, Wanted, Hows, Refused
<1>2. CASE ~Refused(Case, call)
  BY <1>2 DEF AsExpected, Wanted, Hows, Refused
<1> QED
  BY <1>1, <1>2

(* The call whose turn it is, and the calls before it.                     *)
LEMMA CurrentCall ==
  ASSUME CaseInv, step > 0
  PROVE  LET s == Script(Case)
         IN  /\ Running /\ verdict = "none" /\ num > 0
             /\ Len(s) \in Nat /\ step \in 1 .. Len(s)
             /\ Current = s[step] /\ Current \in Calls /\ Current \in Range(s)
             /\ WellFormed(Case, s)
             /\ \A call \in Range(s) : \E k \in 1 .. Len(s) : call = s[k]
             /\ Current.op # "spawn" => \A e \in log : e.call # Current
<1> DEFINE s == Script(Case)
<1>1. /\ Running /\ verdict = "none" /\ num > 0 /\ step \in Nat /\ step <= Len(s)
  BY DEF CaseInv, Types
<1>2. WellFormed(Case, s)
  BY <1>1, CaseFacts DEF CaseInv
<1> HIDE DEF s
<1>3. Len(s) \in Nat /\ s \in Seq(Calls) /\ step \in 1 .. Len(s) /\ DOMAIN s = 1 .. Len(s)
  BY <1>1, <1>2 DEF WellFormed
<1>4. Current = s[step] /\ Current \in Calls
  BY <1>3 DEF Current, s
<1>5. /\ Current \in Range(s)
      /\ \A call \in Range(s) : \E k \in 1 .. Len(s) : call = s[k]
  BY <1>3, <1>4 DEF Range
<1>6. ASSUME Current.op # "spawn", NEW e \in log, e.call = Current
      PROVE  FALSE
  <2>1. SpawnCall.op = "spawn"
    BY DEF SpawnCall, Call
  <2>2. PICK k \in 1 .. step - 1 : s[step] = s[k]
    BY <1>1, <1>4, <1>6, <2>1 DEF Running, s
  <2>3. k \in 1 .. Len(s) /\ k # step
    BY <1>3
  <2> QED
    BY <1>2, <1>3, <2>2, <2>3 DEF WellFormed
<1> QED
  BY <1>1, <1>2, <1>3, <1>4, <1>5, <1>6 DEF s

(* A case that does not come to its end leaves one connection at most.     *)
LEMMA OneLeft ==
  ASSUME CaseInv, step > 0
  PROVE  /\ Leaves(FALSE) \subseteq {"pub", "sub"}
         /\ \A c, d \in Leaves(FALSE) : c = d
<1>1. Running /\ Current \in Calls
  BY CurrentCall
<1>2. AnnounceOnly <=> OneSession(Case)
  BY DEF AnnounceOnly, OneSession
<1>3. Current.who \in {"pub", "sub"} /\ open \subseteq {"pub", "sub"}
  BY <1>1 DEF Calls, CaseInv, Types
<1> QED
  BY <1>1, <1>2, <1>3 DEF Leaves, Running

(* Against mlmpub only the connection or the deadline ends a call in a way *)
(* the case does not want.                                                 *)
LEMMA MlmpubAsWanted ==
  ASSUME CaseInv, step > 0, relay = "mlmpub", Current.op \notin {"spawn", "join"},
         NEW how \in Endings(Current), how \notin {"lost", "deadline"}
  PROVE  AsExpected(Current, how)
<1>1. /\ WellFormed(Case, Script(Case)) /\ step \in 1 .. Len(Script(Case))
      /\ Current = Script(Case)[step] /\ Current \in Calls
  BY CurrentCall
<1>2. Current.namespace = IF Refused(Case, Current) THEN Nonexistent ELSE Interop
  BY <1>1 DEF WellFormed
<1>3. how \in Answers(Current)
  BY DEF Endings
<1>4. CASE Current.op \notin Rejectable
  <2>1. how = "ok"
    BY <1>3, <1>4 DEF Answers
  <2> QED
    BY <1>4, <2>1 DEF Rejectable, AsExpected
<1>5. CASE Current.op \in Rejectable
  <2>1. how = MlmpubAnswer(Current)
    BY <1>3, <1>5 DEF Answers
  <2>2. CASE Refused(Case, Current)
    <3>1. how = "error"
      BY <1>2, <2>1, <2>2 DEF MlmpubAnswer, Interop, Nonexistent
    <3> QED
      BY <2>2, <3>1 DEF AsExpected, Refused
  <2>3. CASE ~Refused(Case, Current)
    <3>1. how = "ok"
      BY <1>2, <2>1, <2>3 DEF MlmpubAnswer
    <3> QED
      BY <2>3, <3>1 DEF AsExpected, Refused
  <2> QED
    BY <2>2, <2>3
<1> QED
  BY <1>4, <1>5

LEMMA StartCaseStep == ASSUME CaseInv, StartCase PROVE CaseInv'
<1>1. /\ Selected /\ step = 0 /\ num < Len(cases)
      /\ num' = num + 1 /\ step' = 1 /\ UNCHANGED <<relay, cases, failed>>
      /\ deadline' = FALSE /\ background' = "none" /\ open' = {} /\ verdict' = "none"
      /\ log' = {}
  BY DEF CaseInv, Types, StartCase
<1>2. Selected' /\ num' > 0 /\ Case' \in Cases
  BY <1>1 DEF Selected, Case
<1>3. 1 <= Len(Script(Case'))
  BY <1>2, Scripts DEF WellFormed
<1>4. Types'
  BY <1>1, <1>2, <1>3 DEF CaseInv, Types
<1>5. BackgroundLogged'
  BY DEF StartCase, BackgroundLogged, Hows
<1>6. Running'
  BY DEF StartCase, Running, Spawned
<1> QED
  BY <1>4, <1>5, <1>6 DEF CaseInv, StartCase

LEMMA ExpireStep == ASSUME CaseInv, Expire PROVE CaseInv'
<1>1. UNCHANGED <<relay, cases, num, step, background, open, verdict, failed, log>>
      /\ deadline' \in BOOLEAN
  BY DEF Expire
<1>2. Case' = Case /\ Selected'
  BY <1>1 DEF CaseInv, Types, Selected, Case
<1>3. Types' /\ BackgroundLogged'
  BY <1>1, <1>2 DEF CaseInv, Types, BackgroundLogged
<1>4. (Running <=> Running') /\ (Conforms <=> Conforms') /\ (Missing <=> Missing')
  BY <1>1, <1>2 DEF Running, Answered, Spawned, Conforms, Missing
<1> QED
  BY <1>1, <1>3, <1>4 DEF CaseInv

LEMMA SpawnStep == ASSUME CaseInv, Spawn PROVE CaseInv'
<1> DEFINE s == Script(Case)
<1>1. /\ step > 0 /\ Current.op = "spawn" /\ background' = "pending" /\ step' = step + 1
      /\ UNCHANGED <<relay, cases, num, deadline, open, verdict, failed, log>>
  BY DEF Spawn
<1>2. Case' = Case /\ Selected'
  BY <1>1 DEF CaseInv, Types, Selected, Case
<1>3. /\ Running /\ verdict = "none" /\ num > 0
      /\ Len(s) \in Nat /\ step \in 1 .. Len(s) /\ Current = s[step] /\ WellFormed(Case, s)
  BY <1>1, CurrentCall
<1>4. ~Spawned
  <2> SUFFICES ASSUME NEW k \in 1 .. step - 1, s[k].op = "spawn"
               PROVE  FALSE
    BY DEF Spawned
  <2>1. k \in 1 .. Len(s) /\ k # step
    BY <1>3
  <2>2. s[k] = SpawnCall /\ s[step] = SpawnCall
    BY <1>1, <1>3, <2>1 DEF WellFormed
  <2> QED
    BY <1>3, <2>1, <2>2 DEF WellFormed
<1>5. \A e \in log : e.call # SpawnCall
  <2>1. background = "none"
    BY <1>3, <1>4 DEF Running
  <2>2. \A e \in log : e.how \in Hows
    BY DEF CaseInv, Types
  <2> QED
    BY <2>1, <2>2 DEF CaseInv, BackgroundLogged, Hows
<1>6. step + 1 <= Len(s)
  <2>1. s[Len(s)].op = "join"
    BY <1>1, <1>3 DEF WellFormed
  <2> QED
    BY <1>1, <1>3, <2>1
<1>7. Types'
  BY <1>1, <1>2, <1>3, <1>6 DEF CaseInv, Types
<1>8. BackgroundLogged'
  BY <1>1, <1>5 DEF BackgroundLogged, Hows
<1>9. Running'
  <2>1. \A k \in 1 .. step' - 1 : k \in 1 .. step - 1 \/ k = step
    BY <1>1, <1>3
  <2>2. \A k \in 1 .. step - 1 : k \in 1 .. step' - 1
    BY <1>1, <1>3
  <2>3. step \in 1 .. step' - 1
    BY <1>1, <1>3
  <2>4. \A k \in 1 .. step' - 1 :
          s[k].op # "spawn" => \E e \in log' : e.call = s[k] /\ e.how \in Wanted(Case, s[k])
    BY <1>1, <1>3, <2>1 DEF Running, Answered
  <2>5. Spawned'
    BY <1>1, <1>2, <1>3, <2>3 DEF Spawned
  <2> QED
    BY <1>1, <1>2, <1>3, <2>2, <2>4, <2>5 DEF Running, Answered
<1> QED
  BY <1>1, <1>3, <1>7, <1>8, <1>9 DEF CaseInv

(* The goroutine's answer changes no verdict.                              *)
LEMMA BackgroundStep == ASSUME CaseInv, NEW how \in Hows, BackgroundEnds(how) PROVE CaseInv'
<1> DEFINE new == [call |-> SpawnCall, how |-> how]
<1>1. /\ background = "pending" /\ background' = how /\ log' = log \union {new}
      /\ UNCHANGED <<relay, cases, num, step, deadline, open, verdict, failed>>
  BY DEF BackgroundEnds, Logged
<1>2. Case' = Case /\ Selected'
  BY <1>1 DEF CaseInv, Types, Selected, Case
<1>3. SpawnCall \in Calls /\ new \in [call : Calls, how : Hows]
  BY CallFields DEF SpawnCall, Ops
<1>4. Types'
  BY <1>1, <1>2, <1>3 DEF CaseInv, Types
<1>5. \A e \in log : e.call # SpawnCall
  BY <1>1 DEF CaseInv, BackgroundLogged, Types, Hows
<1>6. BackgroundLogged'
  BY <1>1, <1>5 DEF BackgroundLogged
<1>7. \A call : Answered(call) => Answered(call)'
  BY <1>1, <1>2 DEF Answered
<1>8. Running => Running'
  BY <1>1, <1>2, <1>7 DEF Running, Spawned, Hows
<1>9. Conforms => Conforms'
  BY <1>1, <1>2 DEF Conforms
<1>10. Missing => Missing'
  <2> SUFFICES ASSUME Missing
               PROVE  Missing'
    OBVIOUS
  <2>1. PICK call \in Range(Script(Case)) :
          /\ call.op # "join"
          /\ call = SpawnCall => background = "deadline"
          /\ \A e \in log : e.call = call => e.how \notin Wanted(Case, call)
    BY DEF Missing
  <2>2. call # SpawnCall
    BY <1>1, <2>1
  <2> QED
    BY <1>1, <1>2, <2>1, <2>2 DEF Missing
<1> QED
  BY <1>1, <1>4, <1>6, <1>8, <1>9, <1>10 DEF CaseInv

LEMMA JoinStep == ASSUME CaseInv, Join PROVE CaseInv'
<1> DEFINE s == Script(Case)
           logged == [call |-> SpawnCall, how |-> background]
<1>1. /\ step > 0 /\ Current.op = "join" /\ background # "pending"
      /\ step' = 0 /\ UNCHANGED <<relay, cases, num, deadline, background, log>>
      /\ verdict' = IF background = "deadline" THEN "not_ok" ELSE "ok"
      /\ failed' = (failed \/ verdict' = "not_ok")
      /\ open' = Leaves(verdict' = "ok")
  BY DEF Join, Report
<1>2. Case' = Case /\ Selected'
  BY <1>1 DEF CaseInv, Types, Selected, Case
<1>3. /\ Running /\ verdict = "none" /\ num > 0
      /\ Len(s) \in Nat /\ step \in 1 .. Len(s) /\ Current = s[step] /\ WellFormed(Case, s)
      /\ \A call \in Range(s) : \E k \in 1 .. Len(s) : call = s[k]
  BY <1>1, CurrentCall
<1>4. PICK i \in 1 .. Len(s) - 1 : step = Len(s) /\ s[i].op = "spawn"
  BY <1>1, <1>3 DEF WellFormed
<1>5. /\ i \in 1 .. step - 1 /\ i \in 1 .. Len(s) /\ s[i] = SpawnCall
  BY <1>3, <1>4 DEF WellFormed
<1>6. background \in Hows /\ logged \in log
  BY <1>1, <1>3, <1>4, <1>5 DEF Running, Spawned, CaseInv, Types, BackgroundLogged
<1>7. SpawnCall.op = "spawn"
  BY <1>4, <1>5
<1>8. Wanted(Case, SpawnCall) = {"ok", "error", "lost"}
  BY <1>7 DEF Wanted
<1>9. BackgroundLogged'
  BY <1>1 DEF CaseInv, BackgroundLogged
<1>10. CASE background = "deadline"
  <2>1. verdict' = "not_ok" /\ failed' = TRUE /\ open' = Leaves(FALSE)
    BY <1>1, <1>10
  <2>2. open' \subseteq {"pub", "sub"} /\ \A c, d \in open' : c = d
    BY <1>1, <2>1, OneLeft
  <2>3. Types'
    BY <1>1, <1>2, <1>3, <2>1, <2>2 DEF CaseInv, Types
  <2>4. Missing'
    <3>1. SpawnCall \in Range(s)
      BY <1>3, <1>5 DEF Range, WellFormed
    <3>2. \A e \in log : e.call = SpawnCall => e.how \notin Wanted(Case, SpawnCall)
      BY <1>8, <1>10 DEF CaseInv, BackgroundLogged
    <3> QED
      BY <1>1, <1>2, <1>7, <1>10, <3>1, <3>2 DEF Missing
  <2>5. \E e \in log' : e.how \in {"lost", "deadline"}
    BY <1>1, <1>6, <1>10
  <2> QED
    BY <1>1, <1>9, <2>1, <2>2, <2>3, <2>4, <2>5 DEF CaseInv
<1>11. CASE background # "deadline"
  <2>1. verdict' = "ok" /\ failed' = failed /\ open' = {}
    BY <1>1, <1>11 DEF CaseInv, Types, Leaves
  <2>2. Types'
    BY <1>1, <1>2, <1>3, <2>1 DEF CaseInv, Types
  <2>3. Conforms'
    <3> SUFFICES ASSUME NEW call \in Range(s), call.op # "join"
                 PROVE  \E e \in log : e.call = call /\ e.how \in Wanted(Case, call)
      BY <1>1, <1>2 DEF Conforms
    <3>1. PICK k \in 1 .. Len(s) : call = s[k]
      BY <1>3
    <3>2. k # step /\ k \in 1 .. step - 1
      BY <1>1, <1>3, <1>4, <3>1
    <3>3. CASE s[k].op = "spawn"
      <4>1. call = SpawnCall
        BY <1>3, <3>1, <3>3 DEF WellFormed
      <4>2. logged.how \in Wanted(Case, SpawnCall) /\ logged.call = SpawnCall
        BY <1>6, <1>8, <1>11 DEF Hows
      <4> QED
        BY <1>6, <4>1, <4>2
    <3>4. CASE s[k].op # "spawn"
      BY <1>3, <3>1, <3>2, <3>4 DEF Running, Answered
    <3> QED
      BY <3>3, <3>4
  <2> QED
    BY <1>1, <1>9, <2>1, <2>2, <2>3 DEF CaseInv
<1> QED
  BY <1>10, <1>11

LEMMA CallStep == ASSUME CaseInv, NEW how \in Hows, CallEnds(how) PROVE CaseInv'
<1> DEFINE s == Script(Case)
           new == [call |-> Current, how |-> how]
<1>1. /\ step > 0 /\ Current.op \notin {"spawn", "join"} /\ how \in Endings(Current)
      /\ Proceed(Current, how) /\ log' = log \union {new}
      /\ UNCHANGED <<relay, cases, num, deadline, background>>
  BY DEF CallEnds, Logged
<1>2. Case' = Case /\ Selected'
  BY <1>1 DEF CaseInv, Types, Selected, Case
<1>3. /\ Running /\ verdict = "none" /\ num > 0
      /\ Len(s) \in Nat /\ step \in 1 .. Len(s) /\ Current = s[step] /\ WellFormed(Case, s)
      /\ Current \in Calls /\ Current \in Range(s)
      /\ \A call \in Range(s) : \E k \in 1 .. Len(s) : call = s[k]
      /\ \A e \in log : e.call # Current
  BY <1>1, CurrentCall
<1>4. AsExpected(Current, how) <=> how \in Wanted(Case, Current)
  BY <1>1, Judged
<1>5. SpawnCall.op = "spawn"
  BY DEF SpawnCall, Call
<1>6. Current # SpawnCall
  BY <1>1, <1>5
<1>7. BackgroundLogged'
  <2>1. BackgroundLogged
    BY DEF CaseInv
  <2> QED
    BY <1>1, <1>6, <2>1 DEF BackgroundLogged
<1>8. \A k \in 1 .. step - 1 : s[k].op # "spawn" =>
        \E e \in log' : e.call = s[k] /\ e.how \in Wanted(Case, s[k])
  BY <1>1, <1>3 DEF Running, Answered
<1>9. log' \subseteq [call : Calls, how : Hows]
  BY <1>1, <1>3 DEF CaseInv, Types
<1>10. new \in log' /\ new.call = Current /\ new.how = how
  BY <1>1
<1>11. CASE ~AsExpected(Current, how)
  <2>1. /\ verdict' = "not_ok" /\ failed' = TRUE /\ open' = Leaves(FALSE) /\ step' = 0
    BY <1>1, <1>11 DEF Proceed, Report
  <2>2. open' \subseteq {"pub", "sub"} /\ \A c, d \in open' : c = d
    BY <1>1, <2>1, OneLeft
  <2>3. Types'
    <3>1. num' > 0 /\ UNCHANGED <<relay, deadline, background>>
      BY <1>1, <1>3
    <3>2. failed' \in BOOLEAN /\ verdict' = "not_ok" /\ step' = 0
      BY <2>1
    <3> QED
      BY <1>2, <1>9, <2>2, <3>1, <3>2 DEF CaseInv, Types
  <2>4. Missing'
    <3>1. \A e \in log' : e.call = Current => e.how \notin Wanted(Case, Current)
      BY <1>1, <1>3, <1>4, <1>11
    <3> QED
      BY <1>1, <1>2, <1>3, <1>6, <3>1 DEF Missing
  <2>5. relay' = "mlmpub" => \E e \in log' : e.how \in {"lost", "deadline"}
    <3>1. relay = "mlmpub" => how \in {"lost", "deadline"}
      BY <1>1, <1>11, MlmpubAsWanted
    <3> QED
      BY <1>1, <1>10, <3>1
  <2>6. ~(step' > 0) /\ verdict' # "ok" /\ failed'
    BY <2>1
  <2> QED
    BY <1>7, <2>2, <2>3, <2>4, <2>5, <2>6 DEF CaseInv
<1>12. CASE AsExpected(Current, how) /\ step = Len(s)
  <2>1. /\ verdict' = "ok" /\ failed' = failed /\ open' = {} /\ step' = 0
    BY <1>1, <1>12 DEF Proceed, Report, Leaves, CaseInv, Types
  <2>2. Types'
    BY <1>1, <1>2, <1>3, <1>9, <2>1 DEF CaseInv, Types
  <2>3. Conforms'
    <3> SUFFICES ASSUME NEW call \in Range(s), call.op # "join"
                 PROVE  \E e \in log' : e.call = call /\ e.how \in Wanted(Case, call)
      BY <1>2 DEF Conforms
    <3>1. PICK k \in 1 .. Len(s) : call = s[k]
      BY <1>3
    <3>2. s[k].op # "spawn"
      BY <1>1, <1>3, <1>12 DEF WellFormed
    <3>3. CASE k = step
      BY <1>3, <1>4, <1>12, <1>10, <3>1, <3>3
    <3>4. CASE k \in 1 .. step - 1
      BY <1>1, <1>3, <3>1, <3>2, <3>4 DEF Running, Answered
    <3> QED
      BY <1>3, <1>12, <3>3, <3>4
  <2> QED
    BY <1>7, <2>1, <2>2, <2>3 DEF CaseInv
<1>13. CASE AsExpected(Current, how) /\ step # Len(s)
  <2>1. /\ step' = step + 1 /\ UNCHANGED <<verdict, failed>>
        /\ open' = IF Current.op = "dial" THEN open \union {Current.who} ELSE open
    BY <1>1, <1>13 DEF Proceed
  <2>2. /\ Current.who \in {"pub", "sub"} /\ step + 1 <= Len(s)
        /\ OneSession(Case) => Current.who = "sub"
    BY <1>3, <1>13 DEF Calls, WellFormed
  <2>3. open' \subseteq {"pub", "sub"}
    BY <2>1, <2>2 DEF CaseInv, Types
  <2>4. Types'
    BY <1>1, <1>2, <1>3, <1>9, <2>1, <2>2, <2>3 DEF CaseInv, Types
  <2>5. Running'
    <3>1. \A k \in 1 .. step' - 1 : k \in 1 .. step - 1 \/ k = step
      BY <1>3, <2>1
    <3>2. /\ \A k \in 1 .. step - 1 : k \in 1 .. step' - 1
          /\ step \in 1 .. step' - 1
      BY <1>3, <2>1
    <3>3. \E e \in log' : e.call = Current /\ e.how \in Wanted(Case, Current)
      BY <1>4, <1>13, <1>10
    <3>4. \A k \in 1 .. step' - 1 : s[k].op # "spawn" =>
            \E e \in log' : e.call = s[k] /\ e.how \in Wanted(Case, s[k])
      BY <1>3, <1>8, <3>1, <3>3
    <3>5. \A e \in log' :
            e.call = SpawnCall \/ \E k \in 1 .. step' - 1 : e.call = s[k]
      BY <1>1, <1>3, <3>2 DEF Running
    <3>6. Spawned' <=> Spawned
      BY <1>1, <1>2, <1>3, <3>1, <3>2 DEF Spawned
    <3>7. OneSession(Case) => open' \subseteq {"sub"}
      BY <1>3, <2>1, <2>2 DEF Running
    <3> QED
      BY <1>1, <1>2, <1>3, <3>4, <3>5, <3>6, <3>7 DEF Running, Answered
  <2> QED
    BY <1>3, <1>7, <2>1, <2>4, <2>5 DEF CaseInv
<1> QED
  BY <1>11, <1>12, <1>13

(* The inductive invariant: every call before the current one ended as the *)
(* case wants, and a line says what became of the call that did not.       *)
THEOREM CasesInductive == Spec => []CaseInv
<1>1. Init => CaseInv
  <2> SUFFICES ASSUME Init
               PROVE  CaseInv
    OBVIOUS
  <2>1. TestCases \in Seq(Cases)
    BY DEF Cases, Range, TestCases
  <2>2. Selected
    BY <2>1 DEF Init, Cases, Selected
  <2>3. /\ relay \in {"any", "mlmpub"} /\ step = 0
        /\ deadline \in BOOLEAN /\ failed \in BOOLEAN
        /\ background = "none" /\ open = {} /\ verdict = "none" /\ log = {}
    BY RelaysAssumption DEF Init
  <2>4. Types
    BY <2>2, <2>3 DEF Types
  <2>5. BackgroundLogged
    BY <2>3 DEF BackgroundLogged, Hows
  <2> QED
    BY <2>3, <2>4, <2>5 DEF CaseInv
<1>2. CaseInv /\ [Next]_vars => CaseInv'
  <2> SUFFICES ASSUME CaseInv, [Next]_vars
               PROVE  CaseInv'
    OBVIOUS
  <2>1. CASE StartCase
    BY <2>1, StartCaseStep
  <2>2. CASE Expire
    BY <2>2, ExpireStep
  <2>3. CASE Spawn
    BY <2>3, SpawnStep
  <2>4. CASE Join
    BY <2>4, JoinStep
  <2>5. ASSUME NEW how \in Hows, CallEnds(how)
        PROVE  CaseInv'
    BY <2>5, CallStep
  <2>6. ASSUME NEW how \in Hows, BackgroundEnds(how)
        PROVE  CaseInv'
    BY <2>6, BackgroundStep
  <2>7. CASE UNCHANGED vars
    <3>1. UNCHANGED <<relay, cases, num, step, deadline, background, open, verdict,
                      failed, log>>
      BY <2>7 DEF vars
    <3>2. Case' = Case /\ Selected'
      BY <3>1 DEF CaseInv, Types, Selected, Case
    <3>3. Types' /\ BackgroundLogged'
      BY <3>1, <3>2 DEF CaseInv, Types, BackgroundLogged
    <3>4. (Running <=> Running') /\ (Conforms <=> Conforms') /\ (Missing <=> Missing')
      BY <3>1, <3>2 DEF Running, Answered, Spawned, Conforms, Missing
    <3> QED
      BY <3>1, <3>3, <3>4 DEF CaseInv
  <2> QED
    BY <2>1, <2>2, <2>3, <2>4, <2>5, <2>6, <2>7 DEF Next, Hows
<1> QED
  BY <1>1, <1>2, PTL DEF Spec

(* A line says "ok" exactly if the relay did what the case wants, whatever *)
(* the order of answers, deadline and goroutine, and mlmpub fails only for *)
(* a lost connection or a deadline (mlmtest/main.go:116).                  *)
THEOREM LinesCanBeTrusted == Spec => []LinesTrue
<1>1. CaseInv => LinesTrue
  <2> SUFFICES ASSUME CaseInv
               PROVE  LinesTrue
    OBVIOUS
  <2>1. Missing => ~Conforms
    BY DEF Missing, Conforms
  <2>2. verdict \in {"none", "ok", "not_ok"}
    BY DEF CaseInv, Types
  <2>3. verdict = "ok" => Conforms
    BY DEF CaseInv
  <2>4. verdict = "not_ok" => /\ failed /\ ~Conforms
    BY <2>1 DEF CaseInv
  <2>5. VerdictsSound
    BY <2>2, <2>3, <2>4 DEF VerdictsSound
  <2>6. MlmpubPasses
    BY DEF CaseInv, MlmpubPasses
  <2> QED
    BY <2>5, <2>6 DEF LinesTrue
<1> QED
  BY <1>1, CasesInductive, PTL

(* A case that passed has closed its connections, and one that failed      *)
(* leaves at most one open (mlmtest/main.go:187).                          *)
THEOREM ConnectionsClosed == Spec => []LeavesClosed
<1>1. CaseInv => LeavesClosed
  BY DEF CaseInv, LeavesClosed
<1> QED
  BY <1>1, CasesInductive, PTL
=============================================================================
