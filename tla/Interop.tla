------------------------------- MODULE Interop -------------------------------
(***************************************************************************)
(* The interop test client (cmd/mlmtest/main.go) against a relay.  A case  *)
(* is a script of calls made one after the other under a context with a    *)
(* deadline; a relay answers, refuses, hangs or drops the connection.  One *)
(* case makes a call in a goroutine of its own while its script goes on.   *)
(***************************************************************************)
EXTENDS Naturals, Sequences, SequencesExt

CONSTANT Relays  \* "any", or "mlmpub", which answers as its handlers do

ASSUME RelaysAssumption == Relays \subseteq {"any", "mlmpub"}

TestCases == <<"setup-only", "announce-only", "publish-namespace-done",
               "subscribe-error", "announce-subscribe", "subscribe-before-announce">>

Interop == "moq-test/interop"
Nonexistent == "nonexistent/namespace"

(* A call, the session that makes it and the namespace it is about. *)
Call(op, who, namespace) == [op |-> op, who |-> who, namespace |-> namespace]

Session(who) == <<Call("dial", who, Interop), Call("setup", who, Interop)>>
Announce(who) == <<Call("announce", who, Interop)>>
Publisher == Session("pub") \o Announce("pub")

Script(case) ==
  CASE case = "setup-only" -> Session("sub")
    [] case = "announce-only" -> Session("sub") \o Announce("sub")
    [] case = "publish-namespace-done" ->
         Session("sub") \o Announce("sub") \o <<Call("unannounce", "sub", Interop)>>
    [] case = "subscribe-error" -> Session("sub") \o <<Call("subscribe", "sub", Nonexistent)>>
    [] case = "announce-subscribe" ->
         Publisher \o Session("sub") \o <<Call("subscribe", "sub", Interop)>>
    [] case = "subscribe-before-announce" ->
         Session("sub") \o <<Call("spawn", "sub", Interop)>> \o Publisher
           \o <<Call("join", "sub", Interop)>>

VARIABLES
  relay, cases,  \* what the client is run against, and the cases selected
  num, step,     \* the case that runs and its next call; step 0: between cases
  deadline,      \* has the context of the case expired?
  background,    \* the subscription made in a goroutine
  open,          \* the connections of this case that are open: their owners
  verdict,       \* the line written for this case
  failed,        \* has a case failed?
  log            \* history: the calls of this case and how they ended

vars == <<relay, cases, num, step, deadline, background, open, verdict, failed, log>>

Init ==
  /\ relay \in Relays
  /\ cases \in {TestCases} \union {<<c>> : c \in Range(TestCases)}
  /\ num = 0 /\ step = 0 /\ deadline = FALSE /\ background = "none"
  /\ open = {} /\ verdict = "none" /\ failed = FALSE /\ log = {}
-----------------------------------------------------------------------------
(* How a call may end: the context wins whenever it has expired, but so    *)
(* may an answer that is there as well.  Dialling, setup and what is only  *)
(* sent are answered "ok" or not at all.                                   *)
Rejectable == {"announce", "subscribe", "spawn"}

(* mlmpub takes the interop namespace, announced or subscribed to, and     *)
(* nothing else that the client asks for.                                  *)
MlmpubAnswer(call) == IF call.namespace = Interop THEN "ok" ELSE "error"

Answers(call) ==
  IF call.op \notin Rejectable THEN {"ok"}
  ELSE IF relay = "mlmpub" THEN {MlmpubAnswer(call)}
  ELSE {"ok", "error"}

(* Mutant: the setup of a session is not under the context. *)
EndingsUnbounded(call) ==
  Answers(call) \union {"lost"}
    \union (IF deadline /\ call.op # "setup" THEN {"deadline"} ELSE {})

Endings(call) == Answers(call) \union {"lost"} \union (IF deadline THEN {"deadline"} ELSE {})

StartCase ==
  /\ step = 0 /\ num < Len(cases)
  /\ num' = num + 1 /\ step' = 1 /\ deadline' = FALSE /\ background' = "none"
  /\ open' = {} /\ verdict' = "none" /\ log' = {}
  /\ UNCHANGED <<relay, cases, failed>>

Expire == step > 0 /\ ~deadline /\ deadline' = TRUE
          /\ UNCHANGED <<relay, cases, num, step, background, open, verdict, failed, log>>

Case == cases[num]
Current == Script(Case)[step]
Logged(call, how) == log' = log \union {[call |-> call, how |-> how]}

(* Subscribing to what is not there has to be refused: any error but the   *)
(* deadline is taken for the refusal.                                      *)
(* Mutant: so is the deadline.                                             *)
AnyErrorRefuses(call, how) ==
  IF Case = "subscribe-error" /\ call.op = "subscribe" THEN how # "ok" ELSE how = "ok"

AsExpected(call, how) ==
  IF Case = "subscribe-error" /\ call.op = "subscribe"
  THEN how \notin {"ok", "deadline"}
  ELSE how = "ok"

(* A case that returns closes its sessions, if it has come to the end or   *)
(* had deferred it; a connection whose setup failed is nobody's, and two   *)
(* cases leave a session behind whose announcement failed.                 *)
AnnounceOnly == Case \in {"announce-only", "publish-namespace-done"}

(* Mutant: the case that expects an error forgets its session.             *)
LeavesOnRefusal(finished) ==
  IF Current.op = "setup" /\ ~finished THEN {Current.who}
  ELSE IF (AnnounceOnly /\ ~finished) \/ Case = "subscribe-error" THEN open
  ELSE {}

Leaves(finished) ==
  IF finished THEN {}
  ELSE IF Current.op = "setup" THEN {Current.who}
  ELSE IF AnnounceOnly THEN open
  ELSE {}

Report(line) ==
  /\ verdict' = line /\ failed' = (failed \/ line = "not_ok")
  /\ step' = 0 /\ open' = Leaves(line = "ok")

Proceed(call, how) ==
  IF ~AsExpected(call, how) THEN Report("not_ok")
  ELSE IF step = Len(Script(Case)) THEN Report("ok")
  ELSE /\ step' = step + 1 /\ UNCHANGED <<verdict, failed>>
       /\ open' = IF call.op = "dial" THEN open \union {call.who} ELSE open

CallEnds(how) ==
  /\ step > 0 /\ Current.op \notin {"spawn", "join"} /\ how \in Endings(Current)
  /\ Proceed(Current, how) /\ Logged(Current, how)
  /\ UNCHANGED <<relay, cases, num, deadline, background>>

Spawn ==
  /\ step > 0 /\ Current.op = "spawn"
  /\ background' = "pending" /\ step' = step + 1
  /\ UNCHANGED <<relay, cases, num, deadline, open, verdict, failed, log>>

(* The goroutine's answer; once the case has returned its session is       *)
(* closed and its context cancelled.                                       *)
SpawnCall == Call("spawn", "sub", Interop)

BackgroundEnds(how) ==
  /\ background = "pending"
  /\ how \in IF step > 0 THEN Endings(SpawnCall) ELSE {"lost", "deadline"}
  /\ background' = how /\ Logged(SpawnCall, how)
  /\ UNCHANGED <<relay, cases, num, step, deadline, open, verdict, failed>>

(* wg.Wait: refusal and acceptance are both right. *)
Join ==
  /\ step > 0 /\ Current.op = "join" /\ background # "pending"
  /\ Report(IF background = "deadline" THEN "not_ok" ELSE "ok")
  /\ UNCHANGED <<relay, cases, num, deadline, background, log>>

Next ==
  \/ StartCase \/ Expire \/ Spawn \/ Join
  \/ \E how \in {"ok", "error", "lost", "deadline"} : CallEnds(how) \/ BackgroundEnds(how)

Spec == Init /\ [][Next]_vars

(* The timer of a context fires, and whoever waits under a context that    *)
(* has expired is woken.  Nothing is assumed of the relay.                 *)
FairSpec ==
  /\ Spec
  /\ WF_vars(StartCase) /\ WF_vars(Expire) /\ WF_vars(Spawn) /\ WF_vars(Join)
  /\ WF_vars(CallEnds("deadline")) /\ WF_vars(BackgroundEnds("deadline"))
-----------------------------------------------------------------------------
(* What the relay has to answer in a case.  A connection that is lost      *)
(* counts as a refusal.                                                    *)
Wanted(case, call) ==
  CASE case = "subscribe-error" /\ call.op = "subscribe" -> {"error", "lost"}
    [] call.op = "spawn" -> {"ok", "error", "lost"}
    [] OTHER -> {"ok"}

Conforms ==
  \A call \in {c \in Range(Script(Case)) : c.op # "join"} :
    \E e \in log : e.call = call /\ e.how \in Wanted(Case, call)

(* The line of a case tells what the relay did, whatever the order of      *)
(* answers, deadline and the goroutine: "ok" exactly if every call was     *)
(* answered as the case wants, and the client fails if a line says so.     *)
VerdictsSound ==
  verdict # "none" => (verdict = "ok" <=> Conforms) /\ (verdict = "not_ok" => failed)

(* mlmpub is a relay that passes: a case fails against it only when the    *)
(* connection is lost or the deadline passes (pub.go:77).                  *)
MlmpubPasses ==
  relay = "mlmpub" /\ verdict = "not_ok" => \E e \in log : e.how \in {"lost", "deadline"}

(* Together: a line can be trusted, and mlmpub can be tested with it.      *)
LinesTrue == VerdictsSound /\ MlmpubPasses

(* A case that passed has closed its connections, so that the next starts  *)
(* with a relay that knows nothing of it; one that failed leaves at most   *)
(* one open.                                                               *)
LeavesClosed ==
  /\ verdict = "ok" => open = {}
  /\ verdict = "not_ok" => \A c, d \in open : c = d

(* "A stuck peer fails the test cleanly instead of blocking indefinitely"  *)
(* (CHANGELOG.md:88): every case selected gets its line, and no goroutine  *)
(* stays behind.                                                           *)
CasesEnd == <>(num = Len(cases) /\ step = 0 /\ background # "pending")
=============================================================================
