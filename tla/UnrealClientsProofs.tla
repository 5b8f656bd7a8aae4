--------------------------- MODULE UnrealClientsProofs ---------------------------
(***************************************************************************)
(* Proofs about UnrealClients, for any number of example actors and of     *)
(* files, whatever the files contain, however often proofs are repeated    *)
(* and wherever they fail.  That the hosts underneath keep their own       *)
(* invariant is NativeModuleHostProofs; here is what the clients add.      *)
(* GateBProofActor, an actor without a module, follows at the end.         *)
(***************************************************************************)
EXTENDS UnrealClients, NativeModuleHostProofs, GateBProofActor

Calls == {"set", "load", "run", "execute", "report", "clear", "unload", "end"}

RunCalls == {"run", "execute"}

(* What every script, and every rest of one, looks like: who sets a handler *)
(* clears it later; there is one run at most; a report follows its run.     *)
Wellformed(c, s) ==
  /\ s \in Seq(Calls)
  /\ \A i \in 1..Len(s) :
       /\ s[i] = "set" => c \in Owners /\ \E j \in 1..Len(s) : j > i /\ s[j] = "clear"
       /\ s[i] = "run" => c # OneShot
       /\ s[i] = "execute" => c = OneShot
       /\ s[i] = "report" => c \in Clients /\ (i > 1 => s[i - 1] \in RunCalls)
       /\ s[i] \in RunCalls => \A j \in 1..Len(s) : j > i => s[j] \notin RunCalls

Pending(call) == \E i \in 1..Len(thread.todo) : thread.todo[i] = call

ClientTypeOK ==
  /\ game \in {"starting", "playing", "ending", "ended"}
  /\ actor \in [Actors -> {"unborn", "playing", "destroyed"}]
  /\ thread \in [client : Clients \cup {Blueprint, None}, todo : Seq(Calls)]
  /\ answered \in [Clients -> Nat]
  /\ shown \in [Clients -> [run : 0..MaxRuns, calls : Nat]]

(* The game thread is in a script, or nowhere. *)
ThreadInv ==
  /\ thread.todo = << >> => Free
  /\ Wellformed(thread.client, thread.todo)

(* An installed handler belongs to the client the thread is in, which will  *)
(* clear it; an actor that sets one exists.                                 *)
HandlerInv ==
  /\ handler[Subsystem] # None =>
       thread.client = handler[Subsystem] /\ Pending("clear")
  /\ thread.client \in Actors /\ (Pending("set") \/ handler[Subsystem] # None) =>
       actor[thread.client] = "playing"

(* The end of the game instance: what is loaded will still be unloaded.     *)
GameInv ==
  /\ game = "starting" => Free /\ answered[Packaged] = 0
  /\ game = "ending" =>
       LET s == thread.todo
       IN  /\ ~Free /\ s[Len(s)] = "end"
           /\ \A i \in 1..Len(s) : i < Len(s) => s[i] \in {"clear", "unload"}
           /\ session[Subsystem].handle # None => Pending("unload")
  /\ game = "ended" => Free /\ session[Subsystem].handle = None
  /\ game # "ending" => ~Pending("end")

(* A run belongs to the call the thread is in; it has counted what its      *)
(* client answered, unless it has failed already.                           *)
RunningInv ==
  /\ ~Quiet => /\ At(IF running.who = OneShot THEN "execute" ELSE "run")
               /\ ~Latest.ok
               /\ thread.client \in Clients /\ ~running.failed =>
                    Latest.calls = answered[thread.client]
  /\ Quiet /\ thread.client \in Clients /\ (Pending("run") \/ Pending("execute")) =>
       answered[thread.client] = 0

(* r is a run of the client's that succeeded with so many calls.            *)
IsReport(c, r, calls) ==
  r # NoRun => /\ r \in 1..Len(log) /\ log[r].ok /\ log[r].calls = calls
               /\ log[r].who = IF c = OneShot THEN OneShot ELSE Subsystem

ToReport ==
  LET c == thread.client
  IN  IsReport(c, IF c = OneShot THEN shot ELSE session[Subsystem].last, answered[c])

ReportInv ==
  /\ \A c \in Clients : IsReport(c, shown[c].run, shown[c].calls)
  /\ At("report") => ToReport

CInv ==
  PInv /\ ClientTypeOK /\ ThreadInv /\ HandlerInv /\ GameInv /\ RunningInv /\ ReportInv
----------------------------------------------------------------------------
(* Scripts. *)

LEMMA Rest ==
  ASSUME NEW s \in Seq(Calls), s # << >>
  PROVE  /\ Len(s) \in Nat /\ Len(s) > 0 /\ Head(s) = s[1]
         /\ Tail(s) \in Seq(Calls) /\ Len(Tail(s)) = Len(s) - 1
         /\ \A i \in 1..(Len(s) - 1) : Tail(s)[i] = s[i + 1]
  OBVIOUS

(* The rest of a script is one. *)
LEMMA RestWellformed ==
  ASSUME NEW c, NEW s, Wellformed(c, s), s # << >>
  PROVE  Wellformed(c, Tail(s))
<1> DEFINE n == Len(s)
           t == Tail(s)
<1>1. /\ n \in Nat /\ t \in Seq(Calls) /\ Len(t) = n - 1
      /\ \A i \in 1..(n - 1) : t[i] = s[i + 1]
  BY Rest DEF Wellformed
<1> HIDE DEF n, t
<1>2. ASSUME NEW i \in 1..(n - 1)
      PROVE  /\ t[i] = "set" => c \in Owners /\ \E j \in 1..(n - 1) : j > i /\ t[j] = "clear"
             /\ t[i] = "run" => c # OneShot
             /\ t[i] = "execute" => c = OneShot
             /\ t[i] = "report" => c \in Clients /\ (i > 1 => t[i - 1] \in RunCalls)
             /\ t[i] \in RunCalls => \A j \in 1..(n - 1) : j > i => t[j] \notin RunCalls
  <2>1. i + 1 \in 1..n /\ t[i] = s[i + 1]
    BY <1>1
  <2>2. /\ s[i + 1] = "set" => c \in Owners /\ \E j \in 1..n : j > i + 1 /\ s[j] = "clear"
        /\ s[i + 1] = "run" => c # OneShot
        /\ s[i + 1] = "execute" => c = OneShot
        /\ s[i + 1] = "report" => c \in Clients /\ (i + 1 > 1 => s[(i + 1) - 1] \in RunCalls)
        /\ s[i + 1] \in RunCalls => \A j \in 1..n : j > i + 1 => s[j] \notin RunCalls
    BY <2>1 DEF Wellformed, n
  <2>3. s[i + 1] = "set" => \E j \in 1..(n - 1) : j > i /\ t[j] = "clear"
    <3>1. SUFFICES ASSUME s[i + 1] = "set" PROVE \E j \in 1..(n - 1) : j > i /\ t[j] = "clear"
      OBVIOUS
    <3>2. PICK j \in 1..n : j > i + 1 /\ s[j] = "clear"
      BY <2>2, <3>1
    <3>3. j - 1 \in 1..(n - 1) /\ j - 1 > i /\ t[j - 1] = s[(j - 1) + 1] /\ (j - 1) + 1 = j
      BY <1>1, <3>2
    <3> QED BY <3>2, <3>3
  <2>4. i > 1 /\ s[i + 1] = "report" => t[i - 1] \in RunCalls
    <3>1. i > 1 => t[i - 1] = s[(i - 1) + 1] /\ (i - 1) + 1 = i /\ (i + 1) - 1 = i /\ i + 1 > 1
      BY <1>1
    <3> QED BY <2>2, <3>1
  <2>5. s[i + 1] \in RunCalls => \A j \in 1..(n - 1) : j > i => t[j] \notin RunCalls
    <3>1. SUFFICES ASSUME s[i + 1] \in RunCalls, NEW j \in 1..(n - 1), j > i
                   PROVE  t[j] \notin RunCalls
      OBVIOUS
    <3>2. j + 1 \in 1..n /\ j + 1 > i + 1 /\ t[j] = s[j + 1]
      BY <1>1, <3>1
    <3> QED BY <2>2, <3>1, <3>2
  <2> QED BY <2>1, <2>2, <2>3, <2>4, <2>5
<1>3. Wellformed(c, t)
  BY <1>1, <1>2 DEF Wellformed
<1> QED BY <1>3 DEF t

(* The rest after a call. *)
LEMMA Continued ==
  ASSUME ClientTypeOK, ThreadInv, NEW call, At(call), Continue
  PROVE  /\ call \in Calls
         /\ thread' \in [client : Clients \cup {Blueprint, None}, todo : Seq(Calls)]
         /\ ThreadInv' /\ thread'.client \in {thread.client, None}
         /\ \A x : Pending(x)' => Pending(x) /\ thread'.client = thread.client
         /\ \A x : Pending(x) /\ x # call => Pending(x)'
         /\ At("report")' => /\ call \in RunCalls /\ thread'.client = thread.client
                             /\ thread.client \in Clients
         /\ Pending(call)
         /\ call \in RunCalls => ~Pending("run")' /\ ~Pending("execute")'
         /\ call = "set" => Pending("clear")' /\ thread.client \in Owners
         /\ call = "run" => thread.client # OneShot
         /\ call = "execute" => thread.client = OneShot
         /\ call = "report" => thread.client \in Clients
<1> DEFINE s == thread.todo
           c == thread.client
           t == Tail(s)
           n == Len(s)
<1>1. /\ s # << >> /\ Wellformed(c, s) /\ s \in Seq(Calls) /\ Head(s) = call
      /\ Then(t)
  BY DEF At, ThreadInv, Wellformed, Continue, Free, ClientTypeOK, Idle
<1>2. /\ n \in Nat /\ n > 0 /\ s[1] = call /\ call \in Calls /\ t \in Seq(Calls) /\ Len(t) = n - 1
      /\ \A i \in 1..(n - 1) : t[i] = s[i + 1]
      /\ Wellformed(c, t)
  BY <1>1, Rest, RestWellformed
<1>3. /\ thread'.todo = t
      /\ IF t = << >> THEN thread' = Idle ELSE thread'.client = c
      /\ thread' \in [client : Clients \cup {Blueprint, None}, todo : Seq(Calls)]
  BY <1>1, <1>2 DEF Then, Idle, ClientTypeOK
<1> HIDE DEF t, s, n, c
<1>4. thread'.client \in {c, None} /\ ThreadInv'
  BY <1>2, <1>3 DEF ThreadInv, Idle, Wellformed, Free
<1>5. ASSUME NEW x, Pending(x)'
      PROVE  Pending(x) /\ thread'.client = c
  <2>1. PICK i \in 1..Len(t) : t[i] = x
    BY <1>3, <1>5 DEF Pending
  <2>2. i + 1 \in 1..n /\ s[i + 1] = x /\ Len(t) # 0
    BY <1>2, <2>1
  <2> QED BY <1>3, <2>2 DEF Pending, s, n
<1>6. ASSUME NEW x, Pending(x), x # call
      PROVE  Pending(x)'
  <2>1. PICK i \in 1..n : s[i] = x
    BY <1>6 DEF Pending, s, n
  <2>2. i - 1 \in 1..(n - 1) /\ (i - 1) + 1 = i
    BY <1>2, <1>6, <2>1
  <2> QED BY <1>2, <1>3, <2>1, <2>2 DEF Pending
<1>7. /\ s[1] = "set" => c \in Owners /\ \E j \in 1..n : j > 1 /\ s[j] = "clear"
      /\ s[1] = "run" => c # OneShot
      /\ s[1] = "execute" => c = OneShot
      /\ s[1] = "report" => c \in Clients
      /\ s[1] \in RunCalls => \A j \in 1..n : j > 1 => s[j] \notin RunCalls
  <2>1. 1 \in 1..n
    BY <1>2
  <2> QED BY <1>1, <2>1 DEF Wellformed, n
<1>8. ASSUME At("report")'
      PROVE  call \in RunCalls /\ thread'.client = c /\ c \in Clients
  <2>1. t # << >> /\ Head(t) = "report"
    BY <1>3, <1>4, <1>8 DEF At, ThreadInv
  <2>2. t[1] = "report" /\ Len(t) > 0
    BY <1>2, <2>1, Rest
  <2>3. 2 \in 1..n /\ s[2] = "report"
    BY <1>2, <2>2
  <2>4. s[2 - 1] \in RunCalls /\ c \in Clients
    BY <1>1, <2>3 DEF Wellformed, n
  <2> QED BY <1>2, <1>3, <2>1, <2>4
<1>9. call \in RunCalls => ~Pending("run")' /\ ~Pending("execute")'
  <2>1. SUFFICES ASSUME call \in RunCalls, NEW i \in 1..Len(t) PROVE t[i] \notin RunCalls
    BY <1>3 DEF Pending, RunCalls
  <2>2. i + 1 \in 1..n /\ i + 1 > 1 /\ t[i] = s[i + 1]
    BY <1>2
  <2> QED BY <1>2, <1>7, <2>1, <2>2
<1>10. call = "set" => Pending("clear")' /\ c \in Owners
  BY <1>2, <1>6, <1>7 DEF Pending, s, n
<1>11. Pending(call)
  BY <1>2 DEF Pending, s, n
<1> QED BY <1>2, <1>3, <1>4, <1>5, <1>6, <1>7, <1>8, <1>9, <1>10, <1>11 DEF c

(* The rest when a load or a run has failed. *)
LEMMA GivenUp ==
  ASSUME ClientTypeOK, ~Free,
         \/ Then(<< >>) /\ thread.client \in {Blueprint, OneShot}
         \/ Then(AfterFailedLoad)
         \/ Then(AfterFailedRun)
  PROVE  /\ thread' \in [client : Clients \cup {Blueprint, None}, todo : Seq(Calls)]
         /\ ThreadInv' /\ thread'.client \in {thread.client, None}
         /\ \A x : Pending(x)' => x \in {"clear", "unload"}
         /\ ~At("report")'
         /\ thread.client \in {Blueprint, OneShot} \/
              (Pending("clear")' /\ thread'.client = thread.client)
<1> DEFINE c == thread.client
           Rests == {<< >>, <<"clear">>, <<"clear", "unload">>}
<1>1. PICK s \in Rests : Then(s) /\ (s = << >> => c \in {Blueprint, OneShot})
  BY DEF AfterFailedLoad, AfterFailedRun
<1>2. /\ Wellformed(c, s) /\ Wellformed(None, << >>)
      /\ \A i \in 1..Len(s) : s[i] \in {"clear", "unload"}
      /\ s # << >> => Len(s) \in Nat /\ Len(s) > 0 /\ s[1] = "clear" /\ Head(s) = "clear"
  <2>1. CASE s = << >>
    BY <2>1 DEF Wellformed
  <2>2. CASE s = <<"clear">>
    <3>1. Len(s) = 1 /\ s[1] = "clear" /\ s \in Seq(Calls) /\ Head(s) = "clear"
      BY <2>2 DEF Calls
    <3> QED BY <3>1 DEF Wellformed, RunCalls
  <2>3. CASE s = <<"clear", "unload">>
    <3>1. /\ Len(s) = 2 /\ s[1] = "clear" /\ s[2] = "unload" /\ s \in Seq(Calls)
          /\ Head(s) = "clear"
      BY <2>3 DEF Calls
    <3>2. \A i \in 1..Len(s) : s[i] = "clear" \/ s[i] = "unload"
      BY <3>1
    <3>3. Wellformed(c, s)
      BY <3>1, <3>2 DEF Wellformed, RunCalls
    <3> QED BY <3>1, <3>2, <3>3 DEF Wellformed
  <2> QED BY <2>1, <2>2, <2>3
<1>3. /\ thread'.todo = s
      /\ IF s = << >> THEN thread' = Idle ELSE thread'.client = c
      /\ thread' \in [client : Clients \cup {Blueprint, None}, todo : Seq(Calls)]
  BY <1>1, <1>2 DEF Then, Idle, ClientTypeOK, Wellformed
<1> HIDE DEF c
<1>4. ThreadInv' /\ thread'.client \in {c, None}
  BY <1>2, <1>3 DEF ThreadInv, Idle, Free
<1>5. \A x : Pending(x)' => x \in {"clear", "unload"}
  BY <1>2, <1>3 DEF Pending
<1>6. ~At("report")'
  BY <1>2, <1>3 DEF At, Free
<1>7. s # << >> => Pending("clear")'
  <2>1. s # << >> => 1 \in 1..Len(s)
    BY <1>2
  <2> QED BY <1>2, <1>3, <2>1 DEF Pending
<1> QED BY <1>1, <1>3, <1>4, <1>5, <1>6, <1>7 DEF c

(* The history keeps every run that has succeeded. *)
LEMMA HistoryKept ==
  ASSUME PInv, ~Quiet => ~Latest.ok, [Next]_vars, NEW r \in 1..Len(log), log[r].ok
  PROVE  r \in 1..Len(log') /\ log'[r] = log[r]
<1> DEFINE E == [who : Callers, file : Files, ok : BOOLEAN, calls : 0..MaxCalls]
<1>1. TypeOK /\ log \in Seq(E) /\ Len(log) \in Nat
  BY DEF PInv, IInv, TypeOK, Callers
<1>2. ASSUME NEW d, NEW who \in Callers, NEW f \in Files, NEW bound, Begin(d, who, f, bound)
      PROVE  r \in 1..Len(log') /\ log'[r] = log[r]
  <2> DEFINE x == Entry(who, f, FALSE, 0)
  <2>1. x \in E /\ log' = Append(log, x)
    BY <1>2, HostAssumption DEF Entry, Begin
  <2> HIDE DEF E, x
  <2> QED BY <1>1, <2>1
<1>3. ASSUME NEW ok, NEW calls, Record(ok, calls), ~Quiet
      PROVE  r \in 1..Len(log') /\ log'[r] = log[r]
  <2>1. r # Len(log)
    BY <1>3 DEF Latest
  <2>2. Len(log) > 0
    BY <1>1
  <2> QED BY <1>1, <1>3, <2>1, <2>2, RecordedLast
<1>4. CASE UNCHANGED log
  BY <1>4
<1>5. ASSUME NEW w \in Wrappers, Run(w)
      PROVE  r \in 1..Len(log') /\ log'[r] = log[r]
  <2>1. CASE RunBegins(w)
    <3>1. session[w].handle \in Files /\ w \in Callers
      BY <2>1 DEF RunBegins, MayRun, IsLoaded, PInv, IInv, TypeOK, Callers
    <3> DEFINE f == session[w].handle
               bound == handler[w] # None
    <3>2. Begin(dll, w, f, bound)
      BY <2>1 DEF RunBegins
    <3> HIDE DEF f, bound
    <3> QED BY <1>2, <3>1, <3>2 DEF f
  <2>2. CASE RunSucceeds(w)
    <3>1. ~Quiet
      BY <2>2, HostAssumption DEF RunSucceeds, Quiet, Nothing, InProgress
    <3>2. Record(TRUE, Latest.calls)
      BY <2>2 DEF RunSucceeds
    <3> QED BY <1>3, <3>1, <3>2
  <2>3. CASE RunRefused(w) \/ RunFails(w)
    BY <1>4, <2>3 DEF RunRefused, RunFails
  <2> QED BY <1>5, <2>1, <2>2, <2>3 DEF Run
<1>6. ASSUME NEW answer, HostCall(answer)
      PROVE  r \in 1..Len(log') /\ log'[r] = log[r]
  <2> DEFINE calls == Latest.calls + 1
  <2>1. ~Quiet /\ Record(FALSE, calls)
    BY <1>6 DEF HostCall
  <2> HIDE DEF calls
  <2> QED BY <1>3, <2>1
<1>7. ASSUME ExecuteModule
      PROVE  r \in 1..Len(log') /\ log'[r] = log[r]
  <2>1. ASSUME NEW f \in Files, ExecuteBegins(f)
        PROVE  r \in 1..Len(log') /\ log'[r] = log[r]
    <3> DEFINE d == GetHandle(dll, f)
               bound == TRUE
    <3>1. OneShot \in Callers /\ Begin(d, OneShot, f, bound)
      BY <2>1 DEF ExecuteBegins, Callers
    <3> HIDE DEF d, bound
    <3> QED BY <1>2, <3>1
  <2>2. ASSUME NEW ok, ExecuteEnds(ok)
        PROVE  r \in 1..Len(log') /\ log'[r] = log[r]
    <3>1. ~Quiet /\ Record(ok, Latest.calls)
      BY <2>2, HostAssumption DEF ExecuteEnds, Quiet, Nothing, InProgress
    <3> QED BY <1>3, <3>1
  <2>3. ASSUME NEW f \in Files, ExecuteRefused(f)
        PROVE  UNCHANGED log
    BY <2>3 DEF ExecuteRefused
  <2> QED BY <1>4, <1>7, <2>1, <2>2, <2>3 DEF ExecuteModule
<1>8. CASE UNCHANGED vars
  BY <1>4, <1>8 DEF vars
<1>9. ASSUME NEW w \in Wrappers,
             \/ \E f \in Files : Load(w, f)
             \/ Unload(w)
             \/ \E o \in Owners : SetHostCallHandler(w, o)
             \/ ClearHostCallHandler(w)
      PROVE  UNCHANGED log
  BY <1>9 DEF Load, LoadUnavailable, LoadRejected, LoadAccepted, Unload, SetHostCallHandler,
              ClearHostCallHandler
<1> QED BY <1>4, <1>5, <1>6, <1>7, <1>8, <1>9 DEF Next

(* So what a client has reported stays true. *)
LEMMA ReportsKept ==
  ASSUME PInv, ~Quiet => ~Latest.ok, [Next]_vars, NEW c, NEW r, NEW calls, IsReport(c, r, calls)
  PROVE  IsReport(c, r, calls)'
<1>1. CASE r = NoRun
  BY <1>1 DEF IsReport
<1>2. CASE r # NoRun
  BY <1>2, HistoryKept DEF IsReport
<1> QED BY <1>1, <1>2

----------------------------------------------------------------------------
(* The game thread is free: a client begins. *)

LEMMA Appended ==
  ASSUME NEW S, NEW t \in Seq(S), NEW x \in S
  PROVE  /\ Append(t, x) \in Seq(S) /\ Len(Append(t, x)) = Len(t) + 1
         /\ Append(t, x)[Len(t) + 1] = x
         /\ \A i \in 1..Len(t) : Append(t, x)[i] = t[i]
  OBVIOUS

(* The scripts that the clients begin with. *)
LEMMA Scripts ==
  ASSUME NEW c
  PROVE  /\ c \in Owners => /\ Wellformed(c, Script(c)) /\ Len(Script(c)) > 0
                            /\ Script(c)[1] = "set"
                            /\ \A i \in 1..Len(Script(c)) : Script(c)[i] # "end"
         /\ Wellformed(OneShot, <<"execute", "report">>)
         /\ Wellformed(c, <<"clear", "unload">>)
         /\ Wellformed(c, <<"clear", "unload", "unload", "end">>)
         /\ \A call \in {"load", "unload", "run"} :
              (call = "run" => c # OneShot) => Wellformed(c, <<call>>)
<1>1. ASSUME c \in Owners
      PROVE  /\ Wellformed(c, Script(c)) /\ Len(Script(c)) > 0 /\ Script(c)[1] = "set"
             /\ \A i \in 1..Len(Script(c)) : Script(c)[i] # "end"
  <2> DEFINE s == Script(c)
  <2>1. c # OneShot /\ c \in Clients
    BY <1>1, ClientAssumption DEF Clients
  <2>2. /\ s \in Seq(Calls) /\ Len(s) \in {5, 6}
        /\ s[1] = "set" /\ s[2] = "load" /\ s[3] = "run" /\ s[4] = "report" /\ s[5] = "clear"
        /\ Len(s) = 6 => s[6] = "unload"
    <3> DEFINE t == ProofScript
    <3>1. /\ t \in Seq(Calls) /\ Len(t) = 5
          /\ t[1] = "set" /\ t[2] = "load" /\ t[3] = "run" /\ t[4] = "report" /\ t[5] = "clear"
      BY DEF ProofScript, Calls
    <3>2. s = t \/ s = Append(t, "unload")
      BY DEF Script
    <3>3. "unload" \in Calls
      BY DEF Calls
    <3> HIDE DEF t, s
    <3>4. CASE s = t
      BY <3>1, <3>4
    <3>5. CASE s = Append(t, "unload")
      <4> DEFINE x == "unload"
      <4>1. s = Append(t, x) /\ x \in Calls /\ t \in Seq(Calls)
        BY <3>1, <3>3, <3>5
      <4> HIDE DEF x
      <4>2. /\ s \in Seq(Calls) /\ Len(s) = Len(t) + 1 /\ s[Len(t) + 1] = x
            /\ \A i \in 1..Len(t) : s[i] = t[i]
        BY <4>1, Appended
      <4>3. /\ s \in Seq(Calls) /\ Len(s) = Len(t) + 1 /\ s[Len(t) + 1] = "unload"
            /\ \A i \in 1..Len(t) : s[i] = t[i]
        BY <4>2 DEF x
      <4>4. /\ 1 \in 1..Len(t) /\ 2 \in 1..Len(t) /\ 3 \in 1..Len(t) /\ 4 \in 1..Len(t)
            /\ 5 \in 1..Len(t)
        BY <3>1
      <4> QED BY <3>1, <4>3, <4>4
    <3> QED BY <3>2, <3>4, <3>5
  <2> HIDE DEF s
  <2>3. \A i \in 1..Len(s) : \/ i = 1 /\ s[i] = "set"
                             \/ i = 2 /\ s[i] = "load"
                             \/ i = 3 /\ s[i] = "run"
                             \/ i = 4 /\ s[i] = "report" /\ s[i - 1] = "run"
                             \/ i = 5 /\ s[i] = "clear"
                             \/ i = 6 /\ s[i] = "unload"
    <3>1. SUFFICES ASSUME NEW i \in 1..Len(s)
                   PROVE  \/ i = 1 /\ s[i] = "set"
                          \/ i = 2 /\ s[i] = "load"
                          \/ i = 3 /\ s[i] = "run"
                          \/ i = 4 /\ s[i] = "report" /\ s[i - 1] = "run"
                          \/ i = 5 /\ s[i] = "clear"
                          \/ i = 6 /\ s[i] = "unload"
      OBVIOUS
    <3> DEFINE n == Len(s)
    <3>2. n = 5 \/ n = 6
      BY <2>2
    <3>3. i \in 1..n
      OBVIOUS
    <3> HIDE DEF n
    <3>4. i = 1 \/ i = 2 \/ i = 3 \/ i = 4 \/ i = 5 \/ (i = 6 /\ n = 6)
      BY <3>2, <3>3
    <3>5. i = 4 => i - 1 = 3
      OBVIOUS
    <3> QED BY <2>2, <3>4, <3>5 DEF n
  <2>4. 5 \in 1..Len(s)
    BY <2>2
  <2>5. Wellformed(c, s)
    BY <1>1, <2>1, <2>2, <2>3, <2>4 DEF Wellformed, RunCalls
  <2> QED BY <2>2, <2>3, <2>5 DEF s
<1>2. Wellformed(OneShot, <<"execute", "report">>)
  <2> DEFINE s == <<"execute", "report">>
  <2>1. s \in Seq(Calls) /\ Len(s) = 2 /\ s[1] = "execute" /\ s[2] = "report"
    BY DEF Calls
  <2>2. OneShot \in Clients
    BY DEF Clients
  <2> HIDE DEF s
  <2>3. \A i \in 1..Len(s) : \/ i = 1 /\ s[i] = "execute"
                             \/ i = 2 /\ s[i] = "report" /\ s[i - 1] = "execute"
    BY <2>1
  <2>4. Wellformed(OneShot, s)
    BY <2>1, <2>2, <2>3 DEF Wellformed, RunCalls
  <2> QED BY <2>4 DEF s
<1>3. Wellformed(c, <<"clear", "unload">>)
  <2> DEFINE s == <<"clear", "unload">>
  <2>1. s \in Seq(Calls) /\ Len(s) = 2 /\ s[1] = "clear" /\ s[2] = "unload"
    BY DEF Calls
  <2> HIDE DEF s
  <2>2. \A i \in 1..Len(s) : s[i] \in {"clear", "unload"}
    BY <2>1
  <2>3. Wellformed(c, s)
    BY <2>1, <2>2 DEF Wellformed, RunCalls
  <2> QED BY <2>3 DEF s
<1>4. Wellformed(c, <<"clear", "unload", "unload", "end">>)
  <2> DEFINE s == <<"clear", "unload", "unload", "end">>
  <2>1. /\ s \in Seq(Calls) /\ Len(s) = 4 /\ s[1] = "clear" /\ s[2] = "unload"
        /\ s[3] = "unload" /\ s[4] = "end"
    BY DEF Calls
  <2> HIDE DEF s
  <2>2. \A i \in 1..Len(s) : s[i] \in {"clear", "unload", "end"}
    BY <2>1
  <2>3. Wellformed(c, s)
    BY <2>1, <2>2 DEF Wellformed, RunCalls
  <2> QED BY <2>3 DEF s
<1>5. ASSUME NEW call \in {"load", "unload", "run"}, call = "run" => c # OneShot
      PROVE  Wellformed(c, <<call>>)
  <2> DEFINE s == <<call>>
  <2>1. s \in Seq(Calls) /\ Len(s) = 1 /\ s[1] = call
    BY DEF Calls
  <2> HIDE DEF s
  <2>2. Wellformed(c, s)
    BY <1>5, <2>1 DEF Wellformed, RunCalls
  <2> QED BY <2>2 DEF s
<1> QED BY <1>1, <1>2, <1>3, <1>4, <1>5

(* Nobody's handler is installed, and nothing runs, while the thread is free. *)
LEMMA FreeFacts ==
  ASSUME CInv, Free
  PROVE  /\ Quiet /\ handler[Subsystem] = None
         /\ \A x : ~Pending(x)
<1>1. Len(thread.todo) = 0
  BY DEF Free, Idle
<1>2. \A x : ~Pending(x)
  BY <1>1 DEF Pending
<1> QED BY <1>2 DEF CInv, HandlerInv, RunningInv, At

LEMMA ClientBegins ==
  ASSUME CInv, UNCHANGED vars, NEW c \in Clients \cup {Blueprint}, NEW s, Starts(c, s),
         Wellformed(c, s), Len(s) > 0, s[1] # "report",
         actor' \in [Actors -> {"unborn", "playing", "destroyed"}],
         game' \in {"starting", "playing", "ending", "ended"},
         answered' \in [Clients -> Nat],
         shown' \in [Clients -> [run : 0..MaxRuns, calls : Nat]],
         c \in Actors /\ (\E i \in 1..Len(s) : s[i] = "set") => actor'[c] = "playing",
         c \in Clients /\ (\E i \in 1..Len(s) : s[i] \in RunCalls) => answered'[c] = 0,
         \A k \in Clients : shown'[k] = shown[k] \/ shown'[k].run = NoRun,
         (~Free' /\ thread'.client = c /\ thread'.todo = s) => GameInv'
  PROVE  CInv'
<1>1. /\ Free /\ Quiet /\ handler[Subsystem] = None
      /\ thread' = [client |-> c, todo |-> s] /\ s \in Seq(Calls) /\ Len(s) \in Nat
  BY FreeFacts DEF Starts, Wellformed
<1>2. thread'.client = c /\ thread'.todo = s /\ s # << >> /\ ~Free'
  BY <1>1 DEF Free, Idle
<1>3. PInv' /\ Quiet' /\ UNCHANGED <<handler, session, shot, log, running>>
  BY <1>1, NextPInv DEF CInv, vars, Quiet
<1>4. ClientTypeOK'
  BY <1>1 DEF ClientTypeOK
<1>5. ThreadInv'
  BY <1>2 DEF ThreadInv
<1>6. HandlerInv'
  BY <1>1, <1>2, <1>3 DEF HandlerInv, Pending
<1>7. RunningInv'
  BY <1>2, <1>3 DEF RunningInv, Pending, RunCalls
<1>8. ReportInv'
  <2>1. ~At("report")'
    <3>1. Head(s) = s[1]
      BY <1>1, <1>2
    <3> QED BY <1>2, <3>1 DEF At
  <2>2. \A k \in Clients : IsReport(k, shown[k].run, shown[k].calls)'
    <3>1. SUFFICES ASSUME NEW k \in Clients, shown'[k].run # NoRun
                   PROVE  IsReport(k, shown[k].run, shown[k].calls)'
      BY DEF IsReport
    <3>2. shown'[k] = shown[k] /\ IsReport(k, shown[k].run, shown[k].calls)
      BY <3>1 DEF CInv, ReportInv
    <3> QED BY <1>3, <3>1, <3>2 DEF IsReport
  <2> QED BY <2>1, <2>2 DEF ReportInv
<1> QED BY <1>2, <1>3, <1>4, <1>5, <1>6, <1>7, <1>8 DEF CInv

(* The thread stays where it is, free. *)
LEMMA ClientStays ==
  ASSUME CInv, UNCHANGED <<vars, thread, answered, shown>>, Free,
         actor' \in [Actors -> {"unborn", "playing", "destroyed"}],
         game' \in {"playing", "ended"}, game' = "ended" => game = "ended"
  PROVE  CInv'
<1>1. Quiet /\ handler[Subsystem] = None /\ (\A x : ~Pending(x)) /\ Free'
  BY FreeFacts DEF Free
<1>2. PInv' /\ Quiet' /\ UNCHANGED <<handler, session, shot, log, running>>
  BY <1>1, NextPInv DEF CInv, vars, Quiet
<1>3. \A x : ~Pending(x)'
  BY <1>1 DEF Pending
<1>4. ClientTypeOK' /\ ThreadInv' /\ RunningInv' /\ HandlerInv'
  BY <1>1, <1>2, <1>3 DEF CInv, ClientTypeOK, ThreadInv, RunningInv, HandlerInv, Free
<1>5. GameInv'
  BY <1>1, <1>2, <1>3 DEF CInv, GameInv
<1>6. ReportInv'
  BY <1>1, <1>2 DEF CInv, ReportInv, IsReport, At
<1> QED BY <1>2, <1>4, <1>5, <1>6 DEF CInv

LEMMA InitializeStep ==
  ASSUME CInv, Initialize
  PROVE  CInv'
<1>1. /\ Free /\ answered[Packaged] = 0 /\ game' = "playing"
      /\ UNCHANGED <<vars, actor, answered, shown>> /\ ClientTypeOK
  BY DEF Initialize, CInv, GameInv
<1>2. CASE UNCHANGED thread
  BY <1>1, <1>2, ClientStays DEF ClientTypeOK
<1>3. CASE Starts(Packaged, Script(Packaged))
  <2> DEFINE s == Script(Packaged)
  <2>1. /\ Packaged \in Owners /\ Packaged \in Clients /\ Packaged \notin Actors
    BY ClientAssumption DEF Clients
  <2>2. /\ Wellformed(Packaged, s) /\ Len(s) > 0 /\ s[1] # "report"
        /\ \A i \in 1..Len(s) : s[i] # "end"
    BY <2>1, Scripts
  <2> HIDE DEF s
  <2>3. thread'.todo = s => GameInv'
    BY <1>1, <2>2 DEF GameInv, Pending
  <2>4. Starts(Packaged, s)
    BY <1>3 DEF s
  <2> QED BY <1>1, <2>1, <2>2, <2>3, <2>4, ClientBegins DEF ClientTypeOK
<1> QED BY <1>2, <1>3 DEF Initialize

LEMMA DeinitializeStep ==
  ASSUME CInv, Deinitialize
  PROVE  CInv'
<1> DEFINE s == <<"clear", "unload", "unload", "end">>
<1>1. /\ game' = "ending" /\ Starts(Blueprint, s)
      /\ UNCHANGED <<vars, actor, answered, shown>> /\ ClientTypeOK
      /\ Blueprint \notin Clients /\ Blueprint \notin Actors
  BY ClientAssumption DEF Deinitialize, CInv, Clients
<1>2. Wellformed(Blueprint, s)
  BY Scripts
<1>3. s[1] = "clear" /\ s[2] = "unload" /\ s[3] = "unload" /\ s[4] = "end" /\ Len(s) = 4
  OBVIOUS
<1> HIDE DEF s
<1>4. ASSUME ~Free', thread'.todo = s
      PROVE  GameInv'
  <2>1. \A i \in 1..Len(s) : i < Len(s) => s[i] \in {"clear", "unload"}
    BY <1>3
  <2>2. Pending("unload")'
    <3>1. 2 \in 1..Len(s)
      BY <1>3
    <3> QED BY <1>3, <1>4, <3>1 DEF Pending
  <2> QED BY <1>1, <1>3, <1>4, <2>1, <2>2 DEF GameInv
<1>5. /\ Blueprint \in Clients \cup {Blueprint} /\ game' \in {"starting", "playing", "ending", "ended"}
      /\ Blueprint \in Actors /\ (\E i \in 1..Len(s) : s[i] = "set") => actor'[Blueprint] = "playing"
      /\ Blueprint \in Clients /\ (\E i \in 1..Len(s) : s[i] \in RunCalls) => answered'[Blueprint] = 0
      /\ (~Free' /\ thread'.client = Blueprint /\ thread'.todo = s) => GameInv'
      /\ s[1] # "report" /\ Len(s) > 0
  BY <1>1, <1>3, <1>4
<1>6. /\ answered' \in [Clients -> Nat]
      /\ shown' \in [Clients -> [run : 0..MaxRuns, calls : Nat]]
      /\ \A k \in Clients : shown'[k] = shown[k]
      /\ actor' \in [Actors -> {"unborn", "playing", "destroyed"}]
  BY <1>1 DEF ClientTypeOK
<1> QED BY <1>1, <1>2, <1>5, <1>6, ClientBegins

LEMMA RunPluginProofStep ==
  ASSUME CInv, NEW a \in Actors, RunPluginProof(a)
  PROVE  CInv'
<1> DEFINE s == Script(a)
<1>1. /\ game = "playing" /\ game' = "playing" /\ Starts(a, s)
      /\ actor' = [actor EXCEPT ![a] = "playing"] /\ answered' = [answered EXCEPT ![a] = 0]
      /\ shown' = [shown EXCEPT ![a] = Nowhere] /\ UNCHANGED vars /\ ClientTypeOK
      /\ a \in Owners /\ a \in Clients
  BY ClientAssumption DEF RunPluginProof, CInv, Clients, Reset
<1>2. /\ Wellformed(a, s) /\ Len(s) > 0 /\ s[1] # "report"
      /\ \A i \in 1..Len(s) : s[i] # "end"
  BY <1>1, Scripts
<1> HIDE DEF s
<1>3. /\ actor' \in [Actors -> {"unborn", "playing", "destroyed"}] /\ actor'[a] = "playing"
      /\ answered' \in [Clients -> Nat] /\ answered'[a] = 0
  BY <1>1 DEF ClientTypeOK
<1>4. /\ shown' \in [Clients -> [run : 0..MaxRuns, calls : Nat]]
      /\ \A k \in Clients : shown'[k] = shown[k] \/ shown'[k].run = NoRun
  BY <1>1, HostAssumption DEF ClientTypeOK, Nowhere, NoRun
<1>5. thread'.todo = s => GameInv'
  BY <1>1, <1>2 DEF GameInv, Pending
<1>6. /\ a \in Clients \cup {Blueprint} /\ game' \in {"starting", "playing", "ending", "ended"}
      /\ a \in Actors /\ (\E i \in 1..Len(s) : s[i] = "set") => actor'[a] = "playing"
      /\ a \in Clients /\ (\E i \in 1..Len(s) : s[i] \in RunCalls) => answered'[a] = 0
      /\ (~Free' /\ thread'.client = a /\ thread'.todo = s) => GameInv'
      /\ s[1] # "report" /\ Len(s) > 0
  BY <1>1, <1>2, <1>3, <1>5
<1> QED BY <1>1, <1>2, <1>3, <1>4, <1>6, ClientBegins

LEMMA EndPlayStep ==
  ASSUME CInv, NEW a \in Actors, EndPlay(a)
  PROVE  CInv'
<1> DEFINE s == <<"clear", "unload">>
<1>1. /\ actor' \in [Actors -> {"unborn", "playing", "destroyed"}]
      /\ UNCHANGED <<vars, game, answered, shown>> /\ ClientTypeOK /\ a \in Clients
  BY DEF EndPlay, CInv, ClientTypeOK, Clients
<1>2. CASE game = "ended" /\ UNCHANGED thread
  BY <1>1, <1>2, ClientStays DEF CInv, GameInv
<1>3. CASE game = "playing" /\ Starts(a, s)
  <2>1. Wellformed(a, s) /\ Len(s) = 2 /\ s[1] = "clear" /\ s[2] = "unload"
    BY Scripts
  <2> HIDE DEF s
  <2>2. \A i \in 1..Len(s) : s[i] \in {"clear", "unload"}
    BY <2>1
  <2>3. thread'.todo = s => GameInv'
    BY <1>1, <1>3, <2>2 DEF GameInv, Pending
  <2>4. /\ a \in Clients \cup {Blueprint} /\ game' \in {"starting", "playing", "ending", "ended"}
        /\ a \in Actors /\ (\E i \in 1..Len(s) : s[i] = "set") => actor'[a] = "playing"
        /\ a \in Clients /\ (\E i \in 1..Len(s) : s[i] \in RunCalls) => answered'[a] = 0
        /\ (~Free' /\ thread'.client = a /\ thread'.todo = s) => GameInv'
        /\ s[1] # "report" /\ Len(s) > 0
    BY <1>1, <1>3, <2>1, <2>2, <2>3 DEF RunCalls
  <2>5. /\ answered' \in [Clients -> Nat]
        /\ shown' \in [Clients -> [run : 0..MaxRuns, calls : Nat]]
        /\ \A k \in Clients : shown'[k] = shown[k]
    BY <1>1 DEF ClientTypeOK
  <2> QED BY <1>1, <1>3, <2>1, <2>4, <2>5, ClientBegins
<1> QED BY <1>2, <1>3 DEF EndPlay

LEMMA RunNativeAotProofStep ==
  ASSUME CInv, RunNativeAotProof
  PROVE  CInv'
<1> DEFINE s == <<"execute", "report">>
<1>1. /\ game = "playing" /\ game' = "playing" /\ Starts(OneShot, s)
      /\ answered' = [answered EXCEPT ![OneShot] = 0]
      /\ shown' = [shown EXCEPT ![OneShot] = Nowhere] /\ UNCHANGED <<vars, actor>>
      /\ ClientTypeOK /\ OneShot \in Clients /\ OneShot \notin Actors
  BY ClientAssumption DEF RunNativeAotProof, CInv, Clients, Reset
<1>2. Wellformed(OneShot, s) /\ Len(s) = 2 /\ s[1] = "execute" /\ s[2] = "report"
  BY Scripts
<1> HIDE DEF s
<1>3. answered' \in [Clients -> Nat] /\ answered'[OneShot] = 0
  BY <1>1 DEF ClientTypeOK
<1>4. /\ shown' \in [Clients -> [run : 0..MaxRuns, calls : Nat]]
      /\ \A k \in Clients : shown'[k] = shown[k] \/ shown'[k].run = NoRun
  BY <1>1, HostAssumption DEF ClientTypeOK, Nowhere, NoRun
<1>5. thread'.todo = s => GameInv'
  <2>1. \A i \in 1..Len(s) : s[i] # "end"
    BY <1>2
  <2> QED BY <1>1, <2>1 DEF GameInv, Pending
<1>6. /\ OneShot \in Clients \cup {Blueprint} /\ game' \in {"starting", "playing", "ending", "ended"}
      /\ OneShot \in Actors /\ (\E i \in 1..Len(s) : s[i] = "set") => actor'[OneShot] = "playing"
      /\ OneShot \in Clients /\ (\E i \in 1..Len(s) : s[i] \in RunCalls) => answered'[OneShot] = 0
      /\ (~Free' /\ thread'.client = OneShot /\ thread'.todo = s) => GameInv'
      /\ s[1] # "report" /\ Len(s) > 0
  BY <1>1, <1>2, <1>3, <1>5
<1>7. actor' \in [Actors -> {"unborn", "playing", "destroyed"}]
  BY <1>1 DEF ClientTypeOK
<1> QED BY <1>1, <1>2, <1>3, <1>4, <1>6, <1>7, ClientBegins

LEMMA BlueprintStep ==
  ASSUME CInv, BlueprintCall
  PROVE  CInv'
<1>1. PICK call \in {"load", "unload", "run"} : Starts(Blueprint, <<call>>)
  BY DEF BlueprintCall
<1> DEFINE s == <<call>>
<1>2. /\ game = "playing" /\ UNCHANGED <<vars, game, actor, answered, shown>>
      /\ ClientTypeOK /\ Blueprint \notin Clients /\ Blueprint \notin Actors
      /\ Blueprint # OneShot
  BY ClientAssumption DEF BlueprintCall, CInv, Clients
<1>3. /\ Wellformed(Blueprint, s) /\ Len(s) = 1 /\ s[1] \in {"load", "unload", "run"}
      /\ Starts(Blueprint, s)
  <2>1. Wellformed(Blueprint, <<call>>)
    BY <1>2, Scripts
  <2> QED BY <1>1, <2>1
<1> HIDE DEF s
<1>4. thread'.todo = s => GameInv'
  <2>1. \A i \in 1..Len(s) : s[i] # "end"
    BY <1>3
  <2> QED BY <1>2, <2>1 DEF GameInv, Pending
<1>5. /\ Blueprint \in Clients \cup {Blueprint} /\ game' \in {"starting", "playing", "ending", "ended"}
      /\ Blueprint \in Actors /\ (\E i \in 1..Len(s) : s[i] = "set") => actor'[Blueprint] = "playing"
      /\ Blueprint \in Clients /\ (\E i \in 1..Len(s) : s[i] \in RunCalls) => answered'[Blueprint] = 0
      /\ (~Free' /\ thread'.client = Blueprint /\ thread'.todo = s) => GameInv'
      /\ s[1] # "report" /\ Len(s) > 0
  BY <1>2, <1>3, <1>4
<1>6. /\ answered' \in [Clients -> Nat]
      /\ shown' \in [Clients -> [run : 0..MaxRuns, calls : Nat]]
      /\ \A k \in Clients : shown'[k] = shown[k]
      /\ actor' \in [Actors -> {"unborn", "playing", "destroyed"}]
  BY <1>2 DEF ClientTypeOK
<1> QED BY <1>2, <1>3, <1>5, <1>6, ClientBegins

----------------------------------------------------------------------------
(* The game thread is in a call. *)

(* A call of a script that a game in play is making. *)
LEMMA InPlay ==
  ASSUME CInv, NEW call, At(call), call \notin {"clear", "unload", "end"}
  PROVE  game = "playing"
<1> DEFINE s == thread.todo
<1>1. /\ ~Free /\ s # << >> /\ s \in Seq(Calls) /\ Head(s) = call
  BY DEF CInv, At, Free, Idle, ThreadInv, ClientTypeOK
<1>2. Len(s) \in Nat /\ Len(s) > 0 /\ s[1] = call
  BY <1>1, Rest
<1>3. ASSUME game = "ending" PROVE FALSE
  <2>1. /\ s[Len(s)] = "end"
        /\ \A i \in 1..Len(s) : i < Len(s) => s[i] \in {"clear", "unload"}
    BY <1>3 DEF CInv, GameInv
  <2> HIDE DEF s
  <2> DEFINE n == Len(s)
  <2>2. n \in Nat /\ n > 0
    BY <1>2
  <2> HIDE DEF n
  <2>3. n = 1 \/ (1 \in 1..n /\ 1 < n)
    BY <2>2
  <2>4. n = 1 => call = "end"
    BY <1>2, <2>1 DEF n
  <2>5. 1 \in 1..n /\ 1 < n => call \in {"clear", "unload"}
    BY <1>2, <2>1 DEF n
  <2> QED BY <2>3, <2>4, <2>5
<1> QED BY <1>1, <1>3 DEF CInv, GameInv, ClientTypeOK

(* What a call of a script leaves as it was. *)
LEMMA PartsKept ==
  ASSUME CInv, [Next]_vars, game = "playing", UNCHANGED <<game, actor, handler>>, ThreadInv',
         thread'.client \in {thread.client, None},
         handler[Subsystem] # None => Pending("clear")' /\ thread'.client = thread.client,
         Pending("set")' => Pending("set"), ~Pending("end")'
  PROVE  /\ PInv' /\ HandlerInv' /\ GameInv'
         /\ \A c, r, calls : IsReport(c, r, calls) => IsReport(c, r, calls)'
<1>1. PInv' /\ \A c, r, calls : IsReport(c, r, calls) => IsReport(c, r, calls)'
  BY NextPInv, ReportsKept DEF CInv, RunningInv
<1>2. None \notin Actors
  BY HostAssumption, ClientAssumption
<1>3. HandlerInv'
  BY <1>2 DEF CInv, HandlerInv
<1>4. GameInv'
  BY DEF GameInv
<1> QED BY <1>1, <1>3, <1>4

(* A call that leaves the handler alone, and the script goes on. *)
LEMMA GoesOn ==
  ASSUME CInv, [Next]_vars, NEW call, At(call),
         call \notin {"set", "clear", "unload", "end"}, Continue,
         UNCHANGED <<game, actor, handler>>
  PROVE  /\ PInv' /\ HandlerInv' /\ GameInv' /\ ThreadInv'
         /\ thread' \in [client : Clients \cup {Blueprint, None}, todo : Seq(Calls)]
         /\ \A c, r, calls : IsReport(c, r, calls) => IsReport(c, r, calls)'
<1>1. ClientTypeOK /\ ThreadInv /\ game = "playing" /\ ~Pending("end")
  BY InPlay DEF CInv, GameInv
<1>2. /\ thread' \in [client : Clients \cup {Blueprint, None}, todo : Seq(Calls)]
      /\ ThreadInv' /\ thread'.client \in {thread.client, None}
      /\ \A x : Pending(x)' => Pending(x) /\ thread'.client = thread.client
      /\ \A x : Pending(x) /\ x # call => Pending(x)'
  BY <1>1, Continued
<1>3. handler[Subsystem] # None => Pending("clear")' /\ thread'.client = thread.client
  BY <1>2 DEF CInv, HandlerInv
<1> QED BY <1>1, <1>2, <1>3, PartsKept

(* A call that fails, and the script is given up. *)
LEMMA GivesUp ==
  ASSUME CInv, [Next]_vars, NEW call, At(call),
         call \notin {"set", "clear", "unload", "end"},
         \/ Then(<< >>) /\ thread.client \in {Blueprint, OneShot}
         \/ Then(AfterFailedLoad)
         \/ Then(AfterFailedRun),
         UNCHANGED <<game, actor, handler>>
  PROVE  /\ PInv' /\ HandlerInv' /\ GameInv' /\ ThreadInv'
         /\ thread' \in [client : Clients \cup {Blueprint, None}, todo : Seq(Calls)]
         /\ ~At("report")' /\ ~Pending("run")' /\ ~Pending("execute")'
         /\ \A c, r, calls : IsReport(c, r, calls) => IsReport(c, r, calls)'
<1>1. ClientTypeOK /\ ThreadInv /\ game = "playing" /\ ~Free
  BY InPlay DEF CInv, At
<1>2. /\ thread' \in [client : Clients \cup {Blueprint, None}, todo : Seq(Calls)]
      /\ ThreadInv' /\ thread'.client \in {thread.client, None}
      /\ \A x : Pending(x)' => x \in {"clear", "unload"}
      /\ ~At("report")'
      /\ thread.client \in {Blueprint, OneShot} \/
           (Pending("clear")' /\ thread'.client = thread.client)
  BY <1>1, GivenUp
<1>3. handler[Subsystem] # None => Pending("clear")' /\ thread'.client = thread.client
  <2>1. handler[Subsystem] # None => thread.client \in Owners
    BY ClientAssumption DEF CInv, HandlerInv, PInv, IInv, TypeOK
  <2> QED BY <1>2, <2>1, ClientAssumption
<1>4. ~Pending("set")' /\ ~Pending("end")' /\ ~Pending("run")' /\ ~Pending("execute")'
  BY <1>2
<1> QED BY <1>1, <1>2, <1>3, <1>4, PartsKept

(* A call that takes more than one step. *)
LEMMA GoesNowhere ==
  ASSUME CInv, [Next]_vars, NEW call, At(call), call \notin {"clear", "unload", "end"},
         UNCHANGED <<thread, game, actor, handler>>
  PROVE  /\ PInv' /\ HandlerInv' /\ GameInv' /\ ThreadInv'
         /\ thread' \in [client : Clients \cup {Blueprint, None}, todo : Seq(Calls)]
         /\ \A c, r, calls : IsReport(c, r, calls) => IsReport(c, r, calls)'
<1>1. ClientTypeOK /\ ThreadInv /\ game = "playing" /\ ~Pending("end")
  BY InPlay DEF CInv, GameInv
<1>2. ThreadInv' /\ \A x : Pending(x)' <=> Pending(x)
  BY <1>1 DEF ThreadInv, Free, Pending, Wellformed
<1>3. handler[Subsystem] # None => Pending("clear")' /\ thread'.client = thread.client
  BY <1>2 DEF CInv, HandlerInv
<1>4. thread' \in [client : Clients \cup {Blueprint, None}, todo : Seq(Calls)]
  BY <1>1 DEF ClientTypeOK
<1> QED BY <1>1, <1>2, <1>3, <1>4, PartsKept

(* Every step of a call that a run's client is in goes through the host. *)
LEMMA HostSteps ==
  /\ Subsystem \in Wrappers
  /\ \A f \in Files : Load(Subsystem, f) => Next
  /\ Unload(Subsystem) => Next
  /\ \A o \in Owners : SetHostCallHandler(Subsystem, o) => Next
  /\ ClearHostCallHandler(Subsystem) => Next
  /\ Run(Subsystem) => Next
  /\ \A ok \in BOOLEAN : HostCall(ok) => Next
  /\ ExecuteModule => Next
<1>1. Subsystem \in Wrappers
  BY ClientAssumption
<1> QED BY <1>1 DEF Next

LEMMA SetStep ==
  ASSUME CInv, Set, UNCHANGED <<game, actor>>
  PROVE  CInv'
<1>1. /\ At("set") /\ SetHostCallHandler(Subsystem, thread.client) /\ Continue
      /\ UNCHANGED <<answered, shown>> /\ ClientTypeOK /\ ThreadInv /\ game = "playing"
      /\ ~Pending("end")
  BY InPlay DEF Set, CInv, GameInv
<1>2. /\ thread' \in [client : Clients \cup {Blueprint, None}, todo : Seq(Calls)]
      /\ ThreadInv'
      /\ \A x : Pending(x)' => Pending(x) /\ thread'.client = thread.client
      /\ ~At("report")' /\ Pending("set") /\ Pending("clear")' /\ thread.client \in Owners
  BY <1>1, Continued DEF RunCalls
<1>3. Next /\ Quiet /\ Quiet' /\ UNCHANGED <<log, running, session, shot>>
  BY <1>1, <1>2, HostSteps DEF SetHostCallHandler, Quiet
<1>4. PInv' /\ \A c, r, calls : IsReport(c, r, calls) => IsReport(c, r, calls)'
  BY <1>3, NextPInv, ReportsKept DEF CInv, RunningInv
<1>5. HandlerInv'
  <2>1. handler'[Subsystem] = thread.client
    BY <1>1, HostSteps DEF SetHostCallHandler, CInv, PInv, IInv, TypeOK
  <2>2. thread'.client = thread.client
    BY <1>2
  <2>3. thread.client \in Actors => actor[thread.client] = "playing"
    BY <1>2 DEF CInv, HandlerInv
  <2> QED BY <1>2, <2>1, <2>2, <2>3 DEF HandlerInv
<1>6. GameInv'
  BY <1>1, <1>2 DEF GameInv
<1>7. RunningInv'
  BY <1>1, <1>2, <1>3 DEF CInv, RunningInv
<1>8. ClientTypeOK' /\ ReportInv'
  BY <1>1, <1>2, <1>4 DEF CInv, ClientTypeOK, ReportInv
<1> QED BY <1>2, <1>4, <1>5, <1>6, <1>7, <1>8 DEF CInv

LEMMA LoadModuleStep ==
  ASSUME CInv, LoadModule, UNCHANGED <<game, actor>>
  PROVE  CInv'
<1>1. PICK f \in Files :
        \/ LoadAccepted(Subsystem, f) /\ Continue
        \/ (LoadUnavailable(Subsystem, f) \/ LoadRejected(Subsystem, f)) /\ Then(AfterFailedLoad)
  BY DEF LoadModule
<1>2. /\ At("load") /\ UNCHANGED <<answered, shown>> /\ ClientTypeOK /\ ThreadInv
  BY DEF LoadModule, CInv
<1>3. Next /\ Quiet /\ Quiet' /\ UNCHANGED <<handler, log, running, shot>>
  BY <1>1, HostSteps DEF Load, LoadAccepted, LoadUnavailable, LoadRejected, Quiet
<1>4. CASE Continue
  <2>1. /\ PInv' /\ HandlerInv' /\ GameInv' /\ ThreadInv'
        /\ thread' \in [client : Clients \cup {Blueprint, None}, todo : Seq(Calls)]
        /\ \A c, r, calls : IsReport(c, r, calls) => IsReport(c, r, calls)'
    BY <1>2, <1>3, <1>4, GoesOn
  <2>2. /\ \A x : Pending(x)' => Pending(x) /\ thread'.client = thread.client
        /\ ~At("report")'
    BY <1>2, <1>4, Continued DEF RunCalls
  <2>3. RunningInv'
    BY <1>2, <1>3, <2>2 DEF CInv, RunningInv
  <2>4. ClientTypeOK' /\ ReportInv'
    BY <1>2, <2>1, <2>2 DEF CInv, ClientTypeOK, ReportInv
  <2> QED BY <2>1, <2>3, <2>4 DEF CInv
<1>5. CASE Then(AfterFailedLoad)
  <2>1. /\ PInv' /\ HandlerInv' /\ GameInv' /\ ThreadInv'
        /\ thread' \in [client : Clients \cup {Blueprint, None}, todo : Seq(Calls)]
        /\ ~At("report")' /\ ~Pending("run")' /\ ~Pending("execute")'
        /\ \A c, r, calls : IsReport(c, r, calls) => IsReport(c, r, calls)'
    BY <1>2, <1>3, <1>5, GivesUp
  <2>2. RunningInv'
    BY <1>3, <2>1 DEF RunningInv
  <2>3. ClientTypeOK' /\ ReportInv'
    BY <1>2, <2>1 DEF CInv, ClientTypeOK, ReportInv
  <2> QED BY <2>1, <2>2, <2>3 DEF CInv
<1> QED BY <1>1, <1>4, <1>5

LEMMA HeadPending ==
  ASSUME ClientTypeOK, ThreadInv, NEW call, At(call)
  PROVE  Pending(call) /\ call \in Calls
<1>1. thread.todo # << >> /\ thread.todo \in Seq(Calls) /\ Head(thread.todo) = call
  BY DEF At, Free, Idle, ThreadInv, ClientTypeOK
<1>2. thread.todo[1] = call /\ Len(thread.todo) > 0 /\ Len(thread.todo) \in Nat
  BY <1>1, Rest
<1>3. 1 \in 1..Len(thread.todo)
  BY <1>2
<1> QED BY <1>1, <1>2, <1>3 DEF Pending

(* Only the actor that calls ExecuteModule does. *)
LEMMA OneShotExecutes ==
  ASSUME ClientTypeOK, ThreadInv
  PROVE  /\ At("execute") => thread.client = OneShot
         /\ At("run") => thread.client # OneShot
<1>1. ASSUME NEW i \in 1..Len(thread.todo)
      PROVE  /\ thread.todo[i] = "execute" => thread.client = OneShot
             /\ thread.todo[i] = "run" => thread.client # OneShot
  BY DEF ThreadInv, Wellformed
<1>2. /\ Pending("execute") => thread.client = OneShot
      /\ Pending("run") => thread.client # OneShot
  BY <1>1 DEF Pending
<1> QED BY <1>2, HeadPending

(* The host that answers a module is the client whose call runs it. *)
LEMMA HandleStep ==
  ASSUME CInv, Handle, UNCHANGED <<thread, game, actor, shown>>
  PROVE  CInv'
<1> DEFINE c == Called(running.file)
           client == thread.client
<1>1. PICK ok \in BOOLEAN :
        /\ HostCall(ok)
        /\ answered' = IF ok THEN [answered EXCEPT ![c] = @ + 1] ELSE answered
  BY DEF Handle
<1>2. /\ ~Quiet /\ ~running.failed /\ Module[running.file].requiresHost
      /\ c = None => ~ok
      /\ running' = InProgress(running.who, running.file, running.bound, ~ok)
      /\ UNCHANGED <<session, handler, shot>>
      /\ IInv /\ RunInv /\ TypeOK /\ ClientTypeOK /\ ThreadInv
  BY <1>1 DEF HostCall, CInv, PInv, IInv
<1>3. PICK call \in {"run", "execute"} :
        At(call) /\ call = IF running.who = OneShot THEN "execute" ELSE "run"
  BY <1>2 DEF CInv, RunningInv
<1>4. Next
  BY <1>1, HostSteps
<1>5. /\ PInv' /\ HandlerInv' /\ GameInv' /\ ThreadInv'
      /\ thread' \in [client : Clients \cup {Blueprint, None}, todo : Seq(Calls)]
      /\ \A k, r, calls : IsReport(k, r, calls) => IsReport(k, r, calls)'
  BY <1>2, <1>3, <1>4, GoesNowhere
<1>6. Len(log) > 0 /\ running.who \in Wrappers \cup {OneShot}
  BY <1>2 DEF RunInv, TypeOK
<1>7. /\ Len(log') = Len(log)
      /\ Latest'.calls = Latest.calls + 1 /\ ~Latest'.ok
  <2> DEFINE calls == Latest.calls + 1
  <2>1. Record(FALSE, calls)
    BY <1>1 DEF HostCall
  <2> HIDE DEF calls
  <2>2. /\ Len(log') = Len(log) /\ log'[Len(log)] = Entry(Latest.who, Latest.file, FALSE, calls)
    BY <1>2, <1>6, <2>1, RecordedLast
  <2>3. /\ Entry(Latest.who, Latest.file, FALSE, calls).calls = calls
        /\ ~Entry(Latest.who, Latest.file, FALSE, calls).ok
    BY DEF Entry
  <2>4. Latest' = Entry(Latest.who, Latest.file, FALSE, calls)
    BY <2>2 DEF Latest
  <2>5. Len(log') = Len(log) /\ Latest'.calls = calls /\ ~Latest'.ok
    BY <2>2, <2>3, <2>4
  <2> QED BY <2>5 DEF calls
<1>8. c # None => c = client /\ client \in Clients
  <2>1. dll[running.file].host = running.who
    BY <1>2 DEF RunInv
  <2>2. CASE running.who = OneShot
    <3>1. client = OneShot
      BY <1>2, <1>3, <2>2, OneShotExecutes
    <3>2. OneShot \notin Wrappers
      BY HostAssumption
    <3> QED BY <2>1, <2>2, <3>1, <3>2 DEF Called, Clients
  <2>3. CASE running.who \in Wrappers
    <3>1. c = handler[Subsystem]
      BY <2>1, <2>3, ClientAssumption DEF Called
    <3>2. handler[Subsystem] \in Owners \cup {None}
      BY <1>2, HostSteps DEF TypeOK
    <3> QED BY <3>1, <3>2, ClientAssumption DEF CInv, HandlerInv, Clients
  <2> QED BY <1>6, <2>2, <2>3
<1>9. /\ running'.who = running.who /\ running'.failed = ~ok
      /\ running.who # None
  BY <1>2 DEF InProgress, RunInv
<1>10. ~Quiet' /\ At(call)' /\ call = IF running'.who = OneShot THEN "execute" ELSE "run"
  BY <1>3, <1>9 DEF Quiet, Nothing, InProgress, At, Free
<1> HIDE DEF c, client
<1>11. answered' \in [Clients -> Nat]
  BY <1>1, <1>2, <1>8 DEF ClientTypeOK
<1>12. client \in Clients /\ ok => Latest'.calls = answered'[client]
  <2>1. SUFFICES ASSUME client \in Clients, ok PROVE Latest'.calls = answered'[client]
    OBVIOUS
  <2>2. c = client /\ answered' = [answered EXCEPT ![client] = @ + 1]
    BY <1>1, <1>2, <1>8, <2>1
  <2>3. Latest.calls = answered[client]
    BY <1>2, <2>1 DEF CInv, RunningInv, client
  <2> QED BY <1>2, <1>7, <2>1, <2>2, <2>3 DEF ClientTypeOK
<1>13. RunningInv'
  BY <1>7, <1>9, <1>10, <1>12 DEF RunningInv, client
<1>14. ReportInv'
  <2>1. ~At("report")'
    BY <1>3 DEF At, Free
  <2> QED BY <1>5, <2>1 DEF CInv, ReportInv
<1>15. ClientTypeOK'
  BY <1>2, <1>5, <1>11 DEF ClientTypeOK
<1> QED BY <1>5, <1>13, <1>14, <1>15 DEF CInv

(* A run that is refused or fails. *)
LEMMA QuietlyGivesUp ==
  ASSUME CInv, [Next]_vars, NEW call \in {"run", "execute"}, At(call), Quiet',
         \/ Then(<< >>) /\ thread.client \in {Blueprint, OneShot}
         \/ Then(AfterFailedRun),
         UNCHANGED <<game, actor, handler, answered, shown>>
  PROVE  CInv'
<1>1. /\ PInv' /\ HandlerInv' /\ GameInv' /\ ThreadInv'
      /\ thread' \in [client : Clients \cup {Blueprint, None}, todo : Seq(Calls)]
      /\ ~At("report")' /\ ~Pending("run")' /\ ~Pending("execute")'
      /\ \A c, r, calls : IsReport(c, r, calls) => IsReport(c, r, calls)'
  BY GivesUp
<1>2. RunningInv'
  BY <1>1 DEF RunningInv
<1>3. ClientTypeOK' /\ ReportInv'
  BY <1>1 DEF CInv, ClientTypeOK, ReportInv
<1> QED BY <1>1, <1>2, <1>3 DEF CInv

(* A run that has begun has counted nothing yet, like its client. *)
LEMMA BegunRun ==
  ASSUME CInv, Next, Quiet, NEW call \in {"run", "execute"}, At(call),
         NEW d, NEW who \in Callers, NEW f \in Files, NEW bound, Begin(d, who, f, bound),
         call = IF who = OneShot THEN "execute" ELSE "run",
         UNCHANGED <<thread, game, actor, handler, answered, shown>>
  PROVE  CInv'
<1>1. ClientTypeOK /\ ThreadInv /\ TypeOK
  BY DEF CInv, PInv, IInv
<1>2. /\ PInv' /\ HandlerInv' /\ GameInv' /\ ThreadInv'
      /\ thread' \in [client : Clients \cup {Blueprint, None}, todo : Seq(Calls)]
      /\ \A k, r, calls : IsReport(k, r, calls) => IsReport(k, r, calls)'
  BY GoesNowhere
<1>3. running'.who = who /\ who # None /\ ~Quiet'
  BY HostAssumption DEF Begin, InProgress, Quiet, Nothing, Callers
<1>4. Latest'.calls = 0 /\ ~Latest'.ok
  <2> DEFINE E == [who : Callers, file : Files, ok : BOOLEAN, calls : 0..MaxCalls]
             x == Entry(who, f, FALSE, 0)
  <2>1. x \in E /\ log \in Seq(E) /\ log' = Append(log, x) /\ x.calls = 0 /\ ~x.ok
    BY <1>1, HostAssumption DEF Entry, Begin, TypeOK, Callers
  <2> HIDE DEF E, x
  <2>2. Len(log') = Len(log) + 1 /\ log'[Len(log) + 1] = x
    BY <2>1, Appended
  <2> QED BY <2>1, <2>2 DEF Latest
<1>5. thread.client \in Clients => answered[thread.client] = 0
  <2>1. Pending("run") \/ Pending("execute")
    BY <1>1, HeadPending
  <2> QED BY <2>1 DEF CInv, RunningInv
<1>6. RunningInv'
  BY <1>3, <1>4, <1>5 DEF RunningInv, At, Free
<1>7. ClientTypeOK' /\ ReportInv'
  <2>1. ~At("report")'
    BY DEF At, Free
  <2> QED BY <1>1, <1>2, <2>1 DEF CInv, ClientTypeOK, ReportInv
<1> QED BY <1>2, <1>6, <1>7 DEF CInv

(* A run that has succeeded is what its client reports next. *)
LEMMA EndedRun ==
  ASSUME CInv, Next, ~Quiet, Quiet', ~running.failed, NEW call \in {"run", "execute"}, At(call),
         call = IF running.who = OneShot THEN "execute" ELSE "run",
         Continue, Record(TRUE, Latest.calls),
         IF running.who = OneShot THEN shot' \in {NoRun, Len(log)}
                                  ELSE session'[Subsystem].last \in {NoRun, Len(log)},
         UNCHANGED <<game, actor, handler, answered, shown>>
  PROVE  CInv'
<1> DEFINE c == thread.client
           r == IF c = OneShot THEN shot ELSE session[Subsystem].last
<1>1. /\ ClientTypeOK /\ ThreadInv /\ TypeOK /\ RunInv
      /\ Latest.who = running.who /\ Len(log) > 0 /\ Len(log) \in Nat
  BY DEF CInv, PInv, IInv, TypeOK, RunInv, LatestRuns
<1>2. /\ PInv' /\ HandlerInv' /\ GameInv' /\ ThreadInv'
      /\ thread' \in [client : Clients \cup {Blueprint, None}, todo : Seq(Calls)]
      /\ \A k, q, calls : IsReport(k, q, calls) => IsReport(k, q, calls)'
  BY GoesOn
<1>3. /\ ~Pending("run")' /\ ~Pending("execute")'
      /\ At("report")' => thread'.client = c /\ c \in Clients
      /\ call = "run" => c # OneShot
      /\ call = "execute" => c = OneShot
  BY <1>1, Continued DEF RunCalls
<1>4. RunningInv'
  BY <1>3 DEF RunningInv
<1>5. /\ Len(log') = Len(log)
      /\ log'[Len(log)].ok /\ log'[Len(log)].who = running.who
      /\ log'[Len(log)].calls = Latest.calls
  <2>1. /\ Len(log') = Len(log)
        /\ log'[Len(log)] = Entry(Latest.who, Latest.file, TRUE, Latest.calls)
    BY <1>1, RecordedLast
  <2> DEFINE n == Len(log)
  <2>2. Len(log') = n /\ log'[n] = Entry(running.who, Latest.file, TRUE, Latest.calls)
    BY <1>1, <2>1
  <2> HIDE DEF n
  <2>3. Len(log') = n /\ log'[n].ok /\ log'[n].who = running.who /\ log'[n].calls = Latest.calls
    BY <2>2 DEF Entry
  <2> QED BY <2>3 DEF n
<1>6. running.who = IF c = OneShot THEN OneShot ELSE Subsystem
  <2>1. running.who \in {Subsystem, OneShot, None} /\ running.who # None
    BY <1>1, ClientAssumption DEF TypeOK, RunInv
  <2> QED BY <1>3, <2>1
<1>7. ASSUME At("report")'
      PROVE  ToReport'
  <2>1. thread'.client = c /\ c \in Clients
    BY <1>3, <1>7
  <2>2. Latest.calls = answered[c]
    BY <2>1 DEF CInv, RunningInv
  <2>3. r' \in {NoRun, Len(log)}
    BY <1>3, <2>1
  <2>4. Len(log) \in 1..Len(log')
    BY <1>1, <1>5
  <2>5. running.who = IF c' = OneShot THEN OneShot ELSE Subsystem
    BY <1>6, <2>1
  <2>6. Latest.calls = answered'[c']
    BY <2>1, <2>2
  <2> QED BY <1>5, <2>3, <2>4, <2>5, <2>6 DEF ToReport, IsReport
<1>8. ReportInv'
  <2>1. \A k \in Clients : IsReport(k, shown[k].run, shown[k].calls)'
    BY <1>2 DEF CInv, ReportInv
  <2> QED BY <1>7, <2>1 DEF ReportInv
<1>9. ClientTypeOK'
  BY <1>1, <1>2 DEF ClientTypeOK
<1> QED BY <1>2, <1>4, <1>8, <1>9 DEF CInv

LEMMA RunModuleStep ==
  ASSUME CInv, RunModule, UNCHANGED <<game, actor>>
  PROVE  CInv'
<1>1. /\ At("run") /\ UNCHANGED shown /\ Subsystem \in Wrappers /\ TypeOK
      /\ Subsystem # OneShot /\ Subsystem # None
  BY HostSteps, HostAssumption DEF RunModule, CInv, PInv, IInv
<1>2. CASE RunRefused(Subsystem) /\ Then(AfterFailedRun) /\ UNCHANGED answered
  <2>1. Next /\ Quiet' /\ UNCHANGED handler
    BY <1>2, HostSteps DEF Run, RunRefused, Quiet
  <2> QED BY <1>1, <1>2, <2>1, QuietlyGivesUp
<1>3. CASE RunBegins(Subsystem) /\ UNCHANGED <<thread, answered>>
  <2> DEFINE f == session[Subsystem].handle
             bound == handler[Subsystem] # None
  <2>1. Next /\ Quiet /\ UNCHANGED handler /\ Begin(dll, Subsystem, f, bound)
    BY <1>3, HostSteps DEF Run, RunBegins
  <2>2. f \in Files /\ Subsystem \in Callers
    BY <1>1, <1>3 DEF RunBegins, MayRun, IsLoaded, TypeOK, Callers
  <2> HIDE DEF f, bound
  <2>3. "run" = IF Subsystem = OneShot THEN "execute" ELSE "run"
    BY <1>1
  <2> QED BY <1>1, <1>3, <2>1, <2>2, <2>3, BegunRun
<1>4. CASE Handle /\ UNCHANGED thread
  BY <1>1, <1>4, HandleStep
<1>5. CASE RunFails(Subsystem) /\ Then(AfterFailedRun) /\ UNCHANGED answered
  <2>1. Next /\ Quiet' /\ UNCHANGED handler
    BY <1>5, HostSteps DEF Run, RunFails, Quiet
  <2> QED BY <1>1, <1>5, <2>1, QuietlyGivesUp
<1>6. CASE /\ RunSucceeds(Subsystem) /\ UNCHANGED answered
           /\ IF session'[Subsystem].last # NoRun THEN Continue ELSE Then(AfterFailedRun)
  <2>1. /\ Next /\ Quiet' /\ UNCHANGED handler /\ ~running.failed /\ running.who = Subsystem
        /\ Record(TRUE, Latest.calls) /\ ~Quiet
    <3>1. Next
      BY <1>6, HostSteps DEF Run
    <3>2. /\ UNCHANGED handler /\ ~running.failed /\ running.who = Subsystem
          /\ Record(TRUE, Latest.calls) /\ running' = Nothing
      BY <1>6 DEF RunSucceeds
    <3>3. ~Quiet /\ Quiet'
      BY <1>1, <3>2 DEF Quiet, Nothing, InProgress
    <3> QED BY <3>1, <3>2, <3>3
  <2>2. session'[Subsystem].last \in {NoRun, Len(log)}
    BY <1>1, <1>6 DEF RunSucceeds, Remember, Session, TypeOK
  <2>3. CASE Then(AfterFailedRun)
    BY <1>1, <1>6, <2>1, <2>3, QuietlyGivesUp
  <2>4. CASE Continue
    BY <1>1, <1>6, <2>1, <2>2, <2>4, EndedRun
  <2> QED BY <1>6, <2>3, <2>4
<1> QED BY <1>2, <1>3, <1>4, <1>5, <1>6 DEF RunModule

LEMMA ExecuteStep ==
  ASSUME CInv, Execute, UNCHANGED <<game, actor>>
  PROVE  CInv'
<1>1. /\ At("execute") /\ UNCHANGED shown /\ TypeOK /\ thread.client = OneShot /\ OneShot # None
  BY HostAssumption, OneShotExecutes DEF Execute, CInv, PInv, IInv
<1>2. ASSUME NEW f \in Files, ExecuteRefused(f), Then(<< >>), UNCHANGED answered
      PROVE  CInv'
  <2>1. Next /\ Quiet' /\ UNCHANGED handler
    BY <1>2, HostSteps DEF ExecuteModule, ExecuteRefused, Quiet
  <2> QED BY <1>1, <1>2, <2>1, QuietlyGivesUp
<1>3. ASSUME NEW f \in Files, ExecuteBegins(f), UNCHANGED <<thread, answered>>
      PROVE  CInv'
  <2> DEFINE d == GetHandle(dll, f)
             bound == TRUE
  <2>1. Next /\ Quiet /\ UNCHANGED handler /\ Begin(d, OneShot, f, bound) /\ OneShot \in Callers
    BY <1>3, HostSteps DEF ExecuteModule, ExecuteBegins, Callers
  <2> HIDE DEF d, bound
  <2> QED BY <1>1, <1>3, <2>1, BegunRun
<1>4. CASE Handle /\ UNCHANGED thread
  BY <1>1, <1>4, HandleStep
<1>5. ASSUME NEW ok \in BOOLEAN, ExecuteEnds(ok), UNCHANGED answered,
             IF shot' # NoRun THEN Continue ELSE Then(<< >>)
      PROVE  CInv'
  <2>1. /\ Next /\ Quiet' /\ UNCHANGED handler /\ running.who = OneShot /\ ~Quiet
        /\ shot' \in {NoRun, Len(log)} /\ Record(ok, Latest.calls)
        /\ shot' # NoRun => ok /\ ~running.failed
    BY <1>1, <1>5, HostSteps DEF ExecuteModule, ExecuteEnds, Quiet, Nothing, InProgress
  <2>2. CASE shot' = NoRun
    BY <1>1, <1>5, <2>1, <2>2, QuietlyGivesUp
  <2>3. CASE shot' # NoRun
    <3>1. Record(TRUE, Latest.calls)
      <4>1. ok = TRUE
        BY <2>1, <2>3
      <4> QED BY <2>1, <4>1
    <3> QED BY <1>1, <1>5, <2>1, <2>3, <3>1, EndedRun
  <2> QED BY <2>2, <2>3
<1> QED BY <1>2, <1>3, <1>4, <1>5 DEF Execute

LEMMA ReportStep ==
  ASSUME CInv, Report, UNCHANGED <<game, actor>>
  PROVE  CInv'
<1> DEFINE c == thread.client
           r == IF c = OneShot THEN shot ELSE session[Subsystem].last
<1>1. /\ At("report") /\ Continue /\ UNCHANGED <<vars, answered>>
      /\ shown' = [shown EXCEPT ![c] = [run |-> r, calls |-> answered[c]]]
      /\ ClientTypeOK /\ ThreadInv /\ TypeOK /\ Subsystem \in Wrappers
  BY HostSteps DEF Report, CInv, PInv, IInv
<1>2. c \in Clients /\ ~At("report")' /\ \A x : Pending(x)' => Pending(x) /\ thread'.client = c
  BY <1>1, Continued DEF RunCalls
<1>3. /\ Quiet /\ Quiet' /\ UNCHANGED <<handler, log>>
  BY <1>1 DEF CInv, RunningInv, At, Quiet, vars
<1>4. /\ PInv' /\ HandlerInv' /\ GameInv' /\ ThreadInv'
      /\ thread' \in [client : Clients \cup {Blueprint, None}, todo : Seq(Calls)]
  BY <1>1, <1>3, GoesOn
<1>5. RunningInv'
  BY <1>1, <1>2, <1>3 DEF CInv, RunningInv
<1>6. ClientTypeOK'
  <2>1. r \in 0..MaxRuns /\ answered[c] \in Nat
    BY <1>1, <1>2 DEF ClientTypeOK, TypeOK
  <2> HIDE DEF r, c
  <2> QED BY <1>1, <1>2, <1>4, <2>1 DEF ClientTypeOK
<1>7. ASSUME NEW k \in Clients
      PROVE  IsReport(k, shown[k].run, shown[k].calls)'
  <2>1. IsReport(k, shown'[k].run, shown'[k].calls)
    <3>1. CASE k = c
      <4>1. shown'[k].run = r /\ shown'[k].calls = answered[c]
        BY <1>1, <1>2, <3>1 DEF ClientTypeOK
      <4>2. IsReport(c, r, answered[c])
        BY <1>1 DEF CInv, ReportInv, ToReport
      <4> QED BY <3>1, <4>1, <4>2
    <3>2. CASE k # c
      BY <1>1, <1>2, <3>2 DEF ClientTypeOK, CInv, ReportInv
    <3> QED BY <3>1, <3>2
  <2> QED BY <1>3, <2>1 DEF IsReport
<1> QED BY <1>2, <1>4, <1>5, <1>6, <1>7 DEF CInv, ReportInv

(* The shutdown of the game instance comes to its end. *)
LEMMA EndingContinues ==
  ASSUME CInv, game = "ending", NEW call \in {"clear", "unload"}, At(call), Continue
  PROVE  LET s == thread'.todo
         IN  /\ ~Free' /\ s[Len(s)] = "end"
             /\ \A i \in 1..Len(s) : i < Len(s) => s[i] \in {"clear", "unload"}
<1> DEFINE s == thread.todo
           n == Len(s)
           t == Tail(s)
<1>1. /\ s # << >> /\ s \in Seq(Calls) /\ Head(s) = call /\ Then(t) /\ ClientTypeOK
      /\ s[n] = "end" /\ \A i \in 1..n : i < n => s[i] \in {"clear", "unload"}
  BY DEF CInv, At, Free, Idle, ThreadInv, ClientTypeOK, GameInv, Continue
<1>2. /\ n \in Nat /\ n > 0 /\ s[1] = call /\ t \in Seq(Calls) /\ Len(t) = n - 1
      /\ \A i \in 1..(n - 1) : t[i] = s[i + 1]
  BY <1>1, Rest
<1>3. (t # << >> => thread'.todo = t) /\ (thread' = Idle => thread'.todo = << >>)
  BY <1>1, <1>2 DEF Then, Idle, ClientTypeOK
<1> HIDE DEF t, n, s
<1>4. n # 1
  BY <1>1, <1>2
<1>5. n - 1 \in 1..(n - 1) /\ (n - 1) + 1 = n /\ t # << >>
  BY <1>2, <1>4
<1>6. t[Len(t)] = "end" /\ ~Free'
  BY <1>1, <1>2, <1>3, <1>5 DEF Free
<1>7. \A i \in 1..(n - 1) : i < n - 1 => t[i] \in {"clear", "unload"}
  <2>1. \A i \in 1..(n - 1) : i < n - 1 => i + 1 \in 1..n /\ i + 1 < n
    BY <1>2
  <2> QED BY <1>1, <1>2, <2>1
<1> QED BY <1>2, <1>3, <1>5, <1>6, <1>7

LEMMA ClearStep ==
  ASSUME CInv, Clear, UNCHANGED <<game, actor>>
  PROVE  CInv'
<1>1. /\ At("clear") /\ ClearHostCallHandler(Subsystem) /\ Continue /\ UNCHANGED <<answered, shown>>
      /\ ClientTypeOK /\ ThreadInv /\ game \in {"playing", "ending"}
  BY DEF Clear, CInv, GameInv, ClientTypeOK, At
<1>2. /\ thread' \in [client : Clients \cup {Blueprint, None}, todo : Seq(Calls)]
      /\ ThreadInv' /\ ~At("report")'
      /\ \A x : Pending(x)' => Pending(x) /\ thread'.client = thread.client
      /\ Pending("unload") => Pending("unload")'
  BY <1>1, Continued DEF RunCalls
<1>3. Next /\ Quiet /\ Quiet' /\ UNCHANGED <<log, running, session, shot>>
  BY <1>1, HostSteps DEF ClearHostCallHandler, Quiet
<1>4. PInv' /\ \A c, r, calls : IsReport(c, r, calls) => IsReport(c, r, calls)'
  BY <1>3, NextPInv, ReportsKept DEF CInv, RunningInv
<1>5. HandlerInv'
  <2>1. handler'[Subsystem] = None
    BY <1>1, HostSteps DEF ClearHostCallHandler, CInv, PInv, IInv, TypeOK
  <2> QED BY <1>2, <2>1 DEF CInv, HandlerInv
<1>6. GameInv'
  <2>1. CASE game = "playing"
    BY <1>2, <2>1 DEF CInv, GameInv
  <2>2. CASE game = "ending"
    BY <1>1, <1>2, <1>3, <2>2, EndingContinues DEF CInv, GameInv
  <2> QED BY <1>1, <2>1, <2>2
<1>7. RunningInv'
  BY <1>1, <1>2, <1>3 DEF CInv, RunningInv
<1>8. ClientTypeOK' /\ ReportInv'
  BY <1>1, <1>2, <1>4 DEF CInv, ClientTypeOK, ReportInv
<1> QED BY <1>2, <1>4, <1>5, <1>6, <1>7, <1>8 DEF CInv

LEMMA UnloadModuleStep ==
  ASSUME CInv, UnloadModule, UNCHANGED <<game, actor>>
  PROVE  CInv'
<1>1. /\ At("unload") /\ Unload(Subsystem) /\ Continue /\ UNCHANGED <<answered, shown>>
      /\ ClientTypeOK /\ ThreadInv /\ game \in {"playing", "ending"}
  BY DEF UnloadModule, CInv, GameInv, ClientTypeOK, At
<1>2. /\ thread' \in [client : Clients \cup {Blueprint, None}, todo : Seq(Calls)]
      /\ ThreadInv' /\ ~At("report")'
      /\ \A x : Pending(x)' => Pending(x) /\ thread'.client = thread.client
      /\ Pending("clear") => Pending("clear")'
  BY <1>1, Continued DEF RunCalls
<1>3. Next /\ Quiet /\ Quiet' /\ UNCHANGED <<log, running, handler, shot>>
  BY <1>1, HostSteps DEF Unload, Quiet
<1>4. PInv' /\ \A c, r, calls : IsReport(c, r, calls) => IsReport(c, r, calls)'
  BY <1>3, NextPInv, ReportsKept DEF CInv, RunningInv
<1>5. HandlerInv'
  BY <1>2, <1>3 DEF CInv, HandlerInv
<1>6. GameInv'
  <2>1. CASE game = "playing"
    BY <1>2, <2>1 DEF CInv, GameInv
  <2>2. CASE game = "ending"
    <3>1. session'[Subsystem].handle = None
      BY <1>1, HostSteps DEF Unload, Unloaded, Session, CInv, PInv, IInv, TypeOK
    <3> QED BY <1>1, <2>2, <3>1, EndingContinues DEF GameInv
  <2> QED BY <1>1, <2>1, <2>2
<1>7. RunningInv'
  BY <1>1, <1>2, <1>3 DEF CInv, RunningInv
<1>8. ClientTypeOK' /\ ReportInv'
  BY <1>1, <1>2, <1>4 DEF CInv, ClientTypeOK, ReportInv
<1> QED BY <1>2, <1>4, <1>5, <1>6, <1>7, <1>8 DEF CInv

LEMMA EndStep ==
  ASSUME CInv, End
  PROVE  CInv'
<1> DEFINE s == thread.todo
           n == Len(s)
<1>1. /\ At("end") /\ game' = "ended" /\ Continue /\ UNCHANGED <<vars, actor, answered, shown>>
      /\ ClientTypeOK /\ ThreadInv
  BY DEF End, CInv
<1>2. Pending("end") /\ game = "ending"
  BY <1>1, HeadPending DEF CInv, GameInv
<1>3. /\ s # << >> /\ s \in Seq(Calls) /\ Head(s) = "end" /\ Then(Tail(s))
      /\ \A i \in 1..n : i < n => s[i] \in {"clear", "unload"}
      /\ session[Subsystem].handle # None => Pending("unload")
  BY <1>1, <1>2 DEF CInv, At, Free, Idle, ThreadInv, ClientTypeOK, GameInv, Continue
<1>4. /\ n \in Nat /\ n > 0 /\ s[1] = "end" /\ Tail(s) \in Seq(Calls) /\ Len(Tail(s)) = n - 1
  BY <1>3, Rest
<1> HIDE DEF n
<1>5. n = 1
  <2>1. n # 1 => 1 \in 1..n /\ 1 < n
    BY <1>4
  <2> QED BY <1>3, <1>4, <2>1
<1>6. Tail(s) = << >> /\ thread' = Idle
  <2> DEFINE t == Tail(s)
  <2>1. Then(t) /\ t \in Seq(Calls) /\ Len(t) = 0
    BY <1>3, <1>4, <1>5
  <2> HIDE DEF t
  <2>2. t = << >>
    BY <2>1
  <2>3. thread' = Idle
    BY <2>1, <2>2 DEF Then
  <2> QED BY <2>2, <2>3 DEF t
<1>7. session[Subsystem].handle = None
  <2>1. \A i \in 1..n : s[i] = "end"
    BY <1>4, <1>5
  <2> QED BY <1>3, <2>1 DEF Pending, n
<1>8. /\ Free' /\ thread'.client = None /\ thread'.todo = << >> /\ \A x : ~Pending(x)'
  BY <1>6 DEF Free, Idle, Pending
<1>9. UNCHANGED <<handler, session, log, running>> /\ [Next]_vars
  BY <1>1 DEF vars
<1>10. PInv' /\ \A c, r, calls : IsReport(c, r, calls) => IsReport(c, r, calls)'
  BY <1>9, NextPInv, ReportsKept DEF CInv, RunningInv
<1>11. ThreadInv' /\ thread' \in [client : Clients \cup {Blueprint, None}, todo : Seq(Calls)]
  <2>1. thread'.todo = << >> /\ thread' = [client |-> None, todo |-> << >>]
    BY <1>6 DEF Idle
  <2> QED BY <1>8, <2>1 DEF ThreadInv, Wellformed
<1>12. HandlerInv'
  <2>1. ~Pending("clear")
    BY <1>4, <1>5 DEF Pending, n
  <2> QED BY <1>8, <1>9, <2>1 DEF CInv, HandlerInv
<1>13. GameInv'
  BY <1>1, <1>7, <1>8, <1>9 DEF GameInv
<1>14. RunningInv'
  <2>1. Quiet /\ Quiet'
    BY <1>1, <1>9 DEF CInv, RunningInv, At, Quiet
  <2> QED BY <1>8, <2>1 DEF RunningInv
<1>15. ClientTypeOK' /\ ReportInv'
  BY <1>1, <1>8, <1>10, <1>11 DEF CInv, ClientTypeOK, ReportInv, At
<1> QED BY <1>10, <1>11, <1>12, <1>13, <1>14, <1>15 DEF CInv

----------------------------------------------------------------------------
(* The invariant. *)

LEMMA CInitInv == CInit => CInv
<1> SUFFICES ASSUME CInit PROVE CInv
  OBVIOUS
<1>1. /\ PInv /\ game = "starting" /\ thread = Idle /\ Quiet /\ handler[Subsystem] = None
      /\ answered = [c \in Clients |-> 0] /\ shown = [c \in Clients |-> Nowhere]
      /\ actor = [a \in Actors |-> "unborn"]
  BY InitPInv, HostSteps DEF CInit, Init, Quiet
<1>2. thread = [client |-> None, todo |-> << >>]
  BY <1>1 DEF Idle
<1>3. Free /\ thread.client = None /\ thread.todo = << >> /\ \A x : ~Pending(x)
  BY <1>1, <1>2 DEF Free, Pending
<1>4. ClientTypeOK
  BY <1>1, <1>2, HostAssumption DEF ClientTypeOK, Nowhere, NoRun
<1>5. ThreadInv
  BY <1>3 DEF ThreadInv, Wellformed
<1>6. HandlerInv /\ RunningInv
  BY <1>1, <1>3 DEF HandlerInv, RunningInv
<1>7. GameInv
  BY <1>1, <1>3 DEF GameInv, Clients
<1>8. ReportInv
  BY <1>1, <1>3 DEF ReportInv, IsReport, Nowhere, At
<1> QED BY <1>1, <1>4, <1>5, <1>6, <1>7, <1>8 DEF CInv

LEMMA CNextInv == CInv /\ [CNext]_allVars => CInv'
<1> SUFFICES ASSUME CInv, [CNext]_allVars PROVE CInv'
  OBVIOUS
<1>1. CASE UNCHANGED allVars
  <2>1. PInv'
    BY <1>1, NextPInv DEF allVars, CInv
  <2>2. UNCHANGED <<handler, session, running, log, shot>>
    BY <1>1 DEF allVars, vars
  <2>3. /\ Free' = Free /\ Quiet' = Quiet /\ Latest' = Latest
        /\ \A x : (Pending(x)' <=> Pending(x)) /\ (At(x)' <=> At(x))
    BY <1>1, <2>2 DEF allVars, clientVars, Free, Quiet, Latest, Pending, At
  <2>4. ClientTypeOK' /\ ThreadInv' /\ HandlerInv' /\ GameInv'
    BY <1>1, <2>2, <2>3 DEF allVars, clientVars, CInv, ClientTypeOK, ThreadInv, HandlerInv, GameInv,
                            Wellformed
  <2>5. RunningInv'
    BY <1>1, <2>2, <2>3 DEF allVars, clientVars, CInv, RunningInv
  <2>6. ReportInv'
    BY <1>1, <2>2, <2>3 DEF allVars, clientVars, CInv, ReportInv, ToReport, IsReport
  <2> QED BY <2>1, <2>4, <2>5, <2>6 DEF CInv
<1>2. CASE Initialize
  BY <1>2, InitializeStep
<1>3. CASE Deinitialize
  BY <1>3, DeinitializeStep
<1>4. CASE RunNativeAotProof
  BY <1>4, RunNativeAotProofStep
<1>5. CASE BlueprintCall
  BY <1>5, BlueprintStep
<1>6. ASSUME NEW a \in Actors, RunPluginProof(a) PROVE CInv'
  BY <1>6, RunPluginProofStep
<1>7. ASSUME NEW a \in Actors, EndPlay(a) PROVE CInv'
  BY <1>7, EndPlayStep
<1>8. CASE Busy
  BY <1>8, SetStep, LoadModuleStep, RunModuleStep, ExecuteStep, ReportStep, ClearStep,
     UnloadModuleStep, EndStep DEF Busy
<1> QED BY <1>1, <1>2, <1>3, <1>4, <1>5, <1>6, <1>7, <1>8 DEF CNext

(* The invariant holds in every reachable state. *)
THEOREM ClientsInductive == CSpec => []CInv
  BY CInitInv, CNextInv, PTL DEF CSpec

(* A handler, which may capture the stack frame of a proof or an actor, is
   installed only while the game thread is in a script of its owner, and the
   actor exists, whatever fails in between. *)
THEOREM HandlersDieFirst == CSpec => []NoHandlerOutlivesItsClient
<1>1. CInv => NoHandlerOutlivesItsClient
  BY DEF CInv, HandlerInv, NoHandlerOutlivesItsClient
<1> QED BY <1>1, ClientsInductive, PTL

(* What a client reports is the result and the host calls of one run of its own
   that succeeded, however often it is repeated and whoever runs in between. *)
THEOREM ReportsAreOfOneRun == CSpec => []ReportIsOfOneRun
<1>1. CInv => ReportIsOfOneRun
  BY DEF CInv, ReportInv, IsReport, ReportIsOfOneRun
<1> QED BY <1>1, ClientsInductive, PTL

(* The end of the game instance frees every file, whichever loads, runs and
   proofs failed before. *)
THEOREM EverythingIsFreed == CSpec => []NothingLeftMapped
<1>1. CInv => NothingLeftMapped
  <2>1. SUFFICES ASSUME CInv, game = "ended", NEW f \in Files PROVE dll[f].refs = 0
    BY DEF NothingLeftMapped
  <2>2. Quiet /\ session[Subsystem].handle = None
    BY <2>1, FreeFacts DEF CInv, GameInv
  <2>3. Users(f) = {}
    BY <2>1, <2>2, HostAssumption, ClientAssumption DEF Users, Quiet, Nothing, InProgress
  <2>4. dll[f].refs = Cardinality(Users(f))
    BY <2>1 DEF CInv, PInv, IInv, HandleBalance
  <2> QED BY <2>3, <2>4, FS_EmptySet
<1> QED BY <1>1, ClientsInductive, PTL

(* The clients reach the hosts through the hosts' operations only, so what holds
   of the hosts under any caller holds under these. *)
THEOREM ClientsUseTheHosts == CSpec => Spec
<1>1. CInit => Init
  BY DEF CInit
<1>2. CInv /\ [CNext]_allVars => [Next]_vars
  <2>1. SUFFICES ASSUME CInv, CNext PROVE [Next]_vars
    BY DEF allVars, vars
  <2>2. CASE ~Busy
    BY <2>1, <2>2 DEF CNext, Initialize, Deinitialize, RunNativeAotProof, BlueprintCall,
                      RunPluginProof, EndPlay
  <2>3. CASE Set
    <3>1. thread.client \in Owners
      BY <2>1, <2>3, Continued DEF Set, CInv
    <3> QED BY <2>3, <3>1, HostSteps DEF Set
  <2>4. CASE LoadModule
    BY <2>4, HostSteps DEF LoadModule, Load
  <2>5. CASE RunModule
    BY <2>5, HostSteps DEF RunModule, Run, Handle
  <2>6. CASE Execute
    BY <2>6, HostSteps DEF Execute, ExecuteModule, Handle
  <2>7. CASE Report \/ End
    BY <2>7 DEF Report, End
  <2>8. CASE Clear
    BY <2>8, HostSteps DEF Clear
  <2>9. CASE UnloadModule
    BY <2>9, HostSteps DEF UnloadModule
  <2> QED BY <2>2, <2>3, <2>4, <2>5, <2>6, <2>7, <2>8, <2>9 DEF Busy
<1> QED BY <1>1, <1>2, ClientsInductive, PTL DEF CSpec, Spec

----------------------------------------------------------------------------
(* The actor of Gate B, whatever its editor leaves behind.                 *)

(* A state of the workload. *)
Workload(x, y, r, g, frame) ==
  [x |-> x, y |-> y, r |-> r, g |-> g, b |-> 167, a |-> 255, frame |-> frame]

(* The states after none to eight of the inputs. *)
Reached ==
  [n \in 0..8 |->
     CASE n = 0 -> Workload(0, 0, 255, 58, 0)
       [] n = 1 -> Workload(3, 0, 240, 53, 1)
       [] n = 2 -> Workload(6, 0, 240, 53, 2)
       [] n = 3 -> Workload(9, 2, 255, 58, 3)
       [] n = 4 -> Workload(9, 2, 255, 58, 4)
       [] n = 5 -> Workload(9, 4, 240, 53, 5)
       [] n = 6 -> Workload(12, 6, 240, 53, 6)
       [] n = 7 -> Workload(15, 6, 255, 58, 7)
       [] n = 8 -> Workload(15, 6, 255, 58, 8)]

(* One step, field by field. *)
LEMMA StepOf ==
  ASSUME NEW x, NEW y, NEW r, NEW g, NEW f, NEW i
  PROVE  Step(Workload(x, y, r, g, f), i) =
           Workload(IF i % 2 = 1 THEN x + 3 ELSE x, IF i >= 2 THEN y + 2 ELSE y,
                    IF f % 2 = 0 THEN Flipped(r) ELSE r, IF f % 2 = 0 THEN Flipped(g) ELSE g,
                    f + 1)
<1> DEFINE s  == Workload(x, y, r, g, f)
           x1 == IF i % 2 = 1 THEN x + 3 ELSE x
           y1 == IF i >= 2 THEN y + 2 ELSE y
           r1 == IF f % 2 = 0 THEN Flipped(r) ELSE r
           g1 == IF f % 2 = 0 THEN Flipped(g) ELSE g
           f1 == f + 1
<1>1. s.x = x /\ s.y = y /\ s.r = r /\ s.g = g /\ s.frame = f
  BY DEF Workload
<1>2. Step(s, i) = [s EXCEPT !.x = x1, !.y = y1, !.r = r1, !.g = g1, !.frame = f1]
  BY <1>1 DEF Step
<1> HIDE DEF x1, y1, r1, g1, f1
<1> DEFINE s1 == [s EXCEPT !.x = x1]
           s2 == [s1 EXCEPT !.y = y1]
           s3 == [s2 EXCEPT !.r = r1]
           s4 == [s3 EXCEPT !.g = g1]
<1>3. Step(s, i) = [s4 EXCEPT !.frame = f1]
  BY <1>2
<1>4. s1 = Workload(x1, y, r, g, f)
  BY DEF Workload
<1> HIDE DEF s1
<1>5. s2 = Workload(x1, y1, r, g, f)
  BY <1>4 DEF Workload
<1> HIDE DEF s2
<1>6. s3 = Workload(x1, y1, r1, g, f)
  BY <1>5 DEF Workload
<1> HIDE DEF s3
<1>7. s4 = Workload(x1, y1, r1, g1, f)
  BY <1>6 DEF Workload
<1> HIDE DEF s4, s
<1>8. [s4 EXCEPT !.frame = f1] = Workload(x1, y1, r1, g1, f1)
  BY <1>7 DEF Workload
<1> QED BY <1>3, <1>8 DEF s, x1, y1, r1, g1, f1

(* Each state is one step from the last. *)
LEMMA ReachedSteps ==
  ASSUME NEW n \in 1..8
  PROVE  Reached[n] = Step(Reached[n - 1], Inputs[n])
<1>1. Reached[1] = Step(Reached[0], Inputs[1])
  BY StepOf DEF Reached, Inputs, Flipped
<1>2. Reached[2] = Step(Reached[1], Inputs[2])
  BY StepOf DEF Reached, Inputs, Flipped
<1>3. Reached[3] = Step(Reached[2], Inputs[3])
  BY StepOf DEF Reached, Inputs, Flipped
<1>4. Reached[4] = Step(Reached[3], Inputs[4])
  BY StepOf DEF Reached, Inputs, Flipped
<1>5. Reached[5] = Step(Reached[4], Inputs[5])
  BY StepOf DEF Reached, Inputs, Flipped
<1>6. Reached[6] = Step(Reached[5], Inputs[6])
  BY StepOf DEF Reached, Inputs, Flipped
<1>7. Reached[7] = Step(Reached[6], Inputs[7])
  BY StepOf DEF Reached, Inputs, Flipped
<1>8. Reached[8] = Step(Reached[7], Inputs[8])
  BY StepOf DEF Reached, Inputs, Flipped
<1>9. n \in {1, 2, 3, 4, 5, 6, 7, 8}
  OBVIOUS
<1> QED BY <1>1, <1>2, <1>3, <1>4, <1>5, <1>6, <1>7, <1>8, <1>9

(* The workload ends in the state that the proof expects. *)
LEMMA WorkloadEnds ==
  After(Initial, Inputs) = Expected
<1> DEFINE F(run) == [n \in 0..Len(Inputs) |-> IF n = 0 THEN Initial ELSE Step(run[n - 1], Inputs[n])]
           run == CHOOSE f : f = F(f)
<1>1. Len(Inputs) = 8
  BY DEF Inputs
<1>2. Reached[0] = Initial /\ Reached[8] = Expected
  BY DEF Reached, Initial, Expected, Workload
<1>3. Reached = F(Reached)
  <2>1. Reached = [n \in 0..8 |-> Reached[n]]
    BY DEF Reached
  <2>2. \A n \in 0..8 : Reached[n] = IF n = 0 THEN Initial ELSE Step(Reached[n - 1], Inputs[n])
    BY <1>2, ReachedSteps
  <2> QED BY <1>1, <2>1, <2>2
<1>4. run = F(run)
  BY <1>3
<1>5. After(Initial, Inputs) = run[Len(Inputs)]
  BY DEF After
<1> HIDE DEF run
<1>6. run[0] = Reached[0] /\ \A n \in 1..8 : run[n] = Step(run[n - 1], Inputs[n])
  BY <1>1, <1>2, <1>4
<1>7. run[8] = Reached[8]
  <2>0. \A n \in 1..8 : run[n - 1] = Reached[n - 1] => run[n] = Reached[n]
    BY <1>6, ReachedSteps
  <2>1. run[1] = Reached[1] BY <1>6, <2>0
  <2>2. run[2] = Reached[2] BY <2>0, <2>1
  <2>3. run[3] = Reached[3] BY <2>0, <2>2
  <2>4. run[4] = Reached[4] BY <2>0, <2>3
  <2>5. run[5] = Reached[5] BY <2>0, <2>4
  <2>6. run[6] = Reached[6] BY <2>0, <2>5
  <2>7. run[7] = Reached[7] BY <2>0, <2>6
  <2> QED BY <2>0, <2>7
<1> QED BY <1>1, <1>2, <1>5, <1>7

\* Before play begins, while the timer is set, and after the last step.
Waiting   == playing = FALSE /\ timer = FALSE /\ replayed = <<>>
Replaying == playing = TRUE /\ timer = TRUE /\ replayed = <<>> /\ index # 8
Replayed  == playing = TRUE /\ timer = FALSE /\ replayed = <<Expected>>

(* The inductive invariant: the replay's own state is the one the workload *)
(* reaches with as many inputs.                                            *)
ReplayInv ==
  /\ index \in 0..8 /\ demo = Reached[index]
  /\ Waiting \/ Replaying \/ Replayed
  /\ ProofPasses

(* It holds when the actor is spawned,                                     *)
LEMMA ReplayStarts ==
  ActorInit => ReplayInv
<1> SUFFICES ASSUME ActorInit PROVE ReplayInv
  OBVIOUS
<1>1. index \in 0..8 /\ demo = Reached[index]
  BY DEF ActorInit, Reached, Initial, Workload
<1>2. Waiting /\ ProofPasses
  BY Zenon DEF ActorInit, Waiting, ProofPasses
<1> QED BY <1>1, <1>2 DEF ReplayInv

(* and whoever calls the proof or edits the guest meanwhile, every step    *)
(* keeps it.                                                               *)
LEMMA ReplayGoesOn ==
  ReplayInv /\ [ActorNext]_actorVars => ReplayInv'
<1> SUFFICES ASSUME ReplayInv, [ActorNext]_actorVars PROVE ReplayInv'
  OBVIOUS
<1>1. Reached[0] = Initial /\ Reached[8] = Expected /\ DemoInputs = Inputs
  BY DEF Reached, Initial, Expected, Workload, DemoInputs, Inputs
<1>2. Proof => ProofPasses'
  BY WorkloadEnds DEF Proof, ReplayInv, ProofPasses
<1>3. CASE BeginPlay
  <2>1. Waiting
    BY <1>3, Zenon DEF BeginPlay, ReplayInv, Replaying, Replayed
  <2>2. Replaying'
    <3>1. index' # 8
      BY <1>3 DEF BeginPlay
    <3> QED BY <1>3, <2>1, <3>1, Zenon DEF BeginPlay, Waiting, Replaying
  <2>3. index' \in 0..8 /\ demo' = Reached[index']
    BY <1>1, <1>3 DEF BeginPlay
  <2> QED BY <1>2, <1>3, <2>2, <2>3 DEF BeginPlay, ReplayInv
<1>4. CASE CallProof
  <2>1. index' = index /\ demo' = demo /\ ProofPasses'
    BY <1>2, <1>4 DEF CallProof
  <2>2. (Waiting \/ Replaying \/ Replayed)'
    BY <1>4 DEF CallProof, ReplayInv, Waiting, Replaying, Replayed
  <2> QED BY <2>1, <2>2 DEF ReplayInv
<1>5. CASE Edit \/ UNCHANGED actorVars
  <2>1. index' = index /\ demo' = demo /\ verdicts' = verdicts
    BY <1>5 DEF Edit, actorVars
  <2>2. (Waiting \/ Replaying \/ Replayed)'
    BY <1>5 DEF Edit, actorVars, ReplayInv, Waiting, Replaying, Replayed
  <2> QED BY <2>1, <2>2 DEF ReplayInv, ProofPasses
<1>6. CASE OnDemoStep
  <2>1. Replaying
    BY <1>6, Zenon DEF OnDemoStep, ReplayInv, Waiting, Replayed
  <2>2. index \in 0..7 /\ index < 8 /\ index + 1 \in 1..8 /\ index + 1 - 1 = index
    BY <2>1 DEF Replaying, ReplayInv
  <2>3. /\ index' = index + 1 /\ demo' = Step(demo, Inputs[index + 1])
        /\ verdicts' = verdicts /\ playing' = playing
    BY <1>1, <1>6, <2>2 DEF OnDemoStep
  <2>4. index' \in 0..8 /\ demo' = Reached[index']
    BY <2>2, <2>3, ReachedSteps DEF ReplayInv
  <2>5. CASE index' >= 8
    <3>1. index' = 8 /\ demo' = Expected
      BY <1>1, <2>4, <2>5
    <3>2. timer' = FALSE /\ replayed' = Append(replayed, demo')
      BY <1>6, <2>5, Zenon DEF OnDemoStep
    <3>3. replayed' = <<Expected>>
      BY <2>1, <3>1, <3>2 DEF Replaying
    <3>4. Replayed'
      BY <2>1, <2>3, <3>2, <3>3 DEF Replaying, Replayed
    <3> QED BY <2>3, <2>4, <3>4 DEF ReplayInv, ProofPasses
  <2>6. CASE ~(index' >= 8)
    <3>1. index' # 8
      BY <2>6
    <3>2. timer' = timer /\ replayed' = replayed
      BY <1>6, <2>6, Zenon DEF OnDemoStep
    <3>3. Replaying'
      BY <2>1, <2>3, <3>1, <3>2 DEF Replaying
    <3> QED BY <2>3, <2>4, <3>3 DEF ReplayInv, ProofPasses
  <2> QED BY <2>5, <2>6
<1> QED BY <1>3, <1>4, <1>5, <1>6 DEF ActorNext

(* Whatever an editor leaves in the guest's fields and whenever a Blueprint *)
(* calls it, the proof passes.                                             *)
THEOREM ProofAlwaysPasses == ActorSpec => []ProofPasses
<1>1. ReplayInv => ProofPasses
  BY DEF ReplayInv
<1> QED BY <1>1, ReplayStarts, ReplayGoesOn, PTL DEF ActorSpec

(* The replay reports once at most, with the state the proof validates.    *)
THEOREM ReplayIsTheProof == ActorSpec => []ReplayShowsTheProof
<1>1. ReplayInv => ReplayShowsTheProof
  BY DEF ReplayInv, ReplayShowsTheProof, Waiting, Replaying, Replayed
<1> QED BY <1>1, ReplayStarts, ReplayGoesOn, PTL DEF ActorSpec
=============================================================================
