------------------------- MODULE NativeModuleHostProofs -------------------------
(***************************************************************************)
(* Proofs about NativeModuleHost, for any number of wrappers and files,    *)
(* whatever the files contain and however often modules are run.           *)
(***************************************************************************)
EXTENDS NativeModuleHost, FiniteSetTheorems, TLAPS

Callers == Wrappers \cup {OneShot}

DllType == [refs : Nat, host : Callers \cup {None}, run : 0..MaxRuns]

\* d counts for every file the users that u lists.
Balanced(d, u) ==
  /\ d \in [Files -> DllType]
  /\ u \in [Files -> SUBSET Callers]
  /\ \A f \in Files : d[f].refs = Cardinality(u[f])

Unbound(d) == \A f \in Files : Accepts(f, "unbind") => d[f].host = None

users == [f \in Files |-> Users(f)]

Without(w) == [f \in Files |-> Users(f) \ {w}]

(* What a run in progress relies on. *)
RunInv ==
  /\ running.who = None => Quiet
  /\ ~Quiet =>
       LET f == running.file
       IN  /\ f \in Files /\ Module[f].loads = "ok"
           /\ running.who \in Wrappers =>
                /\ session[running.who].handle = f
                /\ running.bound => handler[running.who] # None
           /\ running.who = OneShot => running.bound
           /\ running.bound => dll[f].host = running.who
           /\ Module[f].requiresHost => running.bound
           /\ Len(log) > 0

IInv == TypeOK /\ HandleBalance /\ BoundOnlyDuringItsRun /\ RunInv

----------------------------------------------------------------------------
(* The reference count. *)

(* Any set of users can be counted. *)
LEMMA UsersFinite ==
  ASSUME NEW S \in SUBSET Callers
  PROVE  IsFiniteSet(S) /\ Cardinality(S) \in Nat
<1>1. IsFiniteSet(Callers)
  BY HostAssumption, FS_AddElement DEF Callers
<1> QED BY <1>1, FS_Subset, FS_CardinalityType

(* A new handle adds its user. *)
LEMMA GetBalance ==
  ASSUME NEW d, NEW u, Balanced(d, u), NEW f \in Files, NEW x \in Callers, x \notin u[f]
  PROVE  Balanced(GetHandle(d, f), [u EXCEPT ![f] = @ \cup {x}])
<1>1. /\ IsFiniteSet(u[f])
      /\ d[f].refs \in Nat
  BY UsersFinite DEF Balanced, DllType
<1>2. Cardinality(u[f] \cup {x}) = d[f].refs + 1
  BY ZenonT(60), <1>1, FS_AddElement DEF Balanced
<1> QED BY <1>1, <1>2 DEF Balanced, GetHandle, Dll, DllType

(* A freed handle removes its user; the last one unmaps the file. *)
LEMMA FreeBalance ==
  ASSUME NEW d, NEW u, Balanced(d, u), NEW f \in Files, NEW x \in Callers, x \in u[f]
  PROVE  Balanced(FreeHandle(d, f), [u EXCEPT ![f] = @ \ {x}])
<1>1. /\ IsFiniteSet(u[f])
      /\ d[f] \in DllType
  BY UsersFinite DEF Balanced
<1>2. Cardinality(u[f] \ {x}) = d[f].refs - 1
  <2>1. Cardinality(u[f] \ {x}) = Cardinality(u[f]) - 1
    BY <1>1, FS_RemoveElement
  <2> QED BY <2>1 DEF Balanced
<1>3. Cardinality(u[f] \ {x}) \in Nat
  BY <1>1, UsersFinite DEF Balanced
<1>4. Unmapped \in DllType /\ Unmapped.refs = 0
  BY HostAssumption DEF Unmapped, Dll, DllType, NoRun
<1>5. CASE d[f].refs = 1
  BY <1>2, <1>4, <1>5 DEF Balanced, FreeHandle
<1>6. CASE d[f].refs # 1
  BY <1>1, <1>2, <1>3, <1>6 DEF Balanced, FreeHandle, Dll, DllType
<1> QED BY <1>5, <1>6

(* Binding and starting a module do not touch the count. *)
LEMMA BindBalance ==
  ASSUME NEW d, NEW u, Balanced(d, u), NEW f \in Files, NEW x \in Callers \cup {None}
  PROVE  Balanced(Bind(d, f, x), u) /\ Balanced(Unbind(d, f), u)
  BY DEF Balanced, Bind, Unbind, Dll, DllType

LEMMA StartBalance ==
  ASSUME NEW d, NEW u, Balanced(d, u), NEW f \in Files, Len(log) \in Nat, Len(log) < MaxRuns
  PROVE  Balanced(Started(d, f), u)
  BY HostAssumption DEF Balanced, Started, Dll, DllType

(* While nothing runs no module that can be unbound is bound. *)
LEMMA QuietUnbound ==
  ASSUME IInv, Quiet
  PROVE  Unbound(dll)
  BY DEF IInv, Quiet, Unbound, BoundOnlyDuringItsRun, Nothing, InProgress

LEMMA UnboundKept ==
  ASSUME NEW d, Unbound(d), NEW u, Balanced(d, u), NEW f \in Files
  PROVE  Unbound(GetHandle(d, f)) /\ Unbound(FreeHandle(d, f)) /\ Unbound(Unbind(d, f))
  BY HostAssumption DEF Unbound, Balanced, GetHandle, FreeHandle, Unbind, Bind, Dll, DllType, Unmapped

(* The count of the users as they are. *)
LEMMA UsersBalanced ==
  ASSUME IInv
  PROVE  Balanced(dll, users)
<1>1. users \in [Files -> SUBSET Callers]
  BY DEF users, Users, Callers
<1>2. dll \in [Files -> DllType]
  BY DEF IInv, TypeOK, DllType, Callers
<1> QED BY <1>1, <1>2 DEF IInv, HandleBalance, Balanced, users

(* Unload takes back exactly what the wrapper held. *)
LEMMA ClosedBalance ==
  ASSUME IInv, Quiet, NEW w \in Wrappers
  PROVE  Balanced(Closed(w), Without(w)) /\ Unbound(Closed(w))
<1> DEFINE f == session[w].handle
<1>1. Balanced(dll, users) /\ Unbound(dll)
  BY UsersBalanced, QuietUnbound
<1>2. w \in Callers /\ w # OneShot
  BY HostAssumption DEF Callers
<1>3. f \in Files \cup {None} /\ session[w].api \in BOOLEAN
  BY DEF IInv, TypeOK
<1>4. CASE f = None
  <2>1. \A g \in Files : w \notin Users(g)
    BY <1>2, <1>4, HostAssumption DEF Users
  <2>2. Without(w) = users
    BY <2>1 DEF Without, users
  <2> QED BY <1>1, <1>4, <2>2 DEF Closed
<1>5. CASE f # None
  <2>1. f \in Files /\ w \in users[f]
    BY <1>3, <1>5 DEF users, Users
  <2>2. DEFINE d == IF session[w].api THEN Unbind(dll, f) ELSE dll
  <2>3. Balanced(d, users) /\ Unbound(d)
    BY <1>1, <1>3, <2>1, BindBalance, UnboundKept
  <2>4. [users EXCEPT ![f] = @ \ {w}] = Without(w)
    <3>1. \A g \in Files : g # f => w \notin Users(g)
      BY <1>2 DEF Users
    <3> QED BY <2>1, <3>1 DEF users, Without
  <2>5. Closed(w) = FreeHandle(d, f)
    BY <1>5 DEF Closed
  <2>6. Balanced(FreeHandle(d, f), [users EXCEPT ![f] = @ \ {w}])
    BY <1>2, <2>1, <2>3, FreeBalance
  <2>7. Unbound(FreeHandle(d, f))
    BY <2>1, <2>3, UnboundKept
  <2> QED BY <2>4, <2>5, <2>6, <2>7
<1> QED BY <1>4, <1>5

----------------------------------------------------------------------------
(* The steps. *)

(* Type correctness, the counts and the unbound hosts from a new mapping; nobody
   runs before or after the step. *)
LEMMA IdleStep ==
  ASSUME NEW d, NEW u, Balanced(d, u), Unbound(d), TypeOK', dll' = d, Quiet',
         \A f \in Files : Users(f)' = u[f],
         \A w \in Wrappers :
           /\ session'[w].api <=> session'[w].handle # None
           /\ session'[w].metadata = session'[w].handle
           /\ session'[w].handle # None => Module[session'[w].handle].loads = "ok"
  PROVE  IInv'
<1>1. HandleBalance'
  BY DEF HandleBalance, Balanced
<1>2. BoundOnlyDuringItsRun'
  BY DEF BoundOnlyDuringItsRun, Unbound, Accepts
<1>3. RunInv'
  BY DEF RunInv
<1> QED BY <1>1, <1>2, <1>3 DEF IInv

(* A session that is closed or replaced. *)
LEMMA SessionStep ==
  ASSUME IInv, Quiet, NEW w \in Wrappers, NEW s,
         s = Unloaded \/ \E f \in Files : Module[f].loads = "ok" /\ s = Opened(w, f),
         NEW d, Unbound(d),
         Balanced(d, IF s.handle = None THEN Without(w)
                     ELSE [Without(w) EXCEPT ![s.handle] = @ \cup {w}]),
         dll' = d, session' = [session EXCEPT ![w] = s],
         UNCHANGED <<handler, running, shot, log>>
  PROVE  IInv'
<1>1. /\ s \in [handle : Files \cup {None}, api : BOOLEAN, metadata : Files \cup {None}, last : 0..MaxRuns]
      /\ s.api <=> s.handle # None
      /\ s.metadata = s.handle
      /\ s.handle # None => Module[s.handle].loads = "ok"
  <2>1. CASE s = Unloaded
    BY <2>1, HostAssumption DEF Unloaded, Session, NoRun
  <2>2. CASE \E f \in Files : Module[f].loads = "ok" /\ s = Opened(w, f)
    <3>1. PICK f \in Files : Module[f].loads = "ok" /\ s = Opened(w, f)
      BY <2>2
    <3>2. s = Session(f, TRUE, f, NoRun)
      BY <3>1 DEF Opened
    <3>3. f # None /\ NoRun \in 0..MaxRuns
      BY HostAssumption DEF NoRun
    <3> QED BY <3>1, <3>2, <3>3 DEF Session
  <2> QED BY <2>1, <2>2
<1>2. TypeOK'
  BY <1>1 DEF IInv, TypeOK, Balanced, DllType, Callers
<1>3. Quiet'
  BY DEF Quiet
<1>4. /\ session \in [Wrappers -> [handle : Files \cup {None}, api : BOOLEAN,
                                metadata : Files \cup {None}, last : 0..MaxRuns]]
      /\ \A v \in Wrappers : session'[v] = IF v = w THEN s ELSE session[v]
  BY DEF IInv, TypeOK
<1>5. \A v \in Wrappers :
        /\ session'[v].api <=> session'[v].handle # None
        /\ session'[v].metadata = session'[v].handle
        /\ session'[v].handle # None => Module[session'[v].handle].loads = "ok"
  BY <1>1, <1>4 DEF IInv, HandleBalance
<1>6. \A f \in Files : Users(f)' = (IF s.handle = None THEN Without(w)
                                  ELSE [Without(w) EXCEPT ![s.handle] = @ \cup {w}])[f]
  <2>1. running.who # OneShot /\ running' = running
    BY HostAssumption DEF Quiet, Nothing, InProgress
  <2>2. \A f \in Files : Users(f)' = {v \in Wrappers : session'[v].handle = f}
    BY <2>1 DEF Users
  <2>3. \A f \in Files : Users(f) = {v \in Wrappers : session[v].handle = f}
    BY <2>1 DEF Users
  <2>4. \A f \in Files : Users(f)' = IF s.handle = f THEN (Users(f) \ {w}) \cup {w}
                                   ELSE Users(f) \ {w}
    BY <1>4, <2>2, <2>3
  <2> QED BY <1>1, <2>4, HostAssumption DEF Without
<1> QED BY <1>2, <1>3, <1>5, <1>6, IdleStep

(* A file that is not a module is counted as before. *)
LEMMA RejectedBalance ==
  ASSUME NEW d, NEW u, Balanced(d, u), Unbound(d), NEW f \in Files,
         NEW x \in Callers, x \notin u[f]
  PROVE  Balanced(Rejected(d, f), u) /\ Unbound(Rejected(d, f))
<1> DEFINE e == GetHandle(d, f)
<1> DEFINE v == [u EXCEPT ![f] = @ \cup {x}]
<1>1. Balanced(e, v) /\ Unbound(e)
  BY GetBalance, UnboundKept
<1>2. x \in v[f]
  BY DEF Balanced
<1>3. Balanced(FreeHandle(e, f), [v EXCEPT ![f] = @ \ {x}])
  BY <1>1, <1>2, FreeBalance
<1>4. Unbound(FreeHandle(e, f))
  BY <1>1, UnboundKept
<1>5. [v EXCEPT ![f] = @ \ {x}] = u
  BY DEF Balanced
<1> QED BY <1>3, <1>4, <1>5 DEF Rejected

LEMMA LoadStep ==
  ASSUME IInv, NEW w \in Wrappers, NEW f \in Files, Load(w, f)
  PROVE  IInv'
<1>1. Quiet
  BY DEF Load, LoadUnavailable, LoadRejected, LoadAccepted
<1>2. Balanced(Closed(w), Without(w)) /\ Unbound(Closed(w))
  BY <1>1, ClosedBalance
<1>3. w \in Callers /\ w \notin Without(w)[f] /\ Unloaded.handle = None
  BY DEF Callers, Without, Unloaded, Session
<1>4. CASE LoadUnavailable(w, f)
  BY <1>1, <1>2, <1>3, <1>4, SessionStep DEF LoadUnavailable
<1>5. CASE LoadRejected(w, f)
  <2>1. Balanced(Rejected(Closed(w), f), Without(w)) /\ Unbound(Rejected(Closed(w), f))
    BY <1>2, <1>3, RejectedBalance
  <2> QED BY <1>1, <1>3, <1>5, <2>1, SessionStep DEF LoadRejected
<1>6. CASE LoadAccepted(w, f)
  <2>1. Opened(w, f).handle = f /\ f # None
    BY HostAssumption DEF Opened, Session
  <2>2. Balanced(GetHandle(Closed(w), f), [Without(w) EXCEPT ![f] = @ \cup {w}])
    BY <1>2, <1>3, GetBalance
  <2>3. Unbound(GetHandle(Closed(w), f))
    BY <1>2, UnboundKept
  <2> QED BY <1>1, <1>6, <2>1, <2>2, <2>3, SessionStep DEF LoadAccepted
<1> QED BY <1>4, <1>5, <1>6 DEF Load

LEMMA UnloadStep ==
  ASSUME IInv, NEW w \in Wrappers, Unload(w)
  PROVE  IInv'
<1>1. Quiet
  BY DEF Unload
<1>2. Balanced(Closed(w), Without(w)) /\ Unbound(Closed(w))
  BY <1>1, ClosedBalance
<1>3. Unloaded.handle = None
  BY DEF Unloaded, Session
<1> QED BY <1>1, <1>2, <1>3, SessionStep DEF Unload

LEMMA HandlerStep ==
  ASSUME IInv, NEW w \in Wrappers,
         (\E o \in Owners : SetHostCallHandler(w, o)) \/ ClearHostCallHandler(w)
  PROVE  IInv'
<1>1. Quiet /\ Quiet'
  BY DEF SetHostCallHandler, ClearHostCallHandler, Quiet
<1>2. Balanced(dll, users) /\ Unbound(dll)
  BY <1>1, UsersBalanced, QuietUnbound
<1>3. session' = session /\ running' = running /\ UNCHANGED <<shot, log>>
  BY DEF SetHostCallHandler, ClearHostCallHandler
<1>4. Balanced(dll', users) /\ Unbound(dll')
  <2>1. CASE ClearHostCallHandler(w)
    <3>1. session[w].handle \in Files \cup {None} /\ session[w].api \in BOOLEAN
      BY DEF IInv, TypeOK
    <3>2. session[w].api => session[w].handle # None
      BY DEF IInv, HandleBalance
    <3> QED BY <1>2, <2>1, <3>1, <3>2, BindBalance, UnboundKept DEF ClearHostCallHandler
  <2>2. CASE \E o \in Owners : SetHostCallHandler(w, o)
    BY <1>2, <2>2 DEF SetHostCallHandler
  <2> QED BY <2>1, <2>2
<1>5. TypeOK'
  <2>1. handler' \in [Wrappers -> Owners \cup {None}]
    BY DEF IInv, TypeOK, SetHostCallHandler, ClearHostCallHandler
  <2> QED BY <1>3, <1>4, <2>1 DEF IInv, TypeOK, Balanced, DllType, Callers
<1>6. \A f \in Files : Users(f)' = users[f]
  BY <1>3 DEF users, Users
<1>7. \A v \in Wrappers :
        /\ session'[v].api <=> session'[v].handle # None
        /\ session'[v].metadata = session'[v].handle
        /\ session'[v].handle # None => Module[session'[v].handle].loads = "ok"
  BY <1>3 DEF IInv, HandleBalance
<1> QED BY <1>1, <1>4, <1>5, <1>6, <1>7, IdleStep

----------------------------------------------------------------------------
(* Runs. *)

(* What is remembered of a run is the only thing that changes of a wrapper. *)
LEMMA Remembered ==
  ASSUME TypeOK, NEW w \in Wrappers, NEW run \in 0..MaxRuns, Remember(w, run)
  PROVE  /\ session' \in [Wrappers -> [handle : Files \cup {None}, api : BOOLEAN,
                                        metadata : Files \cup {None}, last : 0..MaxRuns]]
         /\ \A v \in Wrappers : /\ session'[v].handle = session[v].handle
                               /\ session'[v].api = session[v].api
                               /\ session'[v].metadata = session[v].metadata
<1>1. session \in [Wrappers -> [handle : Files \cup {None}, api : BOOLEAN,
                                metadata : Files \cup {None}, last : 0..MaxRuns]]
  BY DEF TypeOK
<1>2. session' = [session EXCEPT ![w] = Session(session[w].handle, session[w].api,
                                               session[w].metadata, run)]
  BY DEF Remember
<1> QED BY <1>1, <1>2 DEF Session

(* The history ends with an entry. *)
LEMMA LatestType ==
  ASSUME TypeOK, Len(log) > 0
  PROVE  Latest \in [who : Wrappers \cup {OneShot}, file : Files, ok : BOOLEAN, calls : 0..MaxCalls]
<1> DEFINE E == [who : Wrappers \cup {OneShot}, file : Files, ok : BOOLEAN, calls : 0..MaxCalls]
<1>1. log \in Seq(E)
  BY DEF TypeOK
<1> HIDE DEF E
<1>2. Latest \in E
  BY <1>1 DEF Latest
<1> QED BY <1>2 DEF E

(* What is recorded of a run is typed, and adds nothing to the history. *)
LEMMA Recorded ==
  ASSUME TypeOK, Len(log) > 0, NEW ok \in BOOLEAN, NEW calls \in 0..MaxCalls, Record(ok, calls)
  PROVE  /\ log' \in Seq([who : Wrappers \cup {OneShot}, file : Files, ok : BOOLEAN,
                           calls : 0..MaxCalls])
         /\ Len(log') = Len(log)
<1> DEFINE E == [who : Wrappers \cup {OneShot}, file : Files, ok : BOOLEAN, calls : 0..MaxCalls]
<1>1. log \in Seq(E)
  BY DEF TypeOK
<1>2. Latest \in E
  BY LatestType
<1>3. Entry(Latest.who, Latest.file, ok, calls) \in E
  BY <1>2 DEF Entry
<1> HIDE DEF E
<1>4. log' = [log EXCEPT ![Len(log)] = Entry(Latest.who, Latest.file, ok, calls)]
  BY DEF Record
<1> QED BY <1>1, <1>3, <1>4 DEF E

LEMMA RunRefusedStep ==
  ASSUME IInv, NEW w \in Wrappers, RunRefused(w)
  PROVE  IInv'
<1>1. /\ Quiet /\ Quiet' /\ TypeOK /\ Remember(w, NoRun)
      /\ UNCHANGED <<dll, handler, running, shot, log>>
  BY DEF RunRefused, Quiet, IInv
<1>2. Balanced(dll, users) /\ Unbound(dll)
  BY <1>1, UsersBalanced, QuietUnbound
<1>3. NoRun \in 0..MaxRuns
  BY HostAssumption DEF NoRun
<1>4. /\ session' \in [Wrappers -> [handle : Files \cup {None}, api : BOOLEAN,
                                    metadata : Files \cup {None}, last : 0..MaxRuns]]
      /\ \A v \in Wrappers : /\ session'[v].handle = session[v].handle
                           /\ session'[v].api = session[v].api
                           /\ session'[v].metadata = session[v].metadata
  BY <1>1, <1>3, Remembered
<1>5. TypeOK'
  BY <1>1, <1>4 DEF TypeOK
<1>6. \A f \in Files : Users(f)' = users[f]
  BY <1>1, <1>4 DEF users, Users
<1>7. \A v \in Wrappers :
        /\ session'[v].api <=> session'[v].handle # None
        /\ session'[v].metadata = session'[v].handle
        /\ session'[v].handle # None => Module[session'[v].handle].loads = "ok"
  BY <1>4 DEF IInv, HandleBalance
<1> QED BY <1>1, <1>2, <1>5, <1>6, <1>7, IdleStep

(* A run begins: its host is the only one that is bound. *)
LEMMA BeginStep ==
  ASSUME TypeOK, Len(log) < MaxRuns, NEW d, NEW u, Balanced(d, u), Unbound(d),
         NEW who \in Callers, NEW f \in Files, NEW bound \in BOOLEAN,
         Begin(d, who, f, bound)
  PROVE  /\ Balanced(dll', u)
         /\ bound => dll'[f].host = who
         /\ \A g \in Files : dll'[g].host # None /\ Accepts(g, "unbind") =>
                             bound /\ g = f /\ dll'[g].host = who
         /\ running' = InProgress(who, f, bound, FALSE)
         /\ log' \in Seq([who : Callers, file : Files, ok : BOOLEAN, calls : 0..MaxCalls])
         /\ Len(log') \in 0..MaxRuns /\ Len(log') > 0
<1> DEFINE e == IF bound THEN Bind(d, f, who) ELSE d
<1>1. Balanced(e, u)
  BY BindBalance
<1>2. dll' = Started(e, f) /\ running' = InProgress(who, f, bound, FALSE)
  BY DEF Begin
<1>3. log \in Seq([who : Callers, file : Files, ok : BOOLEAN, calls : 0..MaxCalls])
  BY DEF TypeOK, Callers
<1>4. Balanced(dll', u)
  BY <1>1, <1>2, <1>3, StartBalance
<1>5. \A g \in Files : dll'[g].host = e[g].host
  <2>1. e \in [Files -> DllType]
    BY <1>1 DEF Balanced
  <2> QED BY <1>2, <2>1 DEF Started, Dll
<1>6. \A g \in Files : e[g].host = IF bound /\ g = f THEN who ELSE d[g].host
  BY DEF Bind, Dll, Balanced
<1>7. /\ log' \in Seq([who : Callers, file : Files, ok : BOOLEAN, calls : 0..MaxCalls])
      /\ Len(log') = Len(log) + 1
  <2> DEFINE E == [who : Callers, file : Files, ok : BOOLEAN, calls : 0..MaxCalls]
  <2> DEFINE x == Entry(who, f, FALSE, 0)
  <2>1. x \in E /\ log \in Seq(E) /\ log' = Append(log, x)
    BY <1>3, HostAssumption DEF Entry, Begin
  <2> HIDE DEF E, x
  <2>2. log' \in Seq(E) /\ Len(log') = Len(log) + 1
    BY <2>1
  <2> QED BY <2>2 DEF E
<1>8. Len(log) \in Nat
  BY <1>3
<1> QED BY <1>2, <1>4, <1>5, <1>6, <1>7, <1>8, HostAssumption DEF Unbound

LEMMA RunBeginsStep ==
  ASSUME IInv, NEW w \in Wrappers, RunBegins(w)
  PROVE  IInv'
<1> DEFINE f == session[w].handle
<1> DEFINE bound == handler[w] # None
<1>1. /\ Quiet /\ TypeOK /\ Remember(w, NoRun) /\ Len(log) < MaxRuns
      /\ Begin(dll, w, f, bound)
      /\ UNCHANGED <<handler, shot>>
      /\ f # None /\ (Module[f].requiresHost => bound)
  BY DEF RunBegins, MayRun, IsLoaded, IInv
<1>2. Balanced(dll, users) /\ Unbound(dll)
  BY <1>1, UsersBalanced, QuietUnbound
<1>3. NoRun \in 0..MaxRuns /\ w \in Callers /\ w # OneShot /\ f \in Files
  BY <1>1, HostAssumption DEF NoRun, Callers, TypeOK
<1>4. /\ session' \in [Wrappers -> [handle : Files \cup {None}, api : BOOLEAN,
                                    metadata : Files \cup {None}, last : 0..MaxRuns]]
      /\ \A v \in Wrappers : /\ session'[v].handle = session[v].handle
                           /\ session'[v].api = session[v].api
                           /\ session'[v].metadata = session[v].metadata
  BY <1>1, <1>3, Remembered
<1>5. /\ Balanced(dll', users)
      /\ bound => dll'[f].host = w
      /\ \A g \in Files : dll'[g].host # None /\ Accepts(g, "unbind") =>
                          bound /\ g = f /\ dll'[g].host = w
      /\ running' = InProgress(w, f, bound, FALSE)
      /\ log' \in Seq([who : Callers, file : Files, ok : BOOLEAN, calls : 0..MaxCalls])
      /\ Len(log') \in 0..MaxRuns /\ Len(log') > 0
  <2>1. bound \in BOOLEAN
    OBVIOUS
  <2> HIDE DEF bound, f
  <2> QED BY <1>1, <1>2, <1>3, <2>1, BeginStep
<1>6. running'.who = w /\ running'.file = f /\ running'.bound = bound
  BY <1>5 DEF InProgress
<1>7. TypeOK'
  <2>1. running' \in [who : Wrappers \cup {OneShot, None}, file : Files \cup {None},
                      bound : BOOLEAN, failed : BOOLEAN]
    BY <1>3, <1>5 DEF InProgress
  <2> QED BY <1>1, <1>4, <1>5, <2>1 DEF TypeOK, Balanced, DllType, Callers
<1>8. HandleBalance'
  <2>1. \A g \in Files : Users(g)' = Users(g)
    <3>1. running.who # OneShot
      BY <1>1, HostAssumption DEF Quiet, Nothing, InProgress
    <3> QED BY <1>3, <1>4, <1>6, <3>1 DEF Users
  <2>2. \A g \in Files : dll'[g].refs = Cardinality(Users(g)')
    BY <1>5, <2>1 DEF Balanced, users
  <2> QED BY <1>4, <2>2 DEF IInv, HandleBalance
<1>9. BoundOnlyDuringItsRun'
  BY <1>5, <1>6 DEF BoundOnlyDuringItsRun, Accepts
<1>10. RunInv'
  <2>1. Module[f].loads = "ok"
    BY <1>3, <1>1 DEF IInv, HandleBalance
  <2> QED BY <1>1, <1>3, <1>4, <1>5, <1>6, <2>1, HostAssumption DEF RunInv
<1> QED BY <1>7, <1>8, <1>9, <1>10 DEF IInv

LEMMA HostCallStep ==
  ASSUME IInv, NEW answered \in BOOLEAN, HostCall(answered)
  PROVE  IInv'
<1>1. /\ ~Quiet /\ TypeOK /\ RunInv /\ Record(FALSE, Latest.calls + 1)
      /\ Latest.calls < MaxCalls
      /\ running' = InProgress(running.who, running.file, running.bound, ~answered)
      /\ UNCHANGED <<dll, session, handler, shot>>
  BY DEF HostCall, IInv
<1>2. Len(log) > 0
  BY <1>1 DEF RunInv
<1>3. Latest.calls + 1 \in 0..MaxCalls
  <2>1. Latest \in [who : Wrappers \cup {OneShot}, file : Files, ok : BOOLEAN, calls : 0..MaxCalls]
    BY <1>1, <1>2, LatestType
  <2> QED BY <1>1, <2>1, HostAssumption
<1>4. /\ log' \in Seq([who : Wrappers \cup {OneShot}, file : Files, ok : BOOLEAN,
                       calls : 0..MaxCalls])
      /\ Len(log') = Len(log)
  BY <1>1, <1>2, <1>3, Recorded
<1>5. /\ running'.who = running.who /\ running'.file = running.file
      /\ running'.bound = running.bound
      /\ running' \in [who : Wrappers \cup {OneShot, None}, file : Files \cup {None},
                       bound : BOOLEAN, failed : BOOLEAN]
  BY <1>1 DEF InProgress, TypeOK
<1>6. TypeOK'
  BY <1>1, <1>4, <1>5 DEF TypeOK
<1>7. HandleBalance' /\ BoundOnlyDuringItsRun'
  BY <1>1, <1>5 DEF IInv, HandleBalance, Users, BoundOnlyDuringItsRun
<1>8. RunInv'
  BY <1>1, <1>4, <1>5 DEF RunInv
<1> QED BY <1>6, <1>7, <1>8 DEF IInv

(* Whatever the run did, its host is unbound when it is over. *)
LEMMA EndedUnbound ==
  ASSUME IInv, ~Quiet
  PROVE  Balanced(Ended(running.file), users) /\ Unbound(Ended(running.file))
<1> DEFINE f == running.file
<1>1. Balanced(dll, users)
  BY UsersBalanced
<1>2. f \in Files
  BY DEF IInv, RunInv
<1>3. running.bound \in BOOLEAN
  BY DEF IInv, TypeOK
<1>4. Balanced(Ended(f), users)
  BY <1>1, <1>2, <1>3, BindBalance DEF Ended
<1>5. ASSUME NEW g \in Files, Accepts(g, "unbind")
      PROVE  Ended(f)[g].host = None
  <2>1. dll[g].host # None => running.bound /\ g = f
    BY <1>5 DEF IInv, BoundOnlyDuringItsRun
  <2>2. dll \in [Files -> DllType]
    BY <1>1 DEF Balanced
  <2> QED BY <1>2, <1>3, <1>5, <2>1, <2>2 DEF Ended, Unbind, Bind, Dll
<1> QED BY <1>4, <1>5 DEF Unbound

(* A run of a wrapper is over. *)
LEMMA RunEndsStep ==
  ASSUME IInv, NEW w \in Wrappers, RunSucceeds(w) \/ RunFails(w)
  PROVE  IInv'
<1>1. /\ running.who = w /\ dll' = Ended(running.file) /\ running' = Nothing
      /\ UNCHANGED <<handler, shot>>
  BY DEF RunSucceeds, RunFails
<1>2. ~Quiet /\ w # OneShot /\ w # None
  BY <1>1, HostAssumption DEF Quiet, Nothing, InProgress
<1>3. Quiet' /\ running'.who # OneShot
  BY <1>1, HostAssumption DEF Quiet, Nothing, InProgress
<1>4. Len(log) > 0 /\ TypeOK
  BY <1>2 DEF IInv, RunInv
<1>5. /\ session' \in [Wrappers -> [handle : Files \cup {None}, api : BOOLEAN,
                                    metadata : Files \cup {None}, last : 0..MaxRuns]]
      /\ \A v \in Wrappers : /\ session'[v].handle = session[v].handle
                           /\ session'[v].api = session[v].api
                           /\ session'[v].metadata = session[v].metadata
  <2>1. CASE RunSucceeds(w)
    <3> DEFINE run == IF running.bound /\ ~Accepts(running.file, "unbind") THEN NoRun
                      ELSE Len(log)
    <3>1. run \in 0..MaxRuns
      BY <1>4, HostAssumption DEF TypeOK, NoRun
    <3>2. Remember(w, run)
      BY <2>1 DEF RunSucceeds
    <3> QED BY <1>4, <3>1, <3>2, Remembered
  <2>2. CASE RunFails(w)
    BY <1>4, <2>2 DEF RunFails, TypeOK
  <2> QED BY <2>1, <2>2
<1>6. /\ log' \in Seq([who : Wrappers \cup {OneShot}, file : Files, ok : BOOLEAN,
                       calls : 0..MaxCalls])
      /\ Len(log') = Len(log)
  <2>1. CASE RunSucceeds(w)
    <3>1. Latest.calls \in 0..MaxCalls
      BY <1>4, LatestType
    <3> QED BY <1>4, <2>1, <3>1, Recorded DEF RunSucceeds
  <2>2. CASE RunFails(w)
    BY <1>4, <2>2 DEF RunFails, TypeOK
  <2> QED BY <2>1, <2>2
<1>7. Balanced(dll', users) /\ Unbound(dll')
  BY <1>1, <1>2, EndedUnbound
<1>8. TypeOK'
  <2>1. Nothing \in [who : Wrappers \cup {OneShot, None}, file : Files \cup {None},
                     bound : BOOLEAN, failed : BOOLEAN]
    BY DEF Nothing, InProgress
  <2> QED BY <1>1, <1>4, <1>5, <1>6, <1>7, <2>1 DEF TypeOK, Balanced, DllType, Callers
<1>9. \A f \in Files : Users(f)' = users[f]
  BY <1>1, <1>2, <1>3, <1>5 DEF users, Users
<1>10. \A v \in Wrappers :
        /\ session'[v].api <=> session'[v].handle # None
        /\ session'[v].metadata = session'[v].handle
        /\ session'[v].handle # None => Module[session'[v].handle].loads = "ok"
  BY <1>5 DEF IInv, HandleBalance
<1> QED BY <1>3, <1>7, <1>8, <1>9, <1>10, IdleStep

----------------------------------------------------------------------------
(* ExecuteModule. *)

(* Nobody is counted for ExecuteModule while nothing runs. *)
LEMMA NotExecuting ==
  ASSUME IInv, Quiet, NEW f \in Files
  PROVE  OneShot \in Callers /\ OneShot \notin users[f]
  BY HostAssumption DEF Callers, users, Users, Quiet, Nothing, InProgress

LEMMA ExecuteRefusedStep ==
  ASSUME IInv, NEW f \in Files, ExecuteRefused(f)
  PROVE  IInv'
<1>1. /\ Quiet /\ Quiet' /\ TypeOK /\ shot' = NoRun
      /\ dll' = IF Module[f].loads = "no file" THEN dll ELSE Rejected(dll, f)
      /\ UNCHANGED <<session, handler, running, log>>
  BY DEF ExecuteRefused, Quiet, IInv
<1>2. Balanced(dll', users) /\ Unbound(dll')
  <2>1. Balanced(dll, users) /\ Unbound(dll)
    BY <1>1, UsersBalanced, QuietUnbound
  <2>2. OneShot \in Callers /\ OneShot \notin users[f]
    BY <1>1, NotExecuting
  <2>3. Balanced(Rejected(dll, f), users) /\ Unbound(Rejected(dll, f))
    BY <2>1, <2>2, RejectedBalance
  <2> QED BY <1>1, <2>1, <2>3
<1>3. TypeOK'
  <2>1. shot' \in 0..MaxRuns
    <3>1. NoRun \in 0..MaxRuns
      BY HostAssumption DEF NoRun
    <3> QED BY <1>1, <3>1
  <2> QED BY <1>1, <1>2, <2>1 DEF TypeOK, Balanced, DllType, Callers
<1>4. \A g \in Files : Users(g)' = users[g]
  BY <1>1 DEF users, Users
<1>5. \A v \in Wrappers :
        /\ session'[v].api <=> session'[v].handle # None
        /\ session'[v].metadata = session'[v].handle
        /\ session'[v].handle # None => Module[session'[v].handle].loads = "ok"
  BY <1>1 DEF IInv, HandleBalance
<1> QED BY <1>1, <1>2, <1>3, <1>4, <1>5, IdleStep

LEMMA ExecuteBeginsStep ==
  ASSUME IInv, NEW f \in Files, ExecuteBegins(f)
  PROVE  IInv'
<1> DEFINE u == [users EXCEPT ![f] = @ \cup {OneShot}]
<1>1. /\ Quiet /\ TypeOK /\ Len(log) < MaxRuns /\ Module[f].loads = "ok"
      /\ shot' = NoRun /\ Begin(GetHandle(dll, f), OneShot, f, TRUE)
      /\ UNCHANGED <<session, handler>>
  BY DEF ExecuteBegins, IInv
<1>2. Balanced(dll, users) /\ Unbound(dll)
  BY <1>1, UsersBalanced, QuietUnbound
<1>3. OneShot \in Callers /\ OneShot \notin users[f]
  BY <1>1, NotExecuting
<1>4. Balanced(GetHandle(dll, f), u) /\ Unbound(GetHandle(dll, f))
  BY <1>2, <1>3, GetBalance, UnboundKept
<1> HIDE DEF u
<1>5. /\ Balanced(dll', u)
      /\ dll'[f].host = OneShot
      /\ \A g \in Files : dll'[g].host # None /\ Accepts(g, "unbind") =>
                          g = f /\ dll'[g].host = OneShot
      /\ running' = InProgress(OneShot, f, TRUE, FALSE)
      /\ log' \in Seq([who : Callers, file : Files, ok : BOOLEAN, calls : 0..MaxCalls])
      /\ Len(log') \in 0..MaxRuns /\ Len(log') > 0
  <2> DEFINE bound == TRUE
  <2> DEFINE d == GetHandle(dll, f)
  <2>1. /\ bound \in BOOLEAN /\ bound /\ Begin(d, OneShot, f, bound)
        /\ Balanced(d, u) /\ Unbound(d) /\ TypeOK /\ Len(log) < MaxRuns
        /\ OneShot \in Callers
    BY <1>1, <1>3, <1>4
  <2> HIDE DEF bound, d
  <2>2. /\ Balanced(dll', u)
        /\ bound => dll'[f].host = OneShot
        /\ \A g \in Files : dll'[g].host # None /\ Accepts(g, "unbind") =>
                            bound /\ g = f /\ dll'[g].host = OneShot
        /\ running' = InProgress(OneShot, f, bound, FALSE)
        /\ log' \in Seq([who : Callers, file : Files, ok : BOOLEAN, calls : 0..MaxCalls])
        /\ Len(log') \in 0..MaxRuns /\ Len(log') > 0
    BY <2>1, BeginStep
  <2> QED BY <2>1, <2>2 DEF bound
<1>6. running'.who = OneShot /\ running'.file = f /\ running'.bound
  BY <1>5 DEF InProgress
<1>7. TypeOK'
  <2>1. running' \in [who : Wrappers \cup {OneShot, None}, file : Files \cup {None},
                      bound : BOOLEAN, failed : BOOLEAN]
    BY <1>5 DEF InProgress
  <2>2. shot' \in 0..MaxRuns
    <3>1. NoRun \in 0..MaxRuns
      BY HostAssumption DEF NoRun
    <3> QED BY <1>1, <3>1
  <2> QED BY <1>1, <1>5, <2>1, <2>2 DEF TypeOK, Balanced, DllType, Callers
<1>8. HandleBalance'
  <2>1. \A g \in Files : Users(g)' = u[g]
    <3>1. running.who # OneShot
      BY <1>1, HostAssumption DEF Quiet, Nothing, InProgress
    <3> QED BY <1>1, <1>6, <3>1 DEF Users, users, u
  <2>2. \A g \in Files : dll'[g].refs = Cardinality(Users(g)')
    BY <1>5, <2>1 DEF Balanced
  <2> QED BY <1>1, <2>2 DEF IInv, HandleBalance
<1>9. BoundOnlyDuringItsRun'
  BY <1>5, <1>6 DEF BoundOnlyDuringItsRun, Accepts
<1>10. RunInv'
  BY <1>1, <1>5, <1>6, HostAssumption DEF RunInv
<1> QED BY <1>7, <1>8, <1>9, <1>10 DEF IInv

LEMMA ExecuteEndsStep ==
  ASSUME IInv, NEW ok \in BOOLEAN, ExecuteEnds(ok)
  PROVE  IInv'
<1> DEFINE f == running.file
<1> DEFINE u == [users EXCEPT ![f] = @ \ {OneShot}]
<1>1. /\ running.who = OneShot /\ running' = Nothing
      /\ dll' = FreeHandle(Ended(f), f)
      /\ shot' = IF ok /\ Accepts(f, "unbind") THEN Len(log) ELSE NoRun
      /\ Record(ok, Latest.calls)
      /\ UNCHANGED <<session, handler>>
  BY DEF ExecuteEnds
<1>2. ~Quiet /\ Quiet' /\ running'.who # OneShot
  BY <1>1, HostAssumption DEF Quiet, Nothing, InProgress
<1>3. Len(log) > 0 /\ f \in Files /\ TypeOK
  BY <1>2 DEF IInv, RunInv
<1>4. Balanced(Ended(f), users) /\ Unbound(Ended(f))
  BY <1>2, EndedUnbound
<1>5. OneShot \in Callers /\ OneShot \in users[f]
  BY <1>1, <1>3 DEF Callers, users, Users
<1>6. Balanced(dll', u) /\ Unbound(dll')
  <2> HIDE DEF f
  <2> QED BY <1>1, <1>3, <1>4, <1>5, FreeBalance, UnboundKept
<1>7. /\ log' \in Seq([who : Wrappers \cup {OneShot}, file : Files, ok : BOOLEAN,
                       calls : 0..MaxCalls])
      /\ Len(log') = Len(log)
  <2>1. Latest.calls \in 0..MaxCalls
    BY <1>3, LatestType
  <2> QED BY <1>1, <1>3, <2>1, Recorded
<1>8. TypeOK'
  <2>1. Nothing \in [who : Wrappers \cup {OneShot, None}, file : Files \cup {None},
                     bound : BOOLEAN, failed : BOOLEAN]
    BY DEF Nothing, InProgress
  <2>2. shot' \in 0..MaxRuns
    BY <1>1, <1>3, HostAssumption DEF NoRun, TypeOK
  <2> QED BY <1>1, <1>3, <1>6, <1>7, <2>1, <2>2 DEF TypeOK, Balanced, DllType, Callers
<1>9. \A g \in Files : Users(g)' = u[g]
  <2>1. \A v \in Wrappers : v # OneShot
    BY HostAssumption
  <2> QED BY <1>1, <1>2, <1>3, <2>1 DEF users, Users
<1>10. \A v \in Wrappers :
        /\ session'[v].api <=> session'[v].handle # None
        /\ session'[v].metadata = session'[v].handle
        /\ session'[v].handle # None => Module[session'[v].handle].loads = "ok"
  BY <1>1 DEF IInv, HandleBalance
<1> HIDE DEF u
<1> QED BY <1>2, <1>6, <1>8, <1>9, <1>10, IdleStep

----------------------------------------------------------------------------
(* The invariant. *)

LEMMA InitInv == Init => IInv
<1> SUFFICES ASSUME Init PROVE IInv
  OBVIOUS
<1>1. TypeOK
  BY HostAssumption DEF Init, TypeOK, Unmapped, Dll, Unloaded, Session, Nothing, InProgress, NoRun
<1>2. HandleBalance
  <2>1. \A f \in Files : Users(f) = {}
    BY HostAssumption DEF Init, Users, Unloaded, Session, Nothing, InProgress
  <2>2. \A f \in Files : dll[f].refs = 0
    BY DEF Init, Unmapped, Dll
  <2> QED BY <2>1, <2>2, FS_EmptySet DEF Init, HandleBalance, Unloaded, Session
<1>3. BoundOnlyDuringItsRun
  BY DEF Init, BoundOnlyDuringItsRun, Unmapped, Dll
<1>4. RunInv
  BY DEF Init, RunInv, Quiet
<1> QED BY <1>1, <1>2, <1>3, <1>4 DEF IInv

LEMMA NextInv == IInv /\ [Next]_vars => IInv'
<1> SUFFICES ASSUME IInv, [Next]_vars PROVE IInv'
  OBVIOUS
<1>1. CASE UNCHANGED vars
  BY <1>1 DEF vars, IInv, TypeOK, HandleBalance, Users, BoundOnlyDuringItsRun, RunInv, Quiet
<1>2. ASSUME NEW w \in Wrappers, NEW f \in Files, Load(w, f)
      PROVE  IInv'
  BY <1>2, LoadStep
<1>3. ASSUME NEW w \in Wrappers, Unload(w)
      PROVE  IInv'
  BY <1>3, UnloadStep
<1>4. ASSUME NEW w \in Wrappers,
             (\E o \in Owners : SetHostCallHandler(w, o)) \/ ClearHostCallHandler(w)
      PROVE  IInv'
  BY <1>4, HandlerStep
<1>5. ASSUME NEW w \in Wrappers, Run(w)
      PROVE  IInv'
  BY <1>5, RunRefusedStep, RunBeginsStep, RunEndsStep DEF Run
<1>6. ASSUME NEW answered \in BOOLEAN, HostCall(answered)
      PROVE  IInv'
  BY <1>6, HostCallStep
<1>7. ASSUME ExecuteModule
      PROVE  IInv'
  BY <1>7, ExecuteRefusedStep, ExecuteBeginsStep, ExecuteEndsStep DEF ExecuteModule
<1> QED BY <1>1, <1>2, <1>3, <1>4, <1>5, <1>6, <1>7 DEF Next

(* The invariant holds in every reachable state. *)
THEOREM Inductive == Spec => []IInv
  BY InitInv, NextInv, PTL DEF Spec

(* Every variable of the hosts keeps its type. *)
THEOREM HostTypeCorrect == Spec => []TypeOK
<1>1. IInv => TypeOK
  BY DEF IInv
<1> QED BY <1>1, Inductive, PTL

(* Load, Run, Unload and ExecuteModule take and free handles in pairs, whatever
   fails: a file is mapped as often as it is used. *)
THEOREM HandlesBalance == Spec => []HandleBalance
<1>1. IInv => HandleBalance
  BY DEF IInv
<1> QED BY <1>1, Inductive, PTL

(* Run and ExecuteModule leave no module bound that can be unbound. *)
THEOREM HostsAreUnbound == Spec => []BoundOnlyDuringItsRun
<1>1. IInv => BoundOnlyDuringItsRun
  BY DEF IInv
<1> QED BY <1>1, Inductive, PTL

(* The host call of a module is answered for the wrapper that runs it, although
   the bound host is shared by all who use the file. *)
THEOREM CallsAreTheRunners == Spec => []CallsReachTheRunner
<1>1. IInv => CallsReachTheRunner
  <2> SUFFICES ASSUME IInv, ~Quiet, Module[running.file].requiresHost
               PROVE  dll[running.file].host = running.who /\ Called(running.file) # None
    BY DEF CallsReachTheRunner
  <2>1. dll[running.file].host = running.who /\ running.bound
    BY DEF IInv, RunInv
  <2>2. running.who \in Wrappers \cup {OneShot}
    BY DEF IInv, RunInv, TypeOK
  <2>3. running.who \in Wrappers => handler[running.who] # None
    BY <2>1 DEF IInv, RunInv
  <2> QED BY <2>1, <2>2, <2>3, HostAssumption DEF Called
<1> QED BY <1>1, Inductive, PTL

----------------------------------------------------------------------------
(* Where a result comes from: the run that a module's statics are of, and  *)
(* the run that a wrapper remembers.                                       *)

(* The statics of a module are of a run that has begun. *)
StaticsOfRuns == \A f \in Files : dll[f].run <= Len(log)

(* The run in progress is the latest; its wrapper remembers no other.      *)
LatestRuns ==
  ~Quiet => /\ dll[running.file].run = Len(log)
            /\ Latest.who = running.who /\ Latest.file = running.file
            /\ running.who \in Wrappers => session[running.who].last = NoRun

(* What a wrapper remembers is its latest run, of the module it has loaded, *)
(* whose statics are of that run or a later one.                            *)
Remembers(w) ==
  LET r == session[w].last
      f == session[w].handle
  IN  r # NoRun =>
        /\ r \in 1..Len(log) /\ f \in Files
        /\ log[r].who = w /\ log[r].ok /\ log[r].file = f
        /\ \A q \in (r + 1)..Len(log) : log[q].who # w
        /\ dll[f].run >= r

PInv == IInv /\ StaticsOfRuns /\ LatestRuns /\ \A w \in Wrappers : Remembers(w)

(* A handle that is freed leaves the statics of every file that somebody   *)
(* still uses, and makes none that were not there.                         *)
LEMMA FreeKeeps ==
  ASSUME NEW d, NEW u, Balanced(d, u), NEW f \in Files, NEW x \in Callers, x \in u[f],
         NEW g \in Files
  PROVE  /\ FreeHandle(d, f)[g].run \in {NoRun, d[g].run}
         /\ (g # f \/ \E y \in u[f] : y # x) => FreeHandle(d, f)[g].run = d[g].run
<1>1. d \in [Files -> DllType] /\ u[f] \in SUBSET Callers /\ d[f].refs = Cardinality(u[f])
  BY DEF Balanced
<1>2. IsFiniteSet(u[f])
  BY <1>1, UsersFinite
<1>3. Cardinality(u[f] \ {x}) = Cardinality(u[f]) - 1
  BY <1>2, FS_RemoveElement
<1>4. (\E y \in u[f] : y # x) => d[f].refs # 1
  <2>1. SUFFICES ASSUME NEW y \in u[f], y # x, d[f].refs = 1 PROVE FALSE
    OBVIOUS
  <2>2. Cardinality(u[f] \ {x}) = 0
    BY <1>1, <1>3, <2>1
  <2>3. IsFiniteSet(u[f] \ {x})
    BY <1>2, FS_RemoveElement
  <2> QED BY <2>1, <2>2, <2>3, FS_EmptySet
<1> QED BY <1>1, <1>4 DEF FreeHandle, Unmapped, Dll

(* Opening, binding and unbinding leave the statics alone. *)
LEMMA OthersKeep ==
  ASSUME NEW d \in [Files -> DllType], NEW f \in Files, NEW g \in Files, NEW x
  PROVE  /\ GetHandle(d, f)[g].run = d[g].run
         /\ Bind(d, f, x)[g].run = d[g].run
         /\ Unbind(d, f)[g].run = d[g].run
BY DEF GetHandle, Bind, Unbind, Dll

(* So does a file that is opened and closed again, if somebody uses it. *)
LEMMA RejectedKeeps ==
  ASSUME NEW d, NEW u, Balanced(d, u), NEW f \in Files, NEW x \in Callers, x \notin u[f],
         NEW g \in Files
  PROVE  /\ Rejected(d, f)[g].run \in {NoRun, d[g].run}
         /\ (g # f \/ u[f] # {}) => Rejected(d, f)[g].run = d[g].run
<1> DEFINE e == GetHandle(d, f)
           v == [u EXCEPT ![f] = @ \cup {x}]
<1>1. Balanced(e, v)
  BY GetBalance
<1>2. v[f] = u[f] \cup {x} /\ d \in [Files -> DllType]
  BY DEF Balanced
<1>3. e[g].run = d[g].run
  BY <1>2, OthersKeep
<1> HIDE DEF e, v
<1>4. /\ FreeHandle(e, f)[g].run \in {NoRun, e[g].run}
      /\ (g # f \/ \E y \in v[f] : y # x) => FreeHandle(e, f)[g].run = e[g].run
  BY <1>1, <1>2, FreeKeeps
<1>5. u[f] # {} => \E y \in v[f] : y # x
  BY <1>2
<1> QED BY <1>3, <1>4, <1>5 DEF Rejected, e

(* Unload leaves the statics of the modules that other wrappers have. *)
LEMMA ClosedKeeps ==
  ASSUME IInv, Quiet, NEW w \in Wrappers, NEW g \in Files
  PROVE  /\ Closed(w)[g].run \in {NoRun, dll[g].run}
         /\ \A v \in Wrappers \ {w} : session[v].handle = g => Closed(w)[g].run = dll[g].run
<1> DEFINE f == session[w].handle
           d == IF session[w].api THEN Unbind(dll, f) ELSE dll
<1>1. Balanced(dll, users) /\ f \in Files \cup {None} /\ session[w].api \in BOOLEAN
  BY UsersBalanced DEF IInv, TypeOK
<1>2. CASE f = None
  BY <1>2 DEF Closed
<1>3. CASE f # None
  <2>1. f \in Files /\ w \in users[f] /\ w \in Callers
    BY <1>1, <1>3 DEF users, Users, Callers
  <2>2. Balanced(d, users)
    BY <1>1, <2>1, BindBalance
  <2>3. d[g].run = dll[g].run
    BY <1>1, <2>1, OthersKeep DEF Balanced
  <2>4. \A v \in Wrappers : session[v].handle = g => g # f \/ v \in users[f]
    BY <2>1 DEF users, Users
  <2>5. Closed(w) = FreeHandle(d, f)
    BY <1>3 DEF Closed
  <2> HIDE DEF d, f
  <2> QED BY <2>1, <2>2, <2>3, <2>4, <2>5, FreeKeeps
<1> QED BY <1>2, <1>3

(* A step while nothing runs: the history stays, and a wrapper either      *)
(* forgets or keeps its module and the statics that are in it.             *)
LEMMA IdlePInv ==
  ASSUME PInv, IInv', Quiet', log' = log,
         \A f \in Files : dll'[f].run \in {NoRun, dll[f].run},
         \A v \in Wrappers :
           \/ session'[v].last = NoRun
           \/ /\ session'[v].last = session[v].last
              /\ session'[v].handle = session[v].handle
              /\ session[v].handle \in Files =>
                   dll'[session[v].handle].run = dll[session[v].handle].run
  PROVE  PInv'
<1>1. Len(log) \in Nat
  BY DEF PInv, IInv, TypeOK
<1>2. StaticsOfRuns'
  BY <1>1 DEF PInv, StaticsOfRuns, NoRun
<1>3. LatestRuns'
  BY DEF LatestRuns
<1>4. ASSUME NEW v \in Wrappers
      PROVE  Remembers(v)'
  <2>1. CASE session'[v].last = NoRun
    BY <2>1 DEF Remembers
  <2>2. CASE session'[v].last # NoRun
    <3>1. Remembers(v)
      BY DEF PInv
    <3> QED BY <2>2, <3>1 DEF Remembers
  <2> QED BY <2>1, <2>2
<1> QED BY <1>2, <1>3, <1>4 DEF PInv

(* Loading a module over another forgets what the other did. *)
LEMMA LoadPInv ==
  ASSUME PInv, IInv', NEW w \in Wrappers, NEW f \in Files, Load(w, f)
  PROVE  PInv'
<1>1. Quiet /\ Quiet' /\ log' = log /\ IInv
  BY DEF Load, LoadUnavailable, LoadRejected, LoadAccepted, Quiet, PInv
<1>2. /\ session \in [Wrappers -> [handle : Files \cup {None}, api : BOOLEAN,
                                 metadata : Files \cup {None}, last : 0..MaxRuns]]
      /\ \A v \in Wrappers : IF v = w THEN session'[v].last = NoRun ELSE session'[v] = session[v]
  <2>1. session' = [session EXCEPT ![w] = Unloaded] \/ session' = [session EXCEPT ![w] = Opened(w, f)]
    BY DEF Load, LoadUnavailable, LoadRejected, LoadAccepted
  <2>2. Unloaded.last = NoRun /\ Opened(w, f).last = NoRun
    BY DEF Unloaded, Opened, Session
  <2> QED BY <1>1, <2>1, <2>2 DEF IInv, TypeOK
<1>3. Balanced(Closed(w), Without(w)) /\ Closed(w) \in [Files -> DllType]
  BY <1>1, ClosedBalance DEF Balanced
<1>4. ASSUME NEW g \in Files
      PROVE  /\ dll'[g].run \in {NoRun, dll[g].run}
             /\ \A v \in Wrappers \ {w} : session[v].handle = g => dll'[g].run = dll[g].run
  <2>1. /\ Closed(w)[g].run \in {NoRun, dll[g].run}
        /\ \A v \in Wrappers \ {w} : session[v].handle = g => Closed(w)[g].run = dll[g].run
    BY <1>1, ClosedKeeps
  <2>2. w \in Callers /\ w \notin Without(w)[f]
    BY DEF Callers, Without
  <2>3. \A v \in Wrappers \ {w} : session[v].handle = g => g # f \/ Without(w)[f] # {}
    BY DEF Without, Users
  <2>4. /\ Rejected(Closed(w), f)[g].run \in {NoRun, Closed(w)[g].run}
        /\ (g # f \/ Without(w)[f] # {}) => Rejected(Closed(w), f)[g].run = Closed(w)[g].run
    BY <1>3, <2>2, RejectedKeeps
  <2>5. GetHandle(Closed(w), f)[g].run = Closed(w)[g].run
    BY <1>3, OthersKeep
  <2>6. dll' \in {Closed(w), Rejected(Closed(w), f), GetHandle(Closed(w), f)}
    BY DEF Load, LoadUnavailable, LoadRejected, LoadAccepted
  <2> QED BY <2>1, <2>3, <2>4, <2>5, <2>6
<1>5. \A v \in Wrappers :
        \/ session'[v].last = NoRun
        \/ /\ session'[v].last = session[v].last
           /\ session'[v].handle = session[v].handle
           /\ session[v].handle \in Files =>
                dll'[session[v].handle].run = dll[session[v].handle].run
  BY <1>2, <1>4
<1> QED BY <1>1, <1>4, <1>5, IdlePInv

(* Unload forgets, too. *)
LEMMA UnloadPInv ==
  ASSUME PInv, IInv', NEW w \in Wrappers, Unload(w)
  PROVE  PInv'
<1>1. Quiet /\ Quiet' /\ log' = log /\ IInv /\ dll' = Closed(w)
  BY DEF Unload, Quiet, PInv
<1>2. \A v \in Wrappers : IF v = w THEN session'[v].last = NoRun ELSE session'[v] = session[v]
  BY DEF Unload, Unloaded, Session, PInv, IInv, TypeOK
<1>3. ASSUME NEW g \in Files
      PROVE  /\ dll'[g].run \in {NoRun, dll[g].run}
             /\ \A v \in Wrappers \ {w} : session[v].handle = g => dll'[g].run = dll[g].run
  BY <1>1, ClosedKeeps
<1>4. \A v \in Wrappers :
        \/ session'[v].last = NoRun
        \/ /\ session'[v].last = session[v].last
           /\ session'[v].handle = session[v].handle
           /\ session[v].handle \in Files =>
                dll'[session[v].handle].run = dll[session[v].handle].run
  BY <1>2, <1>3
<1> QED BY <1>1, <1>3, <1>4, IdlePInv

(* The handlers have no part in it. *)
LEMMA HandlerPInv ==
  ASSUME PInv, IInv', NEW w \in Wrappers,
         (\E o \in Owners : SetHostCallHandler(w, o)) \/ ClearHostCallHandler(w)
  PROVE  PInv'
<1>1. Quiet' /\ log' = log /\ IInv /\ session' = session
  BY DEF SetHostCallHandler, ClearHostCallHandler, Quiet, PInv
<1>2. \A g \in Files : dll'[g].run = dll[g].run
  <2>1. dll \in [Files -> DllType] /\ (session[w].api => session[w].handle \in Files)
    BY <1>1, UsersBalanced DEF Balanced, IInv, HandleBalance, TypeOK
  <2>2. dll' = dll \/ (session[w].api /\ dll' = Unbind(dll, session[w].handle))
    BY DEF SetHostCallHandler, ClearHostCallHandler
  <2> QED BY <2>1, <2>2, OthersKeep
<1> QED BY <1>1, <1>2, IdlePInv

(* A run that is refused leaves nothing to remember. *)
LEMMA RunRefusedPInv ==
  ASSUME PInv, IInv', NEW w \in Wrappers, RunRefused(w)
  PROVE  PInv'
<1>1. Quiet' /\ log' = log /\ dll' = dll
  BY DEF RunRefused, Quiet
<1>2. \A v \in Wrappers : session'[v] = session[v] \/ (v = w /\ session'[v].last = NoRun)
  BY DEF RunRefused, Remember, Session, PInv, IInv, TypeOK
<1> QED BY <1>1, <1>2, IdlePInv

(* An ExecuteModule that is refused closes only what it opened. *)
LEMMA ExecuteRefusedPInv ==
  ASSUME PInv, IInv', NEW f \in Files, ExecuteRefused(f)
  PROVE  PInv'
<1>1. Quiet /\ Quiet' /\ log' = log /\ IInv /\ session' = session
  BY DEF ExecuteRefused, Quiet, PInv
<1>2. Balanced(dll, users) /\ OneShot \in Callers /\ OneShot \notin users[f]
  BY <1>1, UsersBalanced, NotExecuting
<1>3. ASSUME NEW g \in Files
      PROVE  /\ dll'[g].run \in {NoRun, dll[g].run}
             /\ \A v \in Wrappers : session[v].handle = g => dll'[g].run = dll[g].run
  <2>1. \A v \in Wrappers : session[v].handle = g => g # f \/ users[f] # {}
    BY DEF users, Users
  <2>2. /\ Rejected(dll, f)[g].run \in {NoRun, dll[g].run}
        /\ (g # f \/ users[f] # {}) => Rejected(dll, f)[g].run = dll[g].run
    BY <1>2, RejectedKeeps
  <2>3. dll' = dll \/ dll' = Rejected(dll, f)
    BY DEF ExecuteRefused
  <2> QED BY <2>1, <2>2, <2>3
<1> QED BY <1>1, <1>3, IdlePInv

(* A run that begins is the latest, and its wrapper's result is gone. *)
LEMMA BeginPInv ==
  ASSUME PInv, IInv', NEW d \in [Files -> DllType], \A g \in Files : d[g].run = dll[g].run,
         NEW who \in Callers, NEW f \in Files, NEW bound \in BOOLEAN,
         Begin(d, who, f, bound),
         \A v \in Wrappers : /\ session'[v].handle = session[v].handle
                             /\ session'[v].last = IF v = who THEN NoRun ELSE session[v].last
  PROVE  PInv'
<1> DEFINE n == Len(log)
<1>1. /\ n \in Nat /\ MaxRuns \in Nat
      /\ log \in Seq([who : Callers, file : Files, ok : BOOLEAN, calls : 0..MaxCalls])
      /\ \A g \in Files : dll[g].run \in Nat /\ dll[g].run <= n
  BY HostAssumption DEF PInv, IInv, TypeOK, StaticsOfRuns, Callers
<1>2. /\ Len(log') = n + 1 /\ log'[n + 1] = Entry(who, f, FALSE, 0)
      /\ \A q \in 1..n : log'[q] = log[q]
  <2> DEFINE E == [who : Callers, file : Files, ok : BOOLEAN, calls : 0..MaxCalls]
             x == Entry(who, f, FALSE, 0)
  <2>1. x \in E /\ log \in Seq(E) /\ log' = Append(log, x)
    BY <1>1, HostAssumption DEF Entry, Begin
  <2> HIDE DEF E, x
  <2>2. /\ Len(log') = Len(log) + 1 /\ log'[Len(log) + 1] = x
        /\ \A q \in 1..Len(log) : log'[q] = log[q]
    BY <2>1
  <2> QED BY <2>2 DEF x
<1>3. \A g \in Files : dll'[g].run = IF g = f THEN n + 1 ELSE dll[g].run
  <2> DEFINE e == IF bound THEN Bind(d, f, who) ELSE d
  <2>1. \A g \in Files : e[g].run = dll[g].run
    BY OthersKeep
  <2>2. e \in [Files -> DllType]
    BY DEF Bind, Dll, DllType
  <2>3. dll' = Started(e, f)
    BY DEF Begin
  <2> HIDE DEF e
  <2> QED BY <2>1, <2>2, <2>3 DEF Started, Dll
<1>4. running'.who = who /\ running'.file = f
  BY DEF Begin, InProgress
<1> HIDE DEF n
<1>5. StaticsOfRuns'
  BY <1>1, <1>2, <1>3 DEF StaticsOfRuns
<1>6. LatestRuns'
  BY <1>2, <1>3, <1>4 DEF LatestRuns, Latest, Entry
<1>7. ASSUME NEW v \in Wrappers
      PROVE  Remembers(v)'
  <2>1. CASE v = who
    BY <2>1 DEF Remembers
  <2>2. CASE v # who
    <3> DEFINE r == session[v].last
    <3>1. SUFFICES ASSUME r # NoRun PROVE Remembers(v)'
      BY <2>2 DEF Remembers
    <3>2. /\ r \in 1..n /\ session[v].handle \in Files
          /\ log[r].who = v /\ log[r].ok /\ log[r].file = session[v].handle
          /\ \A q \in (r + 1)..n : log[q].who # v
          /\ dll[session[v].handle].run >= r
      BY <3>1 DEF PInv, Remembers, n
    <3>3. session'[v].last = r /\ session'[v].handle = session[v].handle
      BY <2>2
    <3> HIDE DEF r
    <3>4. \A q \in (r + 1)..(n + 1) : log'[q].who # v
      <4>1. SUFFICES ASSUME NEW q \in (r + 1)..(n + 1) PROVE log'[q].who # v
        OBVIOUS
      <4>2. q = n + 1 \/ (q \in (r + 1)..n /\ q \in 1..n)
        <5>1. n \in Nat /\ r \in Nat /\ r >= 1
          BY <1>1, <3>2
        <5>2. q \in Int /\ r + 1 <= q /\ q <= n + 1
          BY <5>1
        <5>3. q = n + 1 \/ q <= n
          BY <5>1, <5>2
        <5> QED BY <5>1, <5>2, <5>3
      <4>3. log'[n + 1].who = who
        BY <1>2 DEF Entry
      <4> QED BY <1>2, <2>2, <3>2, <4>2, <4>3
    <3>5. r \in 1..(n + 1) /\ log'[r] = log[r]
      BY <1>1, <1>2, <3>2
    <3>6. dll'[session[v].handle].run >= r
      BY <1>1, <1>3, <3>2
    <3> QED BY <1>2, <3>2, <3>3, <3>4, <3>5, <3>6 DEF Remembers
  <2> QED BY <2>1, <2>2
<1> QED BY <1>5, <1>6, <1>7 DEF PInv

LEMMA RunBeginsPInv ==
  ASSUME PInv, IInv', NEW w \in Wrappers, RunBegins(w)
  PROVE  PInv'
<1> DEFINE f == session[w].handle
           bound == handler[w] # None
<1>1. /\ Begin(dll, w, f, bound) /\ Remember(w, NoRun) /\ IsLoaded(w)
      /\ bound \in BOOLEAN /\ w \in Callers
  BY DEF RunBegins, MayRun, Callers
<1>2. dll \in [Files -> DllType] /\ f \in Files
  BY <1>1, UsersBalanced DEF PInv, Balanced, IsLoaded, IInv, TypeOK
<1>3. \A v \in Wrappers : /\ session'[v].handle = session[v].handle
                          /\ session'[v].last = IF v = w THEN NoRun ELSE session[v].last
  BY <1>1 DEF Remember, Session, PInv, IInv, TypeOK
<1> HIDE DEF f, bound
<1> QED BY <1>1, <1>2, <1>3, BeginPInv

LEMMA ExecuteBeginsPInv ==
  ASSUME PInv, IInv', NEW f \in Files, ExecuteBegins(f)
  PROVE  PInv'
<1> DEFINE d == GetHandle(dll, f)
           bound == TRUE
<1>1. Begin(d, OneShot, f, bound) /\ session' = session /\ bound \in BOOLEAN
  BY DEF ExecuteBegins
<1>2. Balanced(d, [users EXCEPT ![f] = @ \cup {OneShot}])
  BY UsersBalanced, NotExecuting, GetBalance DEF PInv, ExecuteBegins
<1>3. d \in [Files -> DllType] /\ \A g \in Files : d[g].run = dll[g].run
  BY <1>2, UsersBalanced, OthersKeep DEF PInv, Balanced
<1>4. OneShot \in Callers /\ \A v \in Wrappers : v # OneShot
  BY HostAssumption DEF Callers
<1> HIDE DEF d, bound
<1>5. \A v \in Wrappers : /\ session'[v].handle = session[v].handle
                          /\ session'[v].last = IF v = OneShot THEN NoRun ELSE session[v].last
  BY <1>1, <1>4
<1> QED BY <1>1, <1>3, <1>4, <1>5, BeginPInv

(* What is recorded is recorded of the latest run only. *)
LEMMA RecordedLast ==
  ASSUME TypeOK, Len(log) > 0, NEW ok, NEW calls, Record(ok, calls)
  PROVE  /\ Len(log') = Len(log) /\ Len(log) \in Nat
         /\ \A q \in 1..Len(log) : q # Len(log) => log'[q] = log[q]
         /\ log'[Len(log)] = Entry(Latest.who, Latest.file, ok, calls)
<1> DEFINE E == [who : Wrappers \cup {OneShot}, file : Files, ok : BOOLEAN, calls : 0..MaxCalls]
           x == Entry(Latest.who, Latest.file, ok, calls)
           F == E \cup {x}
<1>1. log \in Seq(E) /\ log' = [log EXCEPT ![Len(log)] = x]
  BY DEF TypeOK, Record
<1> HIDE DEF E, x
<1>2. E \subseteq F /\ x \in F
  OBVIOUS
<1> HIDE DEF F
<1>3. log \in Seq(F) /\ x \in F
  BY <1>1, <1>2
<1>4. /\ Len(log') = Len(log) /\ Len(log) \in Nat
      /\ \A q \in 1..Len(log) : q # Len(log) => log'[q] = log[q]
      /\ log'[Len(log)] = x
  BY <1>1, <1>3
<1> QED BY <1>4 DEF x

(* Of a run that goes on or is over, the history keeps who ran what: what  *)
(* the other wrappers remember stays true. *)
LEMMA OthersRemember ==
  ASSUME PInv, TypeOK', ~Quiet, NEW v \in Wrappers, v # running.who,
         Len(log') = Len(log), \A q \in 1..Len(log) : q # Len(log) => log'[q] = log[q],
         log'[Len(log)].who = Latest.who,
         session'[v] = session[v],
         session[v].handle \in Files =>
           dll'[session[v].handle].run = dll[session[v].handle].run
  PROVE  Remembers(v)'
<1> DEFINE r == session[v].last
           n == Len(log)
<1>1. SUFFICES ASSUME r # NoRun PROVE Remembers(v)'
  BY DEF Remembers
<1>2. /\ r \in 1..n /\ session[v].handle \in Files
      /\ log[r].who = v /\ log[r].ok /\ log[r].file = session[v].handle
      /\ \A q \in (r + 1)..n : log[q].who # v
      /\ dll[session[v].handle].run >= r
  BY <1>1 DEF PInv, Remembers
<1>3. Latest.who = running.who /\ n \in Nat /\ Latest = log[n]
  BY DEF PInv, IInv, TypeOK, LatestRuns, Latest
<1> HIDE DEF r, n
<1>4. r # n /\ log'[r] = log[r]
  BY <1>2, <1>3 DEF n
<1>5. \A q \in (r + 1)..n : log'[q].who # v
  <2>1. SUFFICES ASSUME NEW q \in (r + 1)..n PROVE log'[q].who # v
    OBVIOUS
  <2>2. q \in 1..n
    BY <1>2, <1>3
  <2> QED BY <1>2, <1>3, <2>2 DEF n
<1> QED BY <1>2, <1>4, <1>5 DEF Remembers, r, n

LEMMA HostCallPInv ==
  ASSUME PInv, IInv', NEW answered \in BOOLEAN, HostCall(answered)
  PROVE  PInv'
<1>1. /\ ~Quiet /\ TypeOK /\ RunInv /\ LatestRuns /\ StaticsOfRuns
      /\ Record(FALSE, Latest.calls + 1)
      /\ running'.who = running.who /\ running'.file = running.file
      /\ UNCHANGED <<dll, session>>
  BY DEF HostCall, InProgress, PInv, IInv
<1>2. Len(log) > 0
  BY <1>1 DEF RunInv
<1>3. /\ Len(log') = Len(log) /\ Len(log) \in Nat
      /\ \A q \in 1..Len(log) : q # Len(log) => log'[q] = log[q]
      /\ log'[Len(log)].who = Latest.who /\ log'[Len(log)].file = Latest.file
  <2> DEFINE calls == Latest.calls + 1
  <2>1. Record(FALSE, calls)
    BY <1>1
  <2> HIDE DEF calls
  <2>2. /\ Len(log') = Len(log) /\ Len(log) \in Nat
        /\ \A q \in 1..Len(log) : q # Len(log) => log'[q] = log[q]
        /\ log'[Len(log)] = Entry(Latest.who, Latest.file, FALSE, calls)
    BY <1>1, <1>2, <2>1, RecordedLast
  <2>3. /\ Entry(Latest.who, Latest.file, FALSE, calls).who = Latest.who
        /\ Entry(Latest.who, Latest.file, FALSE, calls).file = Latest.file
    BY DEF Entry
  <2> QED BY <2>2, <2>3
<1>4. StaticsOfRuns'
  BY <1>1, <1>3 DEF StaticsOfRuns
<1>5. LatestRuns'
  BY <1>1, <1>3 DEF LatestRuns, Latest
<1>6. ASSUME NEW v \in Wrappers
      PROVE  Remembers(v)'
  <2>1. CASE v = running.who
    BY <1>1, <2>1 DEF LatestRuns, Remembers
  <2>2. CASE v # running.who
    BY <1>1, <1>3, <2>2, OthersRemember DEF IInv
  <2> QED BY <2>1, <2>2
<1> QED BY <1>4, <1>5, <1>6 DEF PInv

(* Unbinding the host does not touch the statics. *)
LEMMA EndedKeeps ==
  ASSUME IInv, ~Quiet, NEW g \in Files
  PROVE  Ended(running.file)[g].run = dll[g].run
BY OthersKeep, UsersBalanced DEF Ended, Balanced, IInv, RunInv

(* The wrapper remembers its run when it succeeded and the module let go of *)
(* its host.                                                                *)
LEMMA RunEndsPInv ==
  ASSUME PInv, IInv', NEW w \in Wrappers, RunSucceeds(w) \/ RunFails(w)
  PROVE  PInv'
<1> DEFINE f == running.file
           n == Len(log)
<1>1. running.who = w /\ dll' = Ended(f) /\ running' = Nothing
  BY DEF RunSucceeds, RunFails
<1>2. ~Quiet /\ Quiet'
  BY <1>1, HostAssumption DEF Quiet, Nothing, InProgress
<1>3. /\ TypeOK /\ TypeOK' /\ n > 0 /\ n \in Nat /\ f \in Files /\ session[w].handle = f
      /\ StaticsOfRuns /\ dll[f].run = n /\ Latest.who = w /\ Latest.file = f
      /\ session[w].last = NoRun
  <2>1. TypeOK /\ RunInv /\ LatestRuns /\ StaticsOfRuns
    BY DEF PInv, IInv
  <2>2. TypeOK'
    BY DEF IInv
  <2>3. n \in Nat
    BY <2>1 DEF TypeOK
  <2>4. n > 0 /\ f \in Files /\ session[w].handle = f
    BY <1>1, <1>2, <2>1 DEF RunInv
  <2>5. dll[f].run = n /\ Latest.who = w /\ Latest.file = f /\ session[w].last = NoRun
    BY <1>1, <1>2, <2>1 DEF LatestRuns
  <2> QED BY <2>1, <2>2, <2>3, <2>4, <2>5
<1>4. \A g \in Files : dll'[g].run = dll[g].run
  BY <1>1, <1>2, EndedKeeps DEF PInv
<1>5. /\ Len(log') = n
      /\ \A q \in 1..n : q # n => log'[q] = log[q]
      /\ log'[n].who = w /\ log'[n].file = f
      /\ session'[w].last # NoRun => log'[n].ok /\ session'[w].last = n
      /\ session'[w].handle = f
      /\ \A v \in Wrappers : v # w => session'[v] = session[v]
  <2>1. CASE RunSucceeds(w)
    <3> DEFINE run == IF running.bound /\ ~Accepts(f, "unbind") THEN NoRun ELSE n
    <3>1. Record(TRUE, Latest.calls) /\ Remember(w, run)
      BY <2>1 DEF RunSucceeds
    <3>2. /\ Len(log') = n
          /\ \A q \in 1..n : q # n => log'[q] = log[q]
          /\ log'[n] = Entry(Latest.who, Latest.file, TRUE, Latest.calls)
      BY <1>3, <3>1, RecordedLast
    <3>3. /\ session'[w].last = run /\ session'[w].handle = session[w].handle
          /\ \A v \in Wrappers : v # w => session'[v] = session[v]
      BY <1>3, <3>1 DEF Remember, Session, TypeOK
    <3>4. run = NoRun \/ run = n
      OBVIOUS
    <3> HIDE DEF run, n, f
    <3> QED BY <1>3, <3>2, <3>3, <3>4 DEF Entry
  <2>2. CASE RunFails(w)
    BY <1>3, <2>2 DEF RunFails, Latest
  <2> QED BY <2>1, <2>2
<1> HIDE DEF n, f
<1>6. StaticsOfRuns'
  BY <1>3, <1>4, <1>5 DEF StaticsOfRuns, n
<1>7. LatestRuns'
  BY <1>2 DEF LatestRuns
<1>8. ASSUME NEW v \in Wrappers
      PROVE  Remembers(v)'
  <2>1. CASE v = w
    <3>1. \A q \in (n + 1)..n : FALSE
      BY <1>3
    <3>2. n \in 1..n /\ dll'[f].run >= n
      BY <1>3, <1>4
    <3> QED BY <1>3, <1>5, <2>1, <3>1, <3>2 DEF Remembers
  <2>2. CASE v # w
    BY <1>1, <1>2, <1>3, <1>4, <1>5, <2>2, OthersRemember DEF n
  <2> QED BY <2>1, <2>2
<1> QED BY <1>6, <1>7, <1>8 DEF PInv

LEMMA ExecuteEndsPInv ==
  ASSUME PInv, IInv', NEW ok \in BOOLEAN, ExecuteEnds(ok)
  PROVE  PInv'
<1> DEFINE f == running.file
           n == Len(log)
<1>1. /\ running.who = OneShot /\ running' = Nothing /\ session' = session
      /\ dll' = FreeHandle(Ended(f), f) /\ Record(ok, Latest.calls)
  BY DEF ExecuteEnds
<1>2. ~Quiet /\ Quiet'
  BY <1>1, HostAssumption DEF Quiet, Nothing, InProgress
<1>3. /\ TypeOK /\ TypeOK' /\ n > 0 /\ n \in Nat /\ f \in Files /\ StaticsOfRuns
  <2>1. TypeOK /\ RunInv /\ StaticsOfRuns
    BY DEF PInv, IInv
  <2>2. TypeOK'
    BY DEF IInv
  <2>3. n \in Nat
    BY <2>1 DEF TypeOK
  <2> QED BY <1>2, <2>1, <2>2, <2>3 DEF RunInv
<1>4. ASSUME NEW g \in Files
      PROVE  /\ dll'[g].run \in {NoRun, dll[g].run}
             /\ \A v \in Wrappers : session[v].handle = g => dll'[g].run = dll[g].run
  <2>1. Balanced(Ended(f), users) /\ Ended(f)[g].run = dll[g].run
    BY <1>2, EndedUnbound, EndedKeeps DEF PInv
  <2>2. OneShot \in Callers /\ OneShot \in users[f]
    BY <1>1, <1>3 DEF Callers, users, Users
  <2>3. \A v \in Wrappers : session[v].handle = g => g # f \/ (v \in users[f] /\ v # OneShot)
    BY <1>3, HostAssumption DEF users, Users
  <2> HIDE DEF f
  <2> QED BY <1>1, <1>3, <2>1, <2>2, <2>3, FreeKeeps
<1>5. /\ Len(log') = n
      /\ \A q \in 1..n : q # n => log'[q] = log[q]
      /\ log'[n].who = Latest.who
  <2>1. /\ Len(log') = n
        /\ \A q \in 1..n : q # n => log'[q] = log[q]
        /\ log'[n] = Entry(Latest.who, Latest.file, ok, Latest.calls)
    BY <1>1, <1>3, RecordedLast
  <2> HIDE DEF n
  <2> QED BY <2>1 DEF Entry
<1>6. StaticsOfRuns'
  BY <1>3, <1>4, <1>5 DEF StaticsOfRuns, NoRun
<1>7. LatestRuns'
  BY <1>2 DEF LatestRuns
<1>8. ASSUME NEW v \in Wrappers
      PROVE  Remembers(v)'
  <2>1. v # running.who
    BY <1>1, HostAssumption
  <2> QED BY <1>1, <1>2, <1>3, <1>4, <1>5, <2>1, OthersRemember
<1> QED BY <1>6, <1>7, <1>8 DEF PInv

LEMMA InitPInv == Init => PInv
<1>1. SUFFICES ASSUME Init PROVE PInv
  OBVIOUS
<1>2. Len(log) = 0 /\ \A f \in Files : dll[f].run = 0
  BY <1>1 DEF Init, Unmapped, Dll, NoRun
<1> QED BY <1>1, <1>2, InitInv
        DEF Init, PInv, StaticsOfRuns, LatestRuns, Quiet, Remembers, Unloaded, Session

LEMMA NextPInv == PInv /\ [Next]_vars => PInv'
<1> SUFFICES ASSUME PInv, [Next]_vars PROVE PInv'
  OBVIOUS
<1>1. IInv'
  BY NextInv DEF PInv
<1>2. CASE UNCHANGED vars
  <2>1. ASSUME NEW w \in Wrappers PROVE Remembers(w)'
    BY <1>2 DEF PInv, vars, Remembers
  <2> QED BY <1>1, <1>2, <2>1 DEF PInv, vars, StaticsOfRuns, LatestRuns, Quiet, Latest
<1>3. ASSUME NEW w \in Wrappers, NEW f \in Files, Load(w, f) PROVE PInv'
  BY <1>1, <1>3, LoadPInv
<1>4. ASSUME NEW w \in Wrappers, Unload(w) PROVE PInv'
  BY <1>1, <1>4, UnloadPInv
<1>5. ASSUME NEW w \in Wrappers,
             (\E o \in Owners : SetHostCallHandler(w, o)) \/ ClearHostCallHandler(w)
      PROVE  PInv'
  BY <1>1, <1>5, HandlerPInv
<1>6. ASSUME NEW w \in Wrappers, Run(w) PROVE PInv'
  BY <1>1, <1>6, RunRefusedPInv, RunBeginsPInv, RunEndsPInv DEF Run
<1>7. ASSUME NEW answered \in BOOLEAN, HostCall(answered) PROVE PInv'
  BY <1>1, <1>7, HostCallPInv
<1>8. ASSUME ExecuteModule PROVE PInv'
  BY <1>1, <1>8, ExecuteRefusedPInv, ExecuteBeginsPInv, ExecuteEndsPInv DEF ExecuteModule
<1> QED BY <1>2, <1>3, <1>4, <1>5, <1>6, <1>7, <1>8 DEF Next

(* The invariant holds in every reachable state. *)
THEOREM ProvenanceInductive == Spec => []PInv
  BY InitPInv, NextPInv, PTL DEF Spec

(* What a wrapper hands out as its last execution is its own latest run,   *)
(* which succeeded, of the module it has loaded now; what is read from the *)
(* module is of the same run unless someone else ran the file since.       *)
THEOREM ResultsAreTheLatest == Spec => []ResultProvenance
<1>1. PInv => ResultProvenance
  <2>1. SUFFICES ASSUME PInv, NEW w \in Wrappers, session[w].last # NoRun
                 PROVE  LET r == session[w].last
                            f == session[w].handle
                        IN  /\ log[r].who = w /\ log[r].ok /\ log[r].file = f
                            /\ \A q \in (r + 1)..Len(log) : log[q].who # w
                            /\ dll[f].run # r => dll[f].run > r /\ log[dll[f].run].who # w
    BY DEF ResultProvenance
  <2> DEFINE r == session[w].last
             f == session[w].handle
  <2>2. /\ r \in 1..Len(log) /\ f \in Files
        /\ log[r].who = w /\ log[r].ok /\ log[r].file = f
        /\ \A q \in (r + 1)..Len(log) : log[q].who # w
        /\ dll[f].run >= r
    BY <2>1 DEF PInv, Remembers
  <2>3. dll[f].run \in Nat /\ dll[f].run <= Len(log) /\ Len(log) \in Nat
    BY <2>1, <2>2, HostAssumption DEF PInv, IInv, TypeOK, StaticsOfRuns
  <2> HIDE DEF r, f
  <2>4. dll[f].run # r => dll[f].run > r /\ dll[f].run \in (r + 1)..Len(log)
    BY <2>2, <2>3
  <2> QED BY <2>2, <2>4 DEF r, f
<1> QED BY <1>1, ProvenanceInductive, PTL
=============================================================================
