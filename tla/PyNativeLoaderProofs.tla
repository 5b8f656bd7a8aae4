------------------------- MODULE PyNativeLoaderProofs -------------------------
(***************************************************************************)
(* Theorems about PyNativeLoader, for any number of loaders and files and  *)
(* whatever the files contain.  Who holds the thunk that a module points   *)
(* to is not inductive: that another loader of the same file keeps it      *)
(* while one clears or binds needs to know which loader made it, and that  *)
(* this loader has not opened another file since.  Made says it.  Ordered  *)
(* adds in which order the thunks were made.                               *)
(***************************************************************************)
EXTENDS PyNativeLoader, TLAPS

\* The thunk a module points to is of its file, and its maker holds it or was collected.
Made(f) ==
  LET t == host[f]
  IN  t # None /\ ~MayRefuse(f, "bind") =>
        /\ thunks[t].file = f
        /\ t \in freed \/ loader[thunks[t].by] = Object(f, t)

IInv == TypeOK /\ \A f \in Files : Made(f)

LEMMA Separate ==
  /\ \A f \in Files : f # None
  /\ \A w \in Loaders : w # None
  /\ \A n \in Nat : n # None
BY LoaderAssumption

LEMMA ElementsOf ==
  ASSUME NEW S, NEW s \in Seq(S), NEW k \in 1..Len(s)
  PROVE  s[k] \in S
OBVIOUS

LEMMA LargerSet ==
  ASSUME NEW S, NEW T, S \subseteq T, NEW s \in Seq(S)
  PROVE  s \in Seq(T)
OBVIOUS

LEMMA LastAppended ==
  ASSUME NEW S, NEW s \in Seq(S), NEW e \in S
  PROVE  Append(s, e)[Len(Append(s, e))] = e
OBVIOUS

LEMMA Initially == Init => IInv
BY LoaderAssumption DEF Init, IInv, TypeOK, Made, NoObject, Object, Thunks

LEMMA MadeBy ==
  ASSUME TypeOK, NEW t \in Thunks
  PROVE  /\ t \in Nat /\ t # None
         /\ thunks[t].by \in Loaders /\ thunks[t].file \in Files
<1>1. Len(thunks) \in Nat /\ thunks \in Seq([by : Loaders, file : Files])
  BY DEF TypeOK
<1>2. t \in 1..Len(thunks)
  BY DEF Thunks
<1>3. thunks[t] \in [by : Loaders, file : Files]
  BY <1>1, <1>2, ElementsOf
<1>4. t \in Nat /\ t # None
  BY <1>1, <1>2, Separate
<1> QED
  BY <1>3, <1>4

\* What Made says of a file whose module has a host it accepted.
LEMMA HostMade ==
  ASSUME IInv, NEW f \in Files, host[f] # None, ~MayRefuse(f, "bind")
  PROVE  /\ host[f] \in Thunks /\ thunks[host[f]].by \in Loaders
         /\ thunks[host[f]].file = f
         /\ host[f] \in freed \/ loader[thunks[host[f]].by] = Object(f, host[f])
<1>1. host[f] \in Thunks
  BY DEF IInv, TypeOK
<1>2. thunks[host[f]].by \in Loaders
  BY <1>1, MadeBy DEF IInv
<1> QED
  BY <1>1, <1>2 DEF IInv, Made

LEMMA OpenKeeps ==
  ASSUME IInv, NEW w \in Loaders, NEW f \in Files, NEW requireAbi \in BOOLEAN,
         Open(w, f, requireAbi)
  PROVE  IInv'
<1>1. TypeOK'
  BY DEF Open, IInv, TypeOK, Object, Thunks
<1>2. ASSUME NEW g \in Files, host[g] # None, ~MayRefuse(g, "bind") PROVE Made(g)'
  <2> DEFINE t == host[g]
  <2>1. /\ t \in Thunks /\ thunks[t].by \in Loaders /\ thunks[t].file = g
        /\ t \in freed \/ loader[thunks[t].by] = Object(g, t)
    BY <1>2, HostMade
  <2>2. loader[w].file = None
    BY DEF Open, Alive
  <2>3. loader[thunks[t].by] = Object(g, t) => thunks[t].by # w
    BY <2>2, Separate DEF Object
  <2>4. loader[thunks[t].by] = Object(g, t) => loader'[thunks[t].by] = Object(g, t)
    BY <2>1, <2>3 DEF Open, IInv, TypeOK
  <2> QED
    BY <2>1, <2>4 DEF Open, Made
<1>3. ASSUME NEW g \in Files, ~(host[g] # None /\ ~MayRefuse(g, "bind")) PROVE Made(g)'
  BY <1>3 DEF Open, Made, MayRefuse
<1> QED BY <1>1, <1>2, <1>3 DEF IInv

LEMMA SetHostCallbackKeeps ==
  ASSUME IInv, NEW w \in Loaders, NEW accepted \in BOOLEAN, SetHostCallback(w, accepted)
  PROVE  IInv'
<1> DEFINE new == Len(thunks) + 1
           f   == loader[w].file
           made == [by |-> w, file |-> f]
<1>1. f \in Files
  BY DEF SetHostCallback, Alive, IInv, TypeOK
<1>2. /\ Len(thunks) \in Nat /\ thunks \in Seq([by : Loaders, file : Files])
      /\ made \in [by : Loaders, file : Files]
  BY <1>1 DEF IInv, TypeOK
<1>3. /\ thunks' = Append(thunks, made) /\ Len(thunks') = new
      /\ thunks' \in Seq([by : Loaders, file : Files])
      /\ \A t \in Thunks : thunks'[t] = thunks[t]
      /\ thunks'[new] = made
  BY <1>2 DEF SetHostCallback, Thunks
<1>4. Thunks' = 1..new /\ Thunks \subseteq Thunks' /\ new \in Thunks' /\ new \notin Thunks
  BY <1>2, <1>3 DEF Thunks
<1>5. /\ loader' = [loader EXCEPT ![w].thunk = new]
      /\ host' = IF accepted THEN [host EXCEPT ![f] = new] ELSE host
      /\ accepted \/ MayRefuse(f, "bind")
      /\ freed' = freed /\ ran' = ran /\ Len(thunks) < MaxThunks
  BY DEF SetHostCallback, Hold
<1> HIDE DEF made, new, f
<1>6. TypeOK'
  <2>1. loader' \in [Loaders -> [file : Files \cup {None}, thunk : Thunks' \cup {None}]]
    BY <1>4, <1>5 DEF IInv, TypeOK
  <2>2. host' \in [Files -> Thunks' \cup {None}]
    BY <1>1, <1>4, <1>5 DEF IInv, TypeOK
  <2>3. ran' \in Seq([by : Loaders, file : Files, thunk : Thunks' \cup {None}, ok : BOOLEAN])
    <3>1. ran \in Seq([by : Loaders, file : Files, thunk : Thunks \cup {None}, ok : BOOLEAN])
      BY DEF IInv, TypeOK
    <3>2. [by : Loaders, file : Files, thunk : Thunks \cup {None}, ok : BOOLEAN]
            \subseteq [by : Loaders, file : Files, thunk : Thunks' \cup {None}, ok : BOOLEAN]
      BY <1>4
    <3> QED BY <3>1, <3>2, <1>5, LargerSet
  <2>4. Len(thunks') <= MaxThunks
    BY <1>2, <1>3, <1>5, LoaderAssumption DEF new
  <2> QED
    BY <1>3, <1>4, <1>5, <2>1, <2>2, <2>3, <2>4 DEF IInv, TypeOK
<1>7. ASSUME NEW g \in Files, ~MayRefuse(g, "bind"), g = f PROVE Made(g)'
  <2>1. host'[g] = new
    BY <1>5, <1>7 DEF IInv, TypeOK
  <2>2. thunks'[new].file = g /\ thunks'[new].by = w
    BY <1>3, <1>7 DEF made
  <2>3. loader'[w] = Object(g, new)
    BY <1>5, <1>7 DEF IInv, TypeOK, Object, f
  <2> QED
    BY <2>1, <2>2, <2>3 DEF Made
<1>8. ASSUME NEW g \in Files, ~MayRefuse(g, "bind"), g # f, host[g] # None PROVE Made(g)'
  <2> DEFINE t == host[g]
  <2>1. /\ t \in Thunks /\ thunks[t].by \in Loaders /\ thunks[t].file = g
        /\ t \in freed \/ loader[thunks[t].by] = Object(g, t)
    BY <1>8, HostMade
  <2>2. host'[g] = t /\ thunks'[t] = thunks[t]
    BY <1>3, <1>5, <1>8, <2>1 DEF IInv, TypeOK
  <2>3. loader[thunks[t].by] = Object(g, t) => thunks[t].by # w
    BY <1>8 DEF Object, f
  <2>4. loader[thunks[t].by] = Object(g, t) => loader'[thunks[t].by] = Object(g, t)
    BY <1>5, <2>1, <2>3 DEF IInv, TypeOK
  <2> HIDE DEF t
  <2> QED
    BY <1>5, <2>1, <2>2, <2>4 DEF Made
<1>9. ASSUME NEW g \in Files, ~MayRefuse(g, "bind"), g # f, host[g] = None PROVE Made(g)'
  BY <1>5, <1>9 DEF Made, IInv, TypeOK
<1>10. ASSUME NEW g \in Files, MayRefuse(g, "bind") PROVE Made(g)'
  BY <1>10 DEF Made, MayRefuse
<1> QED BY <1>6, <1>7, <1>8, <1>9, <1>10 DEF IInv

LEMMA ClearHostCallbackKeeps ==
  ASSUME IInv, NEW w \in Loaders, NEW accepted \in BOOLEAN, ClearHostCallback(w, accepted)
  PROVE  IInv'
<1> DEFINE f == loader[w].file
<1>1. f \in Files
  BY DEF ClearHostCallback, Alive, IInv, TypeOK
<1>2. CASE ~accepted
  BY <1>2 DEF ClearHostCallback, IInv, TypeOK, Made, Thunks, MayRefuse
<1>3. CASE accepted
  <2>1. /\ host' = [host EXCEPT ![f] = None]
        /\ loader' = [loader EXCEPT ![w].thunk = None]
        /\ UNCHANGED <<thunks, freed, ran>>
    BY <1>3 DEF ClearHostCallback, Hold
  <2>2. TypeOK'
    BY <1>1, <2>1 DEF IInv, TypeOK, Thunks
  <2>3. ASSUME NEW g \in Files, g = f PROVE Made(g)'
    BY <1>1, <2>1, <2>3 DEF Made, IInv, TypeOK
  <2> HIDE DEF f
  <2>4. ASSUME NEW g \in Files, g # f, host[g] # None, ~MayRefuse(g, "bind") PROVE Made(g)'
    <3> DEFINE t == host[g]
    <3>1. /\ t \in Thunks /\ thunks[t].by \in Loaders /\ thunks[t].file = g
          /\ t \in freed \/ loader[thunks[t].by] = Object(g, t)
      BY <2>4, HostMade
    <3>2. host'[g] = t
      BY <2>1, <2>4 DEF IInv, TypeOK
    <3>3. loader[thunks[t].by] = Object(g, t) => thunks[t].by # w
      BY <2>4 DEF Object, f
    <3>4. loader[thunks[t].by] = Object(g, t) => loader'[thunks[t].by] = Object(g, t)
      BY <2>1, <3>1, <3>3 DEF IInv, TypeOK
    <3> HIDE DEF t
    <3> QED
      BY <2>1, <3>1, <3>2, <3>4 DEF Made
  <2>5. ASSUME NEW g \in Files, g # f, ~(host[g] # None /\ ~MayRefuse(g, "bind")) PROVE Made(g)'
    BY <2>1, <2>5 DEF Made, MayRefuse, IInv, TypeOK
  <2> QED BY <2>2, <2>3, <2>4, <2>5 DEF IInv
<1> QED BY <1>2, <1>3

LEMMA CollectKeeps ==
  ASSUME IInv, NEW w \in Loaders, Collect(w)
  PROVE  IInv'
<1>1. TypeOK'
  BY DEF Collect, IInv, TypeOK, NoObject, Object, Thunks
<1>2. ASSUME NEW g \in Files, host[g] # None, ~MayRefuse(g, "bind") PROVE Made(g)'
  <2> DEFINE t == host[g]
  <2>1. /\ t \in Thunks /\ thunks[t].by \in Loaders /\ thunks[t].file = g
        /\ t \in freed \/ loader[thunks[t].by] = Object(g, t)
    BY <1>2, HostMade
  <2>2. t \in freed => t \in freed'
    BY DEF Collect
  <2>3. loader[w] = Object(g, t) => t \in freed'
    BY <1>2 DEF Collect, Object
  <2>4. loader[thunks[t].by] = Object(g, t) /\ thunks[t].by # w
          => loader'[thunks[t].by] = Object(g, t)
    BY <2>1 DEF Collect, IInv, TypeOK
  <2>5. host' = host /\ thunks' = thunks
    BY DEF Collect
  <2> QED
    BY <2>1, <2>2, <2>3, <2>4, <2>5 DEF Made
<1>3. ASSUME NEW g \in Files, ~(host[g] # None /\ ~MayRefuse(g, "bind")) PROVE Made(g)'
  BY <1>3 DEF Collect, Made, MayRefuse
<1> QED BY <1>1, <1>2, <1>3 DEF IInv

LEMMA RunKeeps ==
  ASSUME IInv, NEW w \in Loaders, NEW ok \in BOOLEAN, Run(w, ok)
  PROVE  IInv'
<1> DEFINE Reports == [by : Loaders, file : Files, thunk : Thunks \cup {None}, ok : BOOLEAN]
           report == Report(w, loader[w].file, ok)
<1>1. loader[w].file \in Files
  BY DEF Run, Alive, IInv, TypeOK
<1>2. report \in Reports
  BY <1>1 DEF Report, IInv, TypeOK
<1>3. ran \in Seq(Reports) /\ Len(ran) \in Nat /\ Len(ran) < MaxRuns /\ ran' = Append(ran, report)
  BY DEF Run, IInv, TypeOK
<1>4. UNCHANGED <<host, loader, thunks, freed>> /\ Thunks' = Thunks
  BY DEF Run, Thunks
<1> HIDE DEF report
<1>5. ran' \in Seq(Reports) /\ Len(ran') <= MaxRuns
  BY <1>2, <1>3, LoaderAssumption
<1>6. TypeOK'
  BY <1>4, <1>5 DEF IInv, TypeOK
<1>7. \A g \in Files : Made(g)'
  BY <1>4 DEF IInv, Made, MayRefuse
<1> QED BY <1>6, <1>7 DEF IInv

(* The invariant of the proofs below: types, and every bound thunk with its maker. *)
THEOREM Inductive == Spec => []IInv
<1>1. IInv /\ [Next]_vars => IInv'
  <2> SUFFICES ASSUME IInv, [Next]_vars PROVE IInv'
    OBVIOUS
  <2>1. ASSUME NEW w \in Loaders, NEW f \in Files, NEW requireAbi \in BOOLEAN,
               Open(w, f, requireAbi)
        PROVE  IInv'
    BY <2>1, OpenKeeps
  <2>2. ASSUME NEW w \in Loaders, NEW accepted \in BOOLEAN, SetHostCallback(w, accepted)
        PROVE  IInv'
    BY <2>2, SetHostCallbackKeeps
  <2>3. ASSUME NEW w \in Loaders, NEW accepted \in BOOLEAN, ClearHostCallback(w, accepted)
        PROVE  IInv'
    BY <2>3, ClearHostCallbackKeeps
  <2>4. ASSUME NEW w \in Loaders, Collect(w) PROVE IInv'
    BY <2>4, CollectKeeps
  <2>5. ASSUME NEW w \in Loaders, NEW ok \in BOOLEAN, Run(w, ok) PROVE IInv'
    BY <2>5, RunKeeps
  <2>6. CASE UNCHANGED vars
    BY <2>6 DEF vars, IInv, TypeOK, Made, Thunks, MayRefuse
  <2> QED
    BY <2>1, <2>2, <2>3, <2>4, <2>5, <2>6 DEF Next
<1> QED BY Initially, <1>1, PTL DEF Spec

----------------------------------------------------------------------------
(* Type correctness, for any number of loaders, files, thunks and runs. *)
THEOREM LoaderTypeCorrect == Spec => []TypeOK
<1>1. IInv => TypeOK
  BY DEF IInv
<1> QED BY <1>1, Inductive, PTL

(* The thunk that a module points to is held by a loader, unless the module  *)
(* refuses hosts or the loader that made the thunk was collected.            *)
THEOREM ThunksAreHeld == Spec => []BoundThunkIsHeld
<1>1. ASSUME IInv PROVE BoundThunkIsHeld
  <2> SUFFICES ASSUME NEW f \in Files, host[f] # None, ~MayRefuse(f, "bind")
               PROVE  Held(host[f]) \/ host[f] \in freed
    BY DEF BoundThunkIsHeld
  <2>1. /\ thunks[host[f]].by \in Loaders
        /\ host[f] \in freed \/ loader[thunks[host[f]].by] = Object(f, host[f])
    BY <1>1, HostMade
  <2> QED
    BY <2>1 DEF Held, Object
<1> QED BY <1>1, Inductive, PTL

\* What a run adds to the history.
LEMMA RunReports ==
  ASSUME IInv, NEW w \in Loaders, NEW ok \in BOOLEAN, Run(w, ok)
  PROVE  ran'[Len(ran')] = Report(w, loader[w].file, ok)
<1> DEFINE Reports == [by : Loaders, file : Files, thunk : Thunks \cup {None}, ok : BOOLEAN]
           r == Report(w, loader[w].file, ok)
<1>1. ran' = Append(ran, r)
  BY DEF Run
<1>2. ran \in Seq(Reports) /\ r \in Reports
  BY DEF Run, Alive, IInv, TypeOK, Report
<1> HIDE DEF r, Reports
<1>3. ran'[Len(ran')] = r
  BY <1>1, <1>2, LastAppended
<1> QED BY <1>3 DEF r

(* A successful run that calls its host, by a loader that is alone with its  *)
(* module, is answered by the callback this loader holds.                    *)
THEOREM RunnersAnswer == Spec => AnsweredByTheRunner
<1>1. ASSUME IInv, Next, ran' # ran
      PROVE  LET r == ran'[Len(ran')]
             IN  r.ok /\ Module[r.file].callsHost /\ Alone(r.by) /\ ~MayRefuse(r.file, "bind") =>
                   r.thunk # None /\ r.thunk = loader[r.by].thunk
  <2>1. PICK w \in Loaders, ok \in BOOLEAN : Run(w, ok)
    BY <1>1 DEF Next, Open, SetHostCallback, ClearHostCallback, Collect
  <2> DEFINE f == loader[w].file
             r == Report(w, f, ok)
  <2>2. f \in Files /\ f = loader[w].file
    BY <1>1, <2>1 DEF Run, Alive, IInv, TypeOK
  <2>3. ran'[Len(ran')] = r
    BY <1>1, <2>1, RunReports
  <2>4. r.by = w /\ r.file = f /\ r.thunk = host[f] /\ r.ok = ok
    BY DEF Report
  <2>5. ASSUME ok, Module[f].callsHost, Alone(w), ~MayRefuse(f, "bind")
        PROVE  host[f] # None /\ host[f] = loader[w].thunk
    <3>1. host[f] # None
      BY <2>1, <2>5 DEF Run
    <3>2. /\ host[f] \in Thunks /\ thunks[host[f]].file = f
          /\ host[f] \in freed \/ loader[thunks[host[f]].by] = Object(f, host[f])
      BY <1>1, <2>2, <2>5, <3>1, HostMade
    <3>3. thunks[host[f]].by = w /\ host[f] \notin freed
      BY <2>5, <3>2 DEF Alone
    <3> QED
      BY <3>1, <3>2, <3>3 DEF Object
  <2> HIDE DEF r, f
  <2> QED
    BY <2>3, <2>4, <2>5
<1>2. IInv /\ [Next]_vars => [ran' # ran =>
       LET r == ran'[Len(ran')]
       IN  r.ok /\ Module[r.file].callsHost /\ Alone(r.by) /\ ~MayRefuse(r.file, "bind") =>
             r.thunk # None /\ r.thunk = loader[r.by].thunk]_vars
  BY <1>1 DEF vars
<1> QED BY <1>2, Inductive, PTL DEF Spec, AnsweredByTheRunner

----------------------------------------------------------------------------
(* The order of the thunks. *)

\* What a loader holds is the newest thunk it made.
Newest(w) ==
  loader[w].thunk # None =>
    \A t \in Thunks : thunks[t].by = w => t <= loader[w].thunk

\* What a module points to is no older than what a loader of its file holds.
NotOlder(f, w) ==
  host[f] # None /\ ~MayRefuse(f, "bind") /\ loader[w].file = f /\ loader[w].thunk # None =>
    loader[w].thunk <= host[f]

Ordered == \A w \in Loaders : Newest(w) /\ \A f \in Files : NotOlder(f, w)

LEMMA SetHostCallbackOrders ==
  ASSUME IInv, Ordered, NEW w \in Loaders, NEW accepted \in BOOLEAN, SetHostCallback(w, accepted)
  PROVE  Ordered'
<1> DEFINE new == Len(thunks) + 1
           f   == loader[w].file
<1>1. /\ f \in Files /\ Len(thunks) \in Nat
      /\ thunks \in Seq([by : Loaders, file : Files])
      /\ thunks' = Append(thunks, [by |-> w, file |-> f])
      /\ loader' = [loader EXCEPT ![w].thunk = new]
      /\ host' = IF accepted THEN [host EXCEPT ![f] = new] ELSE host
      /\ accepted \/ MayRefuse(f, "bind")
  BY DEF SetHostCallback, Hold, Alive, IInv, TypeOK
<1>2. /\ Thunks' = Thunks \cup {new}
      /\ \A t \in Thunks : thunks'[t] = thunks[t] /\ t \in Nat /\ t < new
      /\ thunks'[new] = [by |-> w, file |-> f]
  BY <1>1 DEF Thunks
<1>3. \A v \in Loaders :
        /\ loader'[v].file = loader[v].file
        /\ loader'[v].thunk = IF v = w THEN new ELSE loader[v].thunk
        /\ loader[v].thunk \in Thunks \cup {None}
  BY <1>1 DEF IInv, TypeOK
<1>4. \A g \in Files : /\ host'[g] = IF g = f /\ accepted THEN new ELSE host[g]
                       /\ host[g] \in Thunks \cup {None}
  BY <1>1 DEF IInv, TypeOK
<1>5. new \in Nat
  BY <1>1
<1> HIDE DEF new, f
<1>6. ASSUME NEW v \in Loaders PROVE Newest(v)'
  <2>1. CASE v = w
    BY <1>2, <1>3, <1>5, <2>1 DEF Newest
  <2>2. CASE v # w
    <3>1. loader'[v].thunk = loader[v].thunk /\ thunks'[new].by # v
      BY <1>2, <1>3, <2>2
    <3> QED BY <1>2, <3>1 DEF Newest, Ordered
  <2> QED BY <2>1, <2>2
<1>7. ASSUME NEW v \in Loaders, NEW g \in Files PROVE NotOlder(g, v)'
  <2>1. CASE g = f
    BY <1>1, <1>2, <1>3, <1>4, <1>5, <2>1 DEF NotOlder, MayRefuse
  <2>2. CASE g # f
    <3>1. CASE v = w
      BY <1>3, <2>2, <3>1 DEF NotOlder, f
    <3>2. CASE v # w
      BY <1>3, <1>4, <2>2, <3>2 DEF NotOlder, Ordered, MayRefuse
    <3> QED BY <3>1, <3>2
  <2> QED BY <2>1, <2>2
<1> QED BY <1>6, <1>7 DEF Ordered

\* The other steps make no thunk, bind none and take none up.
LEMMA OthersOrder ==
  ASSUME IInv, Ordered, thunks' = thunks,
         \A w \in Loaders : loader'[w] = loader[w] \/ loader'[w].thunk = None,
         \A f \in Files : host'[f] \in {host[f], None}
  PROVE  Ordered'
<1>1. Thunks' = Thunks
  BY DEF Thunks
<1>2. ASSUME NEW w \in Loaders PROVE Newest(w)'
  BY <1>1 DEF Ordered, Newest
<1>3. ASSUME NEW w \in Loaders, NEW f \in Files PROVE NotOlder(f, w)'
  BY DEF Ordered, NotOlder, MayRefuse
<1> QED BY <1>2, <1>3 DEF Ordered

(* A loader holds the newest thunk it made, and a module that takes every host *)
(* points to none older than what a loader of its file holds.                  *)
THEOREM NewestBound == Spec => []Ordered
<1>1. Init => Ordered
  <2> SUFFICES ASSUME Init, NEW w \in Loaders
               PROVE  Newest(w) /\ \A f \in Files : NotOlder(f, w)
    BY DEF Ordered
  <2>1. loader[w] = NoObject
    BY DEF Init
  <2>2. loader[w].thunk = None
    BY <2>1 DEF NoObject, Object
  <2> QED BY <2>2 DEF Newest, NotOlder
<1>2. IInv /\ Ordered /\ [Next]_vars => Ordered'
  <2> SUFFICES ASSUME IInv, Ordered, [Next]_vars PROVE Ordered'
    OBVIOUS
  <2>1. ASSUME NEW w \in Loaders, NEW f \in Files, NEW requireAbi \in BOOLEAN,
               Open(w, f, requireAbi)
        PROVE  Ordered'
    BY <2>1, OthersOrder DEF Open, Object, IInv, TypeOK
  <2>2. ASSUME NEW w \in Loaders, NEW accepted \in BOOLEAN, SetHostCallback(w, accepted)
        PROVE  Ordered'
    BY <2>2, SetHostCallbackOrders
  <2>3. ASSUME NEW w \in Loaders, NEW accepted \in BOOLEAN, ClearHostCallback(w, accepted)
        PROVE  Ordered'
    BY <2>3, OthersOrder DEF ClearHostCallback, Hold, IInv, TypeOK
  <2>4. ASSUME NEW w \in Loaders, Collect(w) PROVE Ordered'
    BY <2>4, OthersOrder DEF Collect, NoObject, Object, IInv, TypeOK
  <2>5. ASSUME NEW w \in Loaders, NEW ok \in BOOLEAN, Run(w, ok) PROVE Ordered'
    BY <2>5, OthersOrder DEF Run
  <2>6. CASE UNCHANGED vars
    BY <2>6, OthersOrder DEF vars
  <2> QED
    BY <2>1, <2>2, <2>3, <2>4, <2>5, <2>6 DEF Next
<1> QED BY <1>1, <1>2, Inductive, PTL DEF Spec

(* However many loaders share a file, a loader that holds a callback is answered *)
(* by it or by one that another loader bound later, never by an older one.       *)
THEOREM AnswersAreNewest == Spec => NeverAnsweredByOlder
<1> DEFINE Holds(r, own) ==
      r.ok /\ Module[r.file].callsHost /\ ~MayRefuse(r.file, "bind") /\ own # None =>
        r.thunk # None /\ (r.thunk = own \/ (r.thunk > own /\ thunks[r.thunk].by # r.by))
<1>1. ASSUME IInv, Ordered, NEW w \in Loaders, NEW ok \in BOOLEAN, Run(w, ok)
      PROVE  Holds(ran'[Len(ran')], loader[ran'[Len(ran')].by].thunk)
  <2> DEFINE f   == loader[w].file
             own == loader[w].thunk
             t   == host[f]
  <2>1. f \in Files /\ t \in Thunks \cup {None} /\ own \in Thunks \cup {None}
    BY <1>1 DEF Run, Alive, IInv, TypeOK
  <2>2. ran'[Len(ran')] = Report(w, f, ok)
    BY <1>1, RunReports
  <2>3. ASSUME ok, Module[f].callsHost, ~MayRefuse(f, "bind"), own # None
        PROVE  t # None /\ (t = own \/ (t > own /\ thunks[t].by # w))
    <3>1. t # None
      BY <1>1, <2>3 DEF Run
    <3>2. own <= t
      BY <1>1, <2>1, <2>3, <3>1 DEF Ordered, NotOlder
    <3>3. \A u \in Thunks : u \in Nat
      BY <1>1 DEF Thunks, IInv, TypeOK
    <3>4. thunks[t].by = w => t <= own
      BY <1>1, <2>1, <2>3, <3>1 DEF Ordered, Newest
    <3> QED BY <2>1, <2>3, <3>1, <3>2, <3>3, <3>4
  <2> HIDE DEF f, t, own
  <2> QED BY <2>2, <2>3 DEF Report, f, t, own
<1>2. ASSUME IInv, Ordered, Next, ran' # ran
      PROVE  Holds(ran'[Len(ran')], loader[ran'[Len(ran')].by].thunk)
  <2>1. PICK w \in Loaders, ok \in BOOLEAN : Run(w, ok)
    BY <1>2 DEF Next, Open, SetHostCallback, ClearHostCallback, Collect
  <2> QED BY <1>1, <1>2, <2>1
<1>3. IInv /\ Ordered /\ [Next]_vars =>
        [ran' # ran => LET r   == ran'[Len(ran')]
                           own == loader[r.by].thunk
                       IN  Holds(r, own)]_vars
  BY <1>2 DEF vars
<1> QED BY <1>3, Inductive, NewestBound, PTL DEF Spec, NeverAnsweredByOlder
=============================================================================
