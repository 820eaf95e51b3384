-------------------------- MODULE DaemonSocketProofs --------------------------
(***************************************************************************)
(* Proofs about DaemonSocket for any set of daemons: as long as they are   *)
(* started one at a time (~overlapped), what create_daemon_listener        *)
(* promises holds, whenever daemons stop.  When starts overlap it does     *)
(* not, as TLC shows (run socket_stolen), except for SocketTypes.          *)
(***************************************************************************)
EXTENDS DaemonSocket, TLAPS

\* The types of what the code has.
SocketsOK ==
  /\ path \in Daemon \cup {NoFile, StaleFile}
  /\ pc \in [Daemon -> Step]
  /\ listening = {d \in Daemon : pc[d] \in Owning}

\* At most one daemon is starting.
OneStarts == \A d, e \in Daemon : pc[d] \in Starting /\ pc[e] \in Starting => d = e

\* What the daemon that starts knows of the path at each step.  Nobody else
\* changes the path, so it knows it until its next step; a socket that was found
\* dead stays dead.
StarterKnows ==
  \A d \in Daemon :
    /\ pc[d] \in {"probe_exists", "connect", "remove"} => path # NoFile
    /\ pc[d] = "remove" => path \notin listening
    /\ pc[d] = "bind" => path = NoFile
    /\ pc[d] = "listen" => path = d
    /\ pc[d] \notin {"wait_exists", "wait_connect", "wait_deadline"}

\* What holds until two starts overlap.
OwnersKnown == \A d \in Daemon : pc[d] \in Owning => path = d /\ d \in listening
SInv == SocketsOK /\ OneStarts /\ OwnersKnown /\ StarterKnows

\* The inductive invariant.
LoneInv == overlapped \in BOOLEAN /\ (~overlapped => SInv)

\* At first no daemon starts and nobody listens.
LEMMA InitSInv == Init => SInv
BY PathAssumption
   DEF Init, SInv, SocketsOK, OneStarts, OwnersKnown, StarterKnows, Step, Starting, Owning

\* A step of the daemon d that only moves d along.
LEMMA GotoFacts ==
  ASSUME SocketsOK, NEW d \in Daemon, NEW step \in Step, Goto(d, step)
  PROVE  /\ pc' \in [Daemon -> Step]
         /\ pc'[d] = step
         /\ \A e \in Daemon : e # d => pc'[e] = pc[e]
BY DEF SocketsOK, Goto

\* A start begins only when no other one is under way, and knows nothing yet.
LEMMA LaunchKeeps ==
  ASSUME ~overlapped', SInv, NEW d \in Daemon, Launch(d)
  PROVE  SInv'
<1>1. /\ pc' \in [Daemon -> Step]
      /\ pc[d] = "off" /\ pc'[d] = "exists"
      /\ \A e \in Daemon : e # d => pc'[e] = pc[e]
      /\ UNCHANGED <<path, listening>>
      /\ \A e \in Daemon : pc[e] \notin Starting
  <2>1. "exists" \in Step
    BY DEF Step, Starting
  <2>2. QED BY <2>1, GotoFacts DEF Launch, SInv
<1>2. SocketsOK'
  BY <1>1 DEF SInv, SocketsOK, Owning
<1>3. OneStarts'
  BY <1>1 DEF OneStarts
<1>4. OwnersKnown'
  BY <1>1 DEF SInv, OwnersKnown, Owning
<1>5. StarterKnows'
  BY <1>1 DEF SInv, StarterKnows
<1>6. QED BY <1>2, <1>3, <1>4, <1>5 DEF SInv

\* A starting daemon takes a step that leaves the path and the sockets alone.
LEMMA QuietStepKeeps ==
  ASSUME SInv, NEW d \in Daemon, NEW step \in Step, Goto(d, step),
         UNCHANGED <<path, listening>>,
         pc[d] \in Starting, step \notin Owning,
         step \in {"probe_exists", "connect", "remove"} => path # NoFile,
         step = "remove" => path \notin listening,
         step = "bind" => path = NoFile,
         step \notin {"listen", "wait_exists", "wait_connect", "wait_deadline"}
  PROVE  SInv'
<1>1. /\ pc' \in [Daemon -> Step]
      /\ pc'[d] = step
      /\ \A e \in Daemon : e # d => pc'[e] = pc[e]
  BY GotoFacts DEF SInv
<1>2. pc[d] \notin Owning
  BY DEF Starting, Owning
<1>3. SocketsOK'
  BY <1>1, <1>2 DEF SInv, SocketsOK
<1>4. OneStarts'
  BY <1>1 DEF SInv, OneStarts
<1>5. OwnersKnown'
  BY <1>1 DEF SInv, OwnersKnown
<1>6. StarterKnows'
  BY <1>1 DEF SInv, StarterKnows
<1>7. QED BY <1>3, <1>4, <1>5, <1>6 DEF SInv

\* What the probe learns of the path is what the starter knows afterwards.
LEMMA ProbingKeeps ==
  ASSUME SInv, NEW d \in Daemon, PathExists(d) \/ ProbeExists(d) \/ Connect(d)
  PROVE  SInv'
<1>1. CASE PathExists(d)
  <2>1. PICK step \in {"bind", "probe_exists"} :
          Goto(d, step) /\ (step = "bind" <=> path = NoFile)
    BY <1>1 DEF PathExists
  <2>2. step \in Step /\ step \notin Owning /\ pc[d] \in Starting
    BY <1>1 DEF PathExists, Step, Starting, Owning
  <2>3. UNCHANGED <<path, listening>>
    BY <1>1 DEF PathExists
  <2>4. QED BY <2>1, <2>2, <2>3, QuietStepKeeps
<1>2. CASE ProbeExists(d)
  <2>1. PICK step \in {"bind", "connect"} :
          Goto(d, step) /\ (step = "bind" <=> path = NoFile)
    BY <1>2 DEF ProbeExists
  <2>2. step \in Step /\ step \notin Owning /\ pc[d] \in Starting
    BY <1>2 DEF ProbeExists, Step, Starting, Owning
  <2>3. UNCHANGED <<path, listening>>
    BY <1>2 DEF ProbeExists
  <2>4. QED BY <2>1, <2>2, <2>3, QuietStepKeeps
<1>3. CASE Connect(d)
  <2>1. PICK step \in {"exited", "remove"} :
          Goto(d, step) /\ (step = "exited" <=> path \in listening)
    BY <1>3 DEF Connect, Live
  <2>2. step \in Step /\ step \notin Owning /\ pc[d] \in Starting
    BY <1>3 DEF Connect, Step, Starting, Owning
  <2>3. UNCHANGED <<path, listening>> /\ path # NoFile
    BY <1>3 DEF Connect, SInv, StarterKnows
  <2>4. QED BY <2>1, <2>2, <2>3, QuietStepKeeps
<1>4. QED BY <1>1, <1>2, <1>3

\* The socket that is removed belongs to nobody who listens, so nobody owns one.
LEMMA RemoveKeeps ==
  ASSUME SInv, NEW d \in Daemon, Remove(d)
  PROVE  SInv'
<1>1. path # NoFile /\ path \notin listening /\ pc[d] = "remove"
  BY DEF Remove, SInv, StarterKnows
<1>2. /\ pc' \in [Daemon -> Step]
      /\ pc'[d] = "bind" /\ path' = NoFile /\ listening' = listening
      /\ \A e \in Daemon : e # d => pc'[e] = pc[e]
  <2>1. "bind" \in Step
    BY DEF Step, Starting
  <2>2. Goto(d, "bind") /\ path' = NoFile /\ listening' = listening
    BY <1>1 DEF Remove
  <2>3. QED BY <2>1, <2>2, GotoFacts DEF SInv
<1>3. \A e \in Daemon : pc[e] \notin Owning
  BY <1>1 DEF SInv, OwnersKnown
<1>4. \A e \in Daemon : e # d => pc[e] \notin Starting
  BY <1>1 DEF SInv, OneStarts, Starting
<1>5. SocketsOK'
  BY <1>1, <1>2, <1>3 DEF SInv, SocketsOK, Owning
<1>6. OneStarts'
  BY <1>2, <1>4 DEF OneStarts
<1>7. OwnersKnown'
  BY <1>2, <1>3 DEF OwnersKnown, Owning
<1>8. StarterKnows'
  BY <1>2, <1>4 DEF StarterKnows, Starting
<1>9. QED BY <1>5, <1>6, <1>7, <1>8 DEF SInv

\* The path is free when the starter binds, so bind(2) never finds it in use.
LEMMA BindKeeps ==
  ASSUME SInv, NEW d \in Daemon, Bind(d)
  PROVE  SInv'
<1>1. path = NoFile /\ pc[d] = "bind"
  BY DEF Bind, SInv, StarterKnows
<1>2. /\ pc' \in [Daemon -> Step]
      /\ pc'[d] = "listen" /\ path' = d /\ listening' = listening
      /\ \A e \in Daemon : e # d => pc'[e] = pc[e]
  <2>1. "listen" \in Step
    BY DEF Step, Starting
  <2>2. Goto(d, "listen") /\ path' = d /\ listening' = listening
    BY <1>1 DEF Bind
  <2>3. QED BY <2>1, <2>2, GotoFacts DEF SInv
<1>3. \A e \in Daemon : pc[e] \notin Owning
  BY <1>1, PathAssumption DEF SInv, OwnersKnown
<1>4. \A e \in Daemon : e # d => pc[e] \notin Starting
  BY <1>1 DEF SInv, OneStarts, Starting
<1>5. SocketsOK'
  BY <1>1, <1>2, <1>3 DEF SInv, SocketsOK, Owning
<1>6. OneStarts'
  BY <1>2, <1>4 DEF OneStarts
<1>7. OwnersKnown'
  BY <1>2, <1>3 DEF OwnersKnown, Owning
<1>8. StarterKnows'
  BY <1>2, <1>4 DEF StarterKnows, Starting
<1>9. QED BY <1>5, <1>6, <1>7, <1>8 DEF SInv

\* The path is still the starter's own when it listens.
LEMMA ListenKeeps ==
  ASSUME SInv, NEW d \in Daemon, Listen(d)
  PROVE  SInv'
<1>1. path = d /\ pc[d] = "listen"
  BY DEF Listen, SInv, StarterKnows
<1>2. /\ pc' \in [Daemon -> Step]
      /\ pc'[d] = "build" /\ path' = path /\ listening' = listening \cup {d}
      /\ \A e \in Daemon : e # d => pc'[e] = pc[e]
  <2>1. "build" \in Step
    BY DEF Step, Owning
  <2>2. Goto(d, "build") /\ path' = path /\ listening' = listening \cup {d}
    BY DEF Listen
  <2>3. QED BY <2>1, <2>2, GotoFacts DEF SInv
<1>3. \A e \in Daemon : e # d => pc[e] \notin Starting
  BY <1>1 DEF SInv, OneStarts, Starting
<1>4. SocketsOK'
  BY <1>2 DEF SInv, SocketsOK, Owning
<1>5. OneStarts'
  BY <1>2, <1>3 DEF OneStarts, Starting
<1>6. OwnersKnown'
  BY <1>1, <1>2 DEF SInv, OwnersKnown
<1>7. StarterKnows'
  BY <1>2, <1>3 DEF StarterKnows, Starting
<1>8. QED BY <1>4, <1>5, <1>6, <1>7 DEF SInv

\* Filling the pool, or the end of an owner, takes nothing from the starter.
LEMMA OwnerStepsKeep ==
  ASSUME SInv, NEW d \in Daemon, Build(d) \/ Stop(d)
  PROVE  SInv'
<1>1. PICK step \in {"serving", "exited"} :
        /\ Goto(d, step)
        /\ pc[d] \in Owning
        /\ path' = path
        /\ listening' = IF step = "exited" THEN listening \ {d} ELSE listening
  BY DEF Build, Stop, Owning
<1>2. /\ pc' \in [Daemon -> Step]
      /\ pc'[d] = step
      /\ \A e \in Daemon : e # d => pc'[e] = pc[e]
  <2>1. step \in Step
    BY DEF Step, Owning
  <2>2. QED BY <1>1, <2>1, GotoFacts DEF SInv
<1>3. SocketsOK'
  BY <1>1, <1>2 DEF SInv, SocketsOK, Owning
<1>4. OneStarts'
  BY <1>2 DEF SInv, OneStarts, Starting
<1>5. OwnersKnown'
  BY <1>1, <1>2 DEF SInv, OwnersKnown, Owning
<1>6. StarterKnows'
  BY <1>1, <1>2 DEF SInv, StarterKnows
<1>7. QED BY <1>3, <1>4, <1>5, <1>6 DEF SInv

\* Nobody ever waits: with one start at a time the path is free at bind.
LEMMA NoWait ==
  ASSUME SInv, NEW d \in Daemon
  PROVE  ~(WaitExists(d) \/ WaitConnect(d) \/ WaitTimesOut(d) \/ WaitAgain(d))
BY DEF SInv, StarterKnows, WaitExists, WaitConnect, WaitTimesOut, WaitAgain

\* Each step of each daemon keeps the invariant.
LEMMA NextKeepsSInv ==
  ASSUME ~overlapped', SInv, [Next]_vars
  PROVE  SInv'
<1>1. CASE UNCHANGED vars
  BY <1>1 DEF vars, SInv, SocketsOK, OneStarts, OwnersKnown, StarterKnows
<1>2. ASSUME NEW d \in Daemon, Launch(d) \/ Progress(d) \/ WaitAgain(d) \/ Stop(d)
      PROVE  SInv'
  BY <1>2, LaunchKeeps, ProbingKeeps, RemoveKeeps, BindKeeps, ListenKeeps, OwnerStepsKeep,
     NoWait DEF Progress
<1>3. QED BY <1>1, <1>2 DEF Next

\* Starts that have overlapped have overlapped for ever.
LEMMA OverlapStays ==
  ASSUME overlapped \in BOOLEAN, [Next]_vars
  PROVE  overlapped' \in BOOLEAN /\ (overlapped => overlapped')
BY DEF Next, vars, Launch, Progress, PathExists, ProbeExists, Connect, Remove, Bind, Listen,
   WaitExists, WaitConnect, WaitTimesOut, WaitAgain, Build, Stop

\* The invariant behind the three theorems below.
THEOREM SocketInvariance == Spec => []LoneInv
<1>1. Init => LoneInv
  BY InitSInv DEF LoneInv, Init
<1>2. LoneInv /\ [Next]_vars => LoneInv'
  <2> SUFFICES ASSUME LoneInv, [Next]_vars, ~overlapped'
               PROVE  SInv'
    BY OverlapStays DEF LoneInv
  <2>1. ~overlapped
    BY OverlapStays DEF LoneInv
  <2>2. QED BY <2>1, NextKeepsSInv DEF LoneInv
<1>3. QED BY <1>1, <1>2, PTL DEF Spec

-----------------------------------------------------------------------------
\* Of daemons that are started one at a time, the one that owns a listener is
\* the one at the socket path; so there is at most one.
THEOREM OwnersAreReachable == Spec => []OwnersReachable
<1>1. LoneInv => OwnersReachable
  BY DEF LoneInv, SInv, OwnersKnown, OwnersReachable
<1>2. QED BY <1>1, SocketInvariance, PTL

\* A start takes the path from no daemon that accepts connections.
THEOREM LiveSocketsArePreserved == Spec => LoneStartPreservesLive
<1>1. ASSUME LoneInv, [Next]_vars
      PROVE  [~overlapped' => PreservesLive]_vars
  <2>1. SUFFICES ASSUME ~overlapped'  PROVE PreservesLive
    OBVIOUS
  <2>2. SUFFICES ASSUME NEW d \in Daemon, path = d, d \in listening, path' # path
                 PROVE  FALSE
    BY DEF PreservesLive
  <2>3. SInv
    BY <1>1, <2>1, OverlapStays DEF LoneInv
  <2>4. PICK e \in Daemon : Remove(e) \/ Bind(e)
    BY <1>1, <2>2 DEF Next, vars, Launch, Progress, PathExists, ProbeExists, Connect, Listen,
       WaitExists, WaitConnect, WaitTimesOut, WaitAgain, Build, Stop
  <2>5. CASE Remove(e)
    BY <2>3, <2>2, <2>5 DEF SInv, StarterKnows, Remove
  <2>6. CASE Bind(e)
    BY <2>3, <2>2, <2>6, PathAssumption DEF SInv, StarterKnows, Bind
  <2>7. QED BY <2>4, <2>5, <2>6
<1>2. QED BY <1>1, SocketInvariance, PTL DEF Spec, LoneStartPreservesLive

\* A start that fails found another daemon alive.
THEOREM RefusalsAreJustified == Spec => RefusedOnlyIfLive
<1>1. ASSUME LoneInv, [Next]_vars
      PROVE  [\A d \in Daemon : ~overlapped' /\ pc[d] \in Starting /\ pc'[d] = "exited" =>
                \E e \in Daemon \ {d} : e \in listening]_vars
  <2>1. SUFFICES ASSUME NEW d \in Daemon, ~overlapped', pc[d] \in Starting, pc'[d] = "exited"
                 PROVE  \E e \in Daemon \ {d} : e \in listening
    OBVIOUS
  <2>2. SInv
    BY <1>1, <2>1, OverlapStays DEF LoneInv
  <2>3. pc[d] # "exited" /\ pc[d] \notin Owning
    BY <2>1 DEF Starting, Owning
  <2>4. PICK e \in Daemon : Launch(e) \/ Progress(e) \/ WaitAgain(e) \/ Stop(e)
    BY <1>1, <2>1, <2>3 DEF Next, vars
  <2>5. e = d
    BY <2>2, <2>1, <2>3, <2>4 DEF SInv, SocketsOK, Goto, Launch, Progress, PathExists, ProbeExists,
       Connect, Remove, Bind, Listen, WaitExists, WaitConnect, WaitTimesOut, WaitAgain, Build, Stop
  <2>6. Connect(d) /\ path \in listening
    <3>1. \A step \in Step : Goto(d, step) => step = "exited"
      BY <2>2, <2>1, GotoFacts DEF SInv
    <3>2. ~Launch(d) /\ ~Build(d) /\ ~Stop(d)
      BY <2>1, <2>3 DEF Launch, Build, Stop, Starting, Owning
    <3>3. /\ ~PathExists(d) /\ ~ProbeExists(d)
          /\ ~Listen(d)
      BY <3>1 DEF PathExists, ProbeExists, Listen, Step, Starting, Owning
    <3>4. ~Remove(d)
      BY <2>2, <3>1 DEF Remove, SInv, StarterKnows, Step, Starting
    <3>5. ~Bind(d)
      BY <2>2, <3>1 DEF Bind, Step, Starting
    <3>6. Connect(d)
      BY <2>2, <2>4, <2>5, <3>2, <3>3, <3>4, <3>5, NoWait DEF Progress
    <3>7. QED BY <3>1, <3>6 DEF Connect, Live, Step, Starting
  <2>7. path \in Daemon /\ path # d
    BY <2>2, <2>3, <2>6 DEF SInv, SocketsOK
  <2>8. QED BY <2>6, <2>7
<1>2. QED BY <1>1, SocketInvariance, PTL DEF Spec, RefusedOnlyIfLive

-----------------------------------------------------------------------------
\* However starts and stops interleave, a listener lives exactly as long as its
\* owner: neither a refused start nor a removed path closes or leaks one.
THEOREM SocketTypes == Spec => []TypeOK
<1>1. Init => SocketsOK /\ overlapped \in BOOLEAN
  BY DEF Init, SocketsOK, Step, Owning
<1>2. SocketsOK /\ [Next]_vars => SocketsOK'
  <2> SUFFICES ASSUME SocketsOK, [Next]_vars  PROVE SocketsOK'
    OBVIOUS
  <2>1. ASSUME NEW d \in Daemon, NEW step \in Step, Goto(d, step), pc[d] \notin Owning,
               step \notin Owning, path' \in Daemon \cup {NoFile, StaleFile},
               listening' = listening
        PROVE  SocketsOK'
    BY <2>1, GotoFacts DEF SocketsOK
  <2>2. ASSUME NEW d \in Daemon, Launch(d) \/ PathExists(d) \/ ProbeExists(d)  PROVE SocketsOK'
    <3>1. PICK step \in {"exists", "bind", "probe_exists", "connect"} : Goto(d, step)
      BY <2>2 DEF Launch, PathExists, ProbeExists
    <3>2. step \in Step /\ step \notin Owning /\ pc[d] \notin Owning
      BY <2>2 DEF Launch, PathExists, ProbeExists, Step, Starting, Owning
    <3> QED BY <2>1, <2>2, <3>1, <3>2 DEF Launch, PathExists, ProbeExists, SocketsOK
  <2>3. ASSUME NEW d \in Daemon, Connect(d) \/ Remove(d) \/ Bind(d)  PROVE SocketsOK'
    <3>1. PICK step \in {"exited", "remove", "bind", "listen", "wait_exists"} : Goto(d, step)
      BY <2>3 DEF Connect, Remove, Bind
    <3>2. step \in Step /\ step \notin Owning /\ pc[d] \notin Owning
      BY <2>3 DEF Connect, Remove, Bind, Step, Starting, Owning
    <3>3. path' \in Daemon \cup {NoFile, StaleFile} /\ listening' = listening
      BY <2>3 DEF Connect, Remove, Bind, SocketsOK
    <3> QED BY <2>1, <3>1, <3>2, <3>3
  <2>4. ASSUME NEW d \in Daemon,
               WaitExists(d) \/ WaitConnect(d) \/ WaitTimesOut(d) \/ WaitAgain(d)
        PROVE  SocketsOK'
    <3>1. PICK step \in {"exited", "wait_exists", "wait_connect", "wait_deadline"} : Goto(d, step)
      BY <2>4 DEF WaitExists, WaitConnect, WaitTimesOut, WaitAgain
    <3>2. step \in Step /\ step \notin Owning /\ pc[d] \notin Owning
      BY <2>4 DEF WaitExists, WaitConnect, WaitTimesOut, WaitAgain, Step, Starting, Owning
    <3>3. path' = path /\ listening' = listening
      BY <2>4 DEF WaitExists, WaitConnect, WaitTimesOut, WaitAgain
    <3> QED BY <2>1, <3>1, <3>2, <3>3 DEF SocketsOK
  <2>5. ASSUME NEW d \in Daemon, Listen(d)  PROVE SocketsOK'
    <3>1. /\ Goto(d, "build") /\ path' = path /\ listening' = listening \cup {d}
          /\ "build" \in Step /\ "build" \in Owning
      BY <2>5 DEF Listen, Step, Owning
    <3> QED BY <3>1, GotoFacts DEF SocketsOK
  <2>6. ASSUME NEW d \in Daemon, Build(d)  PROVE SocketsOK'
    <3>1. /\ Goto(d, "serving") /\ path' = path /\ listening' = listening /\ pc[d] \in Owning
          /\ "serving" \in Step /\ "serving" \in Owning
      BY <2>6 DEF Build, Step, Owning
    <3> QED BY <3>1, GotoFacts DEF SocketsOK
  <2>7. ASSUME NEW d \in Daemon, Stop(d)  PROVE SocketsOK'
    <3>1. /\ Goto(d, "exited") /\ path' = path /\ listening' = listening \ {d}
          /\ "exited" \in Step /\ "exited" \notin Owning
      BY <2>7 DEF Stop, Step, Starting, Owning
    <3> QED BY <3>1, GotoFacts DEF SocketsOK
  <2>8. CASE UNCHANGED vars
    BY <2>8 DEF vars, SocketsOK
  <2> QED BY <2>2, <2>3, <2>4, <2>5, <2>6, <2>7, <2>8 DEF Next, Progress
<1>3. overlapped \in BOOLEAN /\ [Next]_vars => (overlapped \in BOOLEAN)'
  BY OverlapStays
<1>4. SocketsOK /\ overlapped \in BOOLEAN => TypeOK
  BY DEF SocketsOK, TypeOK
<1> QED BY <1>1, <1>2, <1>3, <1>4, PTL DEF Spec

=============================================================================
