-------------------------- MODULE DaemonClientsProofs --------------------------
(***************************************************************************)
(* Proofs about DaemonClients for any sets of clients and daemons: the     *)
(* types; and as long as no daemon stops, that a running daemon is reused  *)
(* and that a poll fails only while some daemon starts.                    *)
(***************************************************************************)
EXTENDS DaemonClients, TLAPS

\* A step of the daemon d that only moves d along.
LEMMA DaemonGotoFacts ==
  ASSUME Daemons!TypeOK, NEW d \in Daemon, NEW step \in Daemons!Step, Daemons!Goto(d, step)
  PROVE  /\ pc' \in [Daemon -> Daemons!Step]
         /\ pc'[d] = step
         /\ \A e \in Daemon : e # d => pc'[e] = pc[e]
BY DEF Daemons!TypeOK, Daemons!Goto

\* A step that neither opens nor closes a listener keeps the types of the daemons.
LEMMA DaemonMoveKeepsType ==
  ASSUME Daemons!TypeOK, NEW d \in Daemon, NEW step \in Daemons!Step,
         Daemons!Goto(d, step), listening' = listening,
         path' \in Daemon \cup {NoFile, StaleFile}, overlapped' \in BOOLEAN,
         pc[d] \in Daemons!Owning <=> step \in Daemons!Owning
  PROVE  Daemons!TypeOK'
<1>1. /\ pc' \in [Daemon -> Daemons!Step]
      /\ pc'[d] = step
      /\ \A e \in Daemon : e # d => pc'[e] = pc[e]
  BY DaemonGotoFacts
<1>2. {e \in Daemon : pc[e] \in Daemons!Owning} = {e \in Daemon : pc'[e] \in Daemons!Owning}
  BY <1>1
<1>3. QED BY <1>1, <1>2 DEF Daemons!TypeOK

\* Every step of a daemon keeps the types of the daemons.
LEMMA DaemonStepKeepsType ==
  ASSUME Daemons!TypeOK, NEW d \in Daemon,
         \/ Daemons!Launch(d) \/ Daemons!Progress(d)
         \/ Daemons!WaitAgain(d) \/ Daemons!Stop(d)
  PROVE  Daemons!TypeOK'
<1> USE DEF Daemons!Step, Daemons!Starting, Daemons!Owning
<1>1. path \in Daemon \cup {NoFile, StaleFile} /\ overlapped \in BOOLEAN
  BY DEF Daemons!TypeOK
<1>2. CASE Daemons!Launch(d)
  BY <1>1, <1>2, DaemonMoveKeepsType DEF Daemons!Launch
<1>3. CASE Daemons!PathExists(d)
  BY <1>1, <1>3, DaemonMoveKeepsType DEF Daemons!PathExists
<1>4. CASE Daemons!ProbeExists(d)
  BY <1>1, <1>4, DaemonMoveKeepsType DEF Daemons!ProbeExists
<1>5. CASE Daemons!Connect(d)
  BY <1>1, <1>5, DaemonMoveKeepsType DEF Daemons!Connect
<1>6. CASE Daemons!Remove(d)
  BY <1>1, <1>6, DaemonMoveKeepsType DEF Daemons!Remove
<1>7. CASE Daemons!Bind(d)
  BY <1>1, <1>7, DaemonMoveKeepsType DEF Daemons!Bind
<1>8. CASE Daemons!Listen(d)
  <2>1. /\ pc' \in [Daemon -> Daemons!Step]
        /\ pc'[d] = "build"
        /\ \A e \in Daemon : e # d => pc'[e] = pc[e]
    BY <1>8, DaemonGotoFacts DEF Daemons!Listen
  <2>2. path' = path /\ listening' = listening \cup {d} /\ overlapped' = overlapped
    BY <1>8 DEF Daemons!Listen
  <2>3. QED BY <2>1, <2>2 DEF Daemons!TypeOK
<1>9. CASE Daemons!WaitExists(d)
  BY <1>1, <1>9, DaemonMoveKeepsType DEF Daemons!WaitExists
<1>10. CASE Daemons!WaitConnect(d)
  BY <1>1, <1>10, DaemonMoveKeepsType DEF Daemons!WaitConnect
<1>11. CASE Daemons!WaitTimesOut(d)
  BY <1>1, <1>11, DaemonMoveKeepsType DEF Daemons!WaitTimesOut
<1>12. CASE Daemons!Build(d)
  BY <1>1, <1>12, DaemonMoveKeepsType DEF Daemons!Build
<1>13. CASE Daemons!WaitAgain(d)
  BY <1>1, <1>13, DaemonMoveKeepsType DEF Daemons!WaitAgain
<1>14. CASE Daemons!Stop(d)
  <2>1. /\ pc' \in [Daemon -> Daemons!Step]
        /\ pc'[d] = "exited"
        /\ \A e \in Daemon : e # d => pc'[e] = pc[e]
    BY <1>14, DaemonGotoFacts DEF Daemons!Stop
  <2>2. path' = path /\ listening' = listening \ {d} /\ overlapped' = overlapped
    BY <1>14 DEF Daemons!Stop
  <2>3. QED BY <2>1, <2>2 DEF Daemons!TypeOK
<1>15. QED BY <1>2, <1>3, <1>4, <1>5, <1>6, <1>7, <1>8, <1>9, <1>10, <1>11, <1>12,
              <1>13, <1>14 DEF Daemons!Progress

\* A client's own step, which leaves the daemons alone.
LEMMA ClientMoveKeepsType ==
  ASSUME TypeOK, NEW c \in Client, NEW step \in ClientStep, Goto(c, step),
         UNCHANGED daemonVars, spawned' \subseteq Client,
         peer' \in [Client -> Daemon \cup {NoFile}],
         \A other \in Client : other # c => peer'[other] = peer[other],
         step \in Waiting => peer'[c] \in Daemon
  PROVE  TypeOK'
<1>1. /\ client' \in [Client -> ClientStep]
      /\ client'[c] = step
      /\ \A other \in Client : other # c => client'[other] = client[other]
  BY DEF TypeOK, Goto
<1>2. Daemons!TypeOK'
  BY DEF TypeOK, daemonVars, Daemons!TypeOK
<1>3. QED BY <1>1, <1>2 DEF TypeOK

\* Connecting, answers and losses keep the types: whoever is connected to holds a
\* listener, so it is a daemon.
LEMMA ConnectionKeepsType ==
  ASSUME TypeOK, NEW c \in Client, TryConnect(c) \/ Answer(c) \/ Lost(c)
  PROVE  TypeOK'
<1> USE DEF ClientStep, Waiting, Ended
<1>1. path \in listening => path \in Daemon
  BY DEF TypeOK, Daemons!TypeOK
<1>2. AfterUnavailable(c) \in {"deadline", "spawn"}
  BY DEF AfterUnavailable
<1>3. /\ peer \in [Client -> Daemon \cup {NoFile}]
      /\ client \in [Client -> ClientStep]
      /\ spawned \subseteq Client
      /\ client[c] \in Waiting => peer[c] \in Daemon
  BY DEF TypeOK
<1>4. CASE TryConnect(c)
  <2>1. CASE path \in listening
    <3>1. /\ Goto(c, "ping") /\ peer' = [peer EXCEPT ![c] = path]
          /\ UNCHANGED daemonVars /\ spawned' = spawned
      BY <1>4, <2>1 DEF TryConnect, Reachable
    <3>2. QED BY <1>1, <1>3, <2>1, <3>1, ClientMoveKeepsType
  <2>2. CASE path \notin listening
    <3>1. /\ Goto(c, AfterUnavailable(c)) /\ peer' = peer
          /\ UNCHANGED daemonVars /\ spawned' = spawned
      BY <1>4, <2>2 DEF TryConnect, Reachable
    <3>2. QED BY <1>2, <1>3, <3>1, ClientMoveKeepsType
  <2>3. QED BY <2>1, <2>2
<1>5. CASE Answer(c)
  <2>1. PICK step \in {"connected", "pong"} : Goto(c, step)
    BY <1>5 DEF Answer
  <2>2. /\ client[c] \in Waiting /\ peer' = peer
        /\ UNCHANGED daemonVars /\ spawned' = spawned
    BY <1>5 DEF Answer
  <2>3. QED BY <1>3, <2>1, <2>2, ClientMoveKeepsType
<1>6. CASE Lost(c)
  <2>1. /\ client[c] \in Waiting
        /\ UNCHANGED daemonVars /\ spawned' = spawned
    BY <1>6 DEF Lost
  <2>2. CASE Reachable /\ peer' = [peer EXCEPT ![c] = path] /\ client' = client
    <3>1. /\ path \in Daemon
          /\ peer' \in [Client -> Daemon \cup {NoFile}]
          /\ peer'[c] = path
          /\ \A other \in Client : other # c => peer'[other] = peer[other]
      BY <1>1, <1>3, <2>2 DEF Reachable
    <3>2. Daemons!TypeOK'
      BY <2>1 DEF TypeOK, daemonVars, Daemons!TypeOK
    <3>3. QED BY <2>1, <2>2, <3>1, <3>2 DEF TypeOK
  <2>3. CASE Goto(c, "failed") /\ peer' = peer
    BY <1>3, <2>1, <2>3, ClientMoveKeepsType
  <2>4. CASE Goto(c, AfterUnavailable(c)) /\ peer' = peer
    BY <1>2, <1>3, <2>1, <2>4, ClientMoveKeepsType
  <2>5. QED BY <1>6, <2>2, <2>3, <2>4 DEF Lost
<1>7. QED BY <1>4, <1>5, <1>6

\* A step that changes only daemons keeps the types.
LEMMA DaemonOnlyKeepsType ==
  ASSUME TypeOK, Daemons!TypeOK', UNCHANGED <<client, spawned, peer>>
  PROVE  TypeOK'
BY DEF TypeOK

\* Every step keeps the types.
LEMMA NextKeepsType == TypeOK /\ [Next]_vars => TypeOK'
<1> SUFFICES ASSUME TypeOK, [Next]_vars PROVE TypeOK'
  OBVIOUS
<1>1. Daemons!TypeOK /\ peer \in [Client -> Daemon \cup {NoFile}] /\ spawned \subseteq Client
  BY DEF TypeOK
<1>2. ASSUME NEW c \in Client, Ping(c) \/ SpawnFails(c) \/ Retry(c) \/ TimesOut(c)
      PROVE  TypeOK'
  <2>1. /\ UNCHANGED daemonVars /\ spawned' = spawned /\ peer' = peer
        /\ \E step \in {"try", "failed", "timed_out"} : Goto(c, step)
    BY <1>2 DEF Ping, SpawnFails, Retry, TimesOut
  <2>2. PICK step \in {"try", "failed", "timed_out"} : Goto(c, step)
    BY <2>1
  <2>3. step \in ClientStep /\ step \notin Waiting
    BY DEF ClientStep, Waiting, Ended
  <2>4. QED BY <1>1, <2>1, <2>2, <2>3, ClientMoveKeepsType
<1>3. ASSUME NEW c \in Client, TryConnect(c) \/ Answer(c) \/ Lost(c)
      PROVE  TypeOK'
  BY <1>3, ConnectionKeepsType
<1>4. ASSUME NEW c \in Client, Spawn(c)
      PROVE  TypeOK'
  <2>1. c \in Daemon /\ Daemons!Launch(c)
    BY <1>4, ClientAssumption DEF Spawn
  <2>2. Daemons!TypeOK'
    BY <1>1, <2>1, DaemonStepKeepsType
  <2>3. /\ client' = [client EXCEPT ![c] = "try"]
        /\ spawned' = spawned \cup {c} /\ peer' = peer
    BY <1>4 DEF Spawn, Goto
  <2>4. QED BY <2>2, <2>3 DEF TypeOK, ClientStep, Waiting
<1>5. ASSUME NEW d \in Daemon, StartByHand(d) \/ DaemonProgress(d) \/ DaemonStops(d)
      PROVE  TypeOK'
  <2>1. /\ \/ Daemons!Launch(d) \/ Daemons!Progress(d)
           \/ Daemons!WaitAgain(d) \/ Daemons!Stop(d)
        /\ UNCHANGED <<client, spawned, peer>>
    BY <1>5 DEF StartByHand, DaemonProgress, DaemonStops
  <2>2. Daemons!TypeOK'
    BY <1>1, <2>1, DaemonStepKeepsType
  <2>3. QED BY <2>1, <2>2, DaemonOnlyKeepsType
<1>6. CASE UNCHANGED vars
  BY <1>6 DEF vars, daemonVars, TypeOK, Daemons!TypeOK
<1>7. QED BY <1>2, <1>3, <1>4, <1>5, <1>6 DEF Next, ClientProgress

\* The initial states have the types.
LEMMA InitType == Init => TypeOK
BY DEF Init, TypeOK, Daemons!Init, Daemons!TypeOK, Daemons!Step, Daemons!Owning,
       ClientStep, Waiting

\* Daemons and clients keep their types; a client that waits for an answer is
\* connected to a daemon, however often connections are lost and made again.
THEOREM ClientsTypeCorrect == Spec => []TypeOK
BY InitType, NextKeepsType, PTL DEF Spec

-----------------------------------------------------------------------------
(***************************************************************************)
(* A running daemon is reused.  Without stops no connection is lost, so    *)
(* that every client is connected to a listener or finds the one at the    *)
(* path; and a daemon that is started finds it too and gives up.           *)
(***************************************************************************)

\* No connection is lost.
Held == \A c \in Client : client[c] \in Waiting => peer[c] \in listening

\* The steps of the daemons that do not disturb a running one.
Harmless == {"off", "exists", "probe_exists", "connect", "exited"} \cup Daemons!Owning

\* The daemon d stays where it is: no other daemon is past its probe, and no
\* client has found nobody.
Kept(d) ==
  /\ path = d
  /\ pc[d] = "serving"
  /\ \A e \in Daemon : pc[e] \in Harmless
  /\ \A c \in Client : client[c] # "spawn"

\* No daemon closes its listener unless it stops.
LEMMA ListenersStay ==
  ASSUME ~MayStop, [Next]_vars
  PROVE  listening \subseteq listening'
<1>1. ASSUME NEW c \in Client, Ping(c) \/ ClientProgress(c) \/ TimesOut(c)
      PROVE  listening' = listening
  BY <1>1 DEF Ping, ClientProgress, TimesOut, TryConnect, Spawn, SpawnFails, Answer, Lost,
              Retry, daemonVars, Daemons!Launch
<1>2. ASSUME NEW d \in Daemon, StartByHand(d)
      PROVE  listening' = listening
  BY <1>2 DEF StartByHand, Daemons!Launch
<1>3. ASSUME NEW d \in Daemon, DaemonProgress(d)
      PROVE  listening \subseteq listening'
  BY <1>3 DEF DaemonProgress, Daemons!Progress, Daemons!PathExists, Daemons!ProbeExists,
              Daemons!Connect, Daemons!Remove, Daemons!Bind, Daemons!Listen,
              Daemons!WaitExists, Daemons!WaitConnect, Daemons!WaitTimesOut,
              Daemons!Build, Daemons!WaitAgain
<1>4. ASSUME NEW d \in Daemon, DaemonStops(d)
      PROVE  FALSE
  BY <1>4 DEF DaemonStops, Daemons!Stop
<1>5. CASE UNCHANGED vars
  BY <1>5 DEF vars, daemonVars
<1>6. QED BY <1>1, <1>2, <1>3, <1>4, <1>5 DEF Next

\* What a client's step does to its connection.
LEMMA ClientConnection ==
  ASSUME ~MayStop, TypeOK, Held, NEW c \in Client,
         Ping(c) \/ ClientProgress(c) \/ TimesOut(c)
  PROVE  /\ \A other \in Client : other # c => /\ client'[other] = client[other]
                                               /\ peer'[other] = peer[other]
         /\ client'[c] \in Waiting => peer'[c] \in listening
         /\ client'[c] = "spawn" => path \notin listening
<1> USE DEF Waiting
<1>1. /\ client \in [Client -> ClientStep]
      /\ peer \in [Client -> Daemon \cup {NoFile}]
  BY DEF TypeOK
<1>2. CASE TryConnect(c)
  BY <1>1, <1>2 DEF TryConnect, Goto, Reachable, AfterUnavailable
<1>3. CASE Answer(c)
  BY <1>1, <1>3 DEF Answer, Goto, Held
<1>4. CASE Lost(c)
  BY <1>4 DEF Lost, Held
<1>5. CASE Ping(c) \/ SpawnFails(c) \/ Retry(c) \/ TimesOut(c)
  BY <1>1, <1>5 DEF Ping, SpawnFails, Retry, TimesOut, Goto
<1>6. CASE Spawn(c)
  BY <1>1, <1>6 DEF Spawn, Goto
<1>7. QED BY <1>2, <1>3, <1>4, <1>5, <1>6 DEF ClientProgress

\* No step of any process loses a connection.
LEMMA NextKeepsHeld ==
  ASSUME ~MayStop, TypeOK, Held, [Next]_vars
  PROVE  Held'
<1>1. listening \subseteq listening'
  BY ListenersStay
<1>2. ASSUME NEW c \in Client, Ping(c) \/ ClientProgress(c) \/ TimesOut(c)
      PROVE  Held'
  BY <1>1, <1>2, ClientConnection DEF Held
<1>3. CASE UNCHANGED <<client, spawned, peer>>
  BY <1>1, <1>3 DEF Held
<1>4. QED BY <1>2, <1>3 DEF Next, vars, StartByHand, DaemonProgress, DaemonStops

\* The daemons stay harmless, for the socket they probe is live.
LEMMA DaemonKeepsKept ==
  ASSUME ~MayStop, TypeOK, NEW d \in Daemon, Kept(d), NEW e \in Daemon,
         Daemons!Launch(e) \/ Daemons!Progress(e) \/ Daemons!WaitAgain(e)
  PROVE  path' = d /\ pc'[d] = "serving" /\ \A f \in Daemon : pc'[f] \in Harmless
<1> USE DEF Harmless, Daemons!Owning
<1>1. /\ pc \in [Daemon -> Daemons!Step]
      /\ path \in Daemon /\ path # NoFile /\ path \in listening
      /\ pc[e] \in Harmless
  BY PathAssumption DEF TypeOK, Kept, Daemons!TypeOK
<1>2. CASE Daemons!Launch(e)
  BY <1>1, <1>2 DEF Kept, Daemons!Launch, Daemons!Goto
<1>3. CASE Daemons!PathExists(e)
  BY <1>1, <1>3 DEF Kept, Daemons!PathExists, Daemons!Goto
<1>4. CASE Daemons!ProbeExists(e)
  BY <1>1, <1>4 DEF Kept, Daemons!ProbeExists, Daemons!Goto
<1>5. CASE Daemons!Connect(e)
  BY <1>1, <1>5 DEF Kept, Daemons!Connect, Daemons!Live, Daemons!Goto
<1>6. CASE Daemons!Build(e)
  BY <1>1, <1>6 DEF Kept, Daemons!Build, Daemons!Goto
<1>7. ~Daemons!Remove(e) /\ ~Daemons!Bind(e) /\ ~Daemons!Listen(e)
  BY <1>1 DEF Daemons!Remove, Daemons!Bind, Daemons!Listen
<1>8. /\ ~Daemons!WaitExists(e) /\ ~Daemons!WaitConnect(e)
      /\ ~Daemons!WaitTimesOut(e) /\ ~Daemons!WaitAgain(e)
  BY <1>1 DEF Daemons!WaitExists, Daemons!WaitConnect, Daemons!WaitTimesOut,
              Daemons!WaitAgain
<1>9. QED BY <1>2, <1>3, <1>4, <1>5, <1>6, <1>7, <1>8 DEF Daemons!Progress

\* No step of any process disturbs the daemon d: clients reach it, and daemons
\* that start find it alive.
LEMMA NextKeepsKept ==
  ASSUME ~MayStop, TypeOK, Held, NEW d \in Daemon, Kept(d), [Next]_vars
  PROVE  Kept(d)'
<1>1. path \in listening
  BY DEF TypeOK, Kept, Daemons!TypeOK, Daemons!Owning
<1>2. ASSUME NEW c \in Client, Ping(c) \/ ClientProgress(c) \/ TimesOut(c)
      PROVE  Kept(d)'
  <2>1. \A other \in Client : client'[other] # "spawn"
    BY <1>1, <1>2, ClientConnection DEF Kept
  <2>2. ~Spawn(c)
    BY DEF Spawn, Kept
  <2>3. UNCHANGED daemonVars
    BY <1>2, <2>2 DEF Ping, ClientProgress, TimesOut, TryConnect, SpawnFails, Answer, Lost,
                      Retry
  <2>4. QED BY <2>1, <2>3 DEF Kept, daemonVars
<1>3. ASSUME NEW e \in Daemon, StartByHand(e) \/ DaemonProgress(e)
      PROVE  Kept(d)'
  <2>1. /\ Daemons!Launch(e) \/ Daemons!Progress(e) \/ Daemons!WaitAgain(e)
        /\ client' = client
    BY <1>3 DEF StartByHand, DaemonProgress
  <2>2. path' = d /\ pc'[d] = "serving" /\ \A f \in Daemon : pc'[f] \in Harmless
    BY <2>1, DaemonKeepsKept
  <2>3. QED BY <2>1, <2>2 DEF Kept
<1>4. ASSUME NEW e \in Daemon, DaemonStops(e)
      PROVE  Kept(d)'
  BY <1>4 DEF DaemonStops, Daemons!Stop
<1>5. CASE UNCHANGED vars
  BY <1>5 DEF vars, daemonVars, Kept
<1>6. QED BY <1>2, <1>3, <1>4, <1>5 DEF Next

\* However many clients ping, and whoever tries to start a daemon by hand: once a
\* daemon serves at the path undisturbed, no client spawns another one, and the
\* path stays with it.
THEOREM RunningDaemonReused ==
  ASSUME ~MayStop
  PROVE  Spec => ReusesRunningDaemon
<1>1. Spec => [](TypeOK /\ Held)
  <2>1. Init => Held
    BY DEF Init, Held, Waiting
  <2>2. TypeOK /\ Held /\ [Next]_vars => (TypeOK /\ Held)'
    BY NextKeepsType, NextKeepsHeld
  <2>3. QED BY InitType, <2>1, <2>2, PTL DEF Spec
<1>2. ASSUME NEW d \in Daemon
      PROVE  Spec => [](Undisturbed(d) => []KeepsPlace(d))
  <2>1. TypeOK /\ Undisturbed(d) => Kept(d)
    BY DEF TypeOK, Daemons!TypeOK, Daemons!Step, Undisturbed, Kept, Harmless
  <2>2. TypeOK /\ Held /\ Kept(d) /\ [Next]_vars => Kept(d)'
    BY NextKeepsKept
  <2>3. Kept(d) => KeepsPlace(d)
    BY DEF Kept, KeepsPlace
  <2>4. QED BY <1>1, <2>1, <2>2, <2>3, PTL DEF Spec
<1>3. QED BY <1>2 DEF ReusesRunningDaemon

-----------------------------------------------------------------------------
(***************************************************************************)
(* A poll fails only while some daemon starts.  Without stops, what is at  *)
(* the path tells how far the daemons are: whoever removed a socket is     *)
(* about to bind; a socket of old is there only before the first removal;  *)
(* and one that belongs to a daemon is open, or about to be.               *)
(***************************************************************************)

BeforeRemoval == {"off", "exists", "probe_exists", "connect", "remove"}

PathTells ==
  /\ path = NoFile => \/ \E d \in Daemon : pc[d] = "bind"
                      \/ \A d \in Daemon : pc[d] \in {"off", "exists"}
  /\ path = StaleFile => \A d \in Daemon : pc[d] \in BeforeRemoval
  /\ \A d \in Daemon : path = d => pc[d] \in {"listen"} \cup Daemons!Owning

\* A client that spawned its daemon did start it.
SpawnedRun == \A c \in spawned : pc[c] # "off"

\* What a step of a daemon does to the steps of all.
LEMMA DaemonMoves ==
  ASSUME Daemons!TypeOK, NEW d \in Daemon, NEW step, Daemons!Goto(d, step)
  PROVE  /\ pc'[d] = step
         /\ \A e \in Daemon : e # d => pc'[e] = pc[e]
BY DEF Daemons!TypeOK, Daemons!Goto

\* Each step of a daemon keeps what the path tells.
LEMMA DaemonKeepsPathTells ==
  ASSUME ~MayStop, Daemons!TypeOK, PathTells, NEW d \in Daemon,
         Daemons!Launch(d) \/ Daemons!Progress(d) \/ Daemons!WaitAgain(d)
  PROVE  PathTells' /\ (pc'[d] # "off" /\ \A e \in Daemon : e # d => pc'[e] = pc[e])
<1> USE DEF BeforeRemoval, Daemons!Owning
<1>1. /\ path \in Daemon \cup {NoFile, StaleFile}
      /\ path \in listening => path \in Daemon
      /\ d # NoFile /\ d # StaleFile /\ NoFile # StaleFile
  BY PathAssumption DEF Daemons!TypeOK
<1>2. CASE Daemons!Launch(d)
  <2>1. pc[d] = "off" /\ Daemons!Goto(d, "exists") /\ path' = path
    BY <1>2 DEF Daemons!Launch
  <2>2. pc'[d] = "exists" /\ \A e \in Daemon : e # d => pc'[e] = pc[e]
    BY <2>1, DaemonMoves
  <2>3. QED BY <2>1, <2>2 DEF PathTells
<1>3. CASE Daemons!PathExists(d)
  <2>1. /\ pc[d] = "exists" /\ path' = path
        /\ Daemons!Goto(d, IF path = NoFile THEN "bind" ELSE "probe_exists")
    BY <1>3 DEF Daemons!PathExists
  <2>2. /\ pc'[d] = IF path = NoFile THEN "bind" ELSE "probe_exists"
        /\ \A e \in Daemon : e # d => pc'[e] = pc[e]
    BY <2>1, DaemonMoves
  <2>3. QED BY <2>1, <2>2, <1>1 DEF PathTells
<1>4. CASE Daemons!ProbeExists(d)
  <2>1. /\ pc[d] = "probe_exists" /\ path' = path
        /\ Daemons!Goto(d, IF path = NoFile THEN "bind" ELSE "connect")
    BY <1>4 DEF Daemons!ProbeExists
  <2>2. /\ pc'[d] = IF path = NoFile THEN "bind" ELSE "connect"
        /\ \A e \in Daemon : e # d => pc'[e] = pc[e]
    BY <2>1, DaemonMoves
  <2>3. QED BY <2>1, <2>2, <1>1 DEF PathTells
<1>5. CASE Daemons!Connect(d)
  <2>1. /\ pc[d] = "connect" /\ path' = path
        /\ Daemons!Goto(d, IF path \in listening THEN "exited" ELSE "remove")
    BY <1>5 DEF Daemons!Connect, Daemons!Live
  <2>2. /\ pc'[d] = IF path \in listening THEN "exited" ELSE "remove"
        /\ \A e \in Daemon : e # d => pc'[e] = pc[e]
    BY <2>1, DaemonMoves
  <2>3. QED BY <2>1, <2>2, <1>1, PathAssumption DEF PathTells
<1>6. CASE Daemons!Remove(d)
  <2>1. /\ pc[d] = "remove" /\ path' = NoFile
        /\ Daemons!Goto(d, IF path = NoFile THEN "exited" ELSE "bind")
    BY <1>6 DEF Daemons!Remove
  <2>2. /\ pc'[d] = IF path = NoFile THEN "exited" ELSE "bind"
        /\ \A e \in Daemon : e # d => pc'[e] = pc[e]
    BY <2>1, DaemonMoves
  <2>3. QED BY <2>1, <2>2, <1>1, PathAssumption DEF PathTells
<1>7. CASE Daemons!Bind(d)
  <2>1. CASE path = NoFile
    <3>1. path' = d /\ Daemons!Goto(d, "listen")
      BY <1>7, <2>1 DEF Daemons!Bind
    <3>2. pc'[d] = "listen" /\ \A e \in Daemon : e # d => pc'[e] = pc[e]
      BY <3>1, DaemonMoves
    <3>3. QED BY <3>1, <3>2, <1>1 DEF PathTells
  <2>2. CASE path # NoFile
    <3>1. pc[d] = "bind" /\ path' = path /\ Daemons!Goto(d, "wait_exists")
      BY <1>7, <2>2 DEF Daemons!Bind
    <3>2. pc'[d] = "wait_exists" /\ \A e \in Daemon : e # d => pc'[e] = pc[e]
      BY <3>1, DaemonMoves
    <3>3. QED BY <2>2, <3>1, <3>2, <1>1 DEF PathTells
  <2>3. QED BY <2>1, <2>2
<1>8. CASE Daemons!Listen(d) \/ Daemons!Build(d)
  <2>1. /\ pc[d] \in {"listen", "build"} /\ path' = path
        /\ \E step \in {"build", "serving"} : Daemons!Goto(d, step)
    BY <1>8 DEF Daemons!Listen, Daemons!Build
  <2>2. /\ pc'[d] \in {"build", "serving"}
        /\ \A e \in Daemon : e # d => pc'[e] = pc[e]
    BY <2>1, DaemonMoves
  <2>3. QED BY <2>1, <2>2, <1>1 DEF PathTells
<1>9. CASE \/ Daemons!WaitExists(d) \/ Daemons!WaitConnect(d)
           \/ Daemons!WaitTimesOut(d) \/ Daemons!WaitAgain(d)
  <2>1. /\ pc[d] \in {"wait_exists", "wait_connect", "wait_deadline"} /\ path' = path
        /\ \E step \in {"wait_exists", "wait_connect", "wait_deadline", "exited"} :
             Daemons!Goto(d, step)
    BY <1>9 DEF Daemons!WaitExists, Daemons!WaitConnect, Daemons!WaitTimesOut,
                Daemons!WaitAgain
  <2>2. /\ pc'[d] \in {"wait_exists", "wait_connect", "wait_deadline", "exited"}
        /\ \A e \in Daemon : e # d => pc'[e] = pc[e]
    BY <2>1, DaemonMoves
  <2>3. QED BY <2>1, <2>2, <1>1 DEF PathTells
<1>10. QED BY <1>2, <1>3, <1>4, <1>5, <1>6, <1>7, <1>8, <1>9 DEF Daemons!Progress

\* So does every step.
LEMMA NextKeepsPathTells ==
  ASSUME ~MayStop, TypeOK, PathTells, SpawnedRun, [Next]_vars
  PROVE  PathTells' /\ SpawnedRun'
<1>1. Daemons!TypeOK /\ spawned \subseteq Daemon
  BY ClientAssumption DEF TypeOK
<1>2. ASSUME NEW c \in Client, Spawn(c)
      PROVE  PathTells' /\ SpawnedRun'
  <2>1. c \in Daemon /\ Daemons!Launch(c) /\ spawned' = spawned \cup {c}
    BY <1>2, ClientAssumption DEF Spawn
  <2>2. PathTells' /\ pc'[c] # "off" /\ \A e \in Daemon : e # c => pc'[e] = pc[e]
    BY <1>1, <2>1, DaemonKeepsPathTells
  <2>3. QED BY <1>1, <2>1, <2>2 DEF SpawnedRun
<1>3. ASSUME NEW d \in Daemon, StartByHand(d) \/ DaemonProgress(d)
      PROVE  PathTells' /\ SpawnedRun'
  <2>1. /\ Daemons!Launch(d) \/ Daemons!Progress(d) \/ Daemons!WaitAgain(d)
        /\ spawned' = spawned
    BY <1>3 DEF StartByHand, DaemonProgress
  <2>2. PathTells' /\ pc'[d] # "off" /\ \A e \in Daemon : e # d => pc'[e] = pc[e]
    BY <1>1, <2>1, DaemonKeepsPathTells
  <2>3. QED BY <1>1, <2>1, <2>2 DEF SpawnedRun
<1>4. CASE UNCHANGED <<daemonVars, spawned>>
  BY <1>4 DEF daemonVars, PathTells, SpawnedRun
<1>5. ASSUME NEW c \in Client, Ping(c) \/ ClientProgress(c) \/ TimesOut(c), ~Spawn(c)
      PROVE  UNCHANGED <<daemonVars, spawned>>
  BY <1>5 DEF Ping, ClientProgress, TimesOut, TryConnect, SpawnFails, Answer, Lost, Retry
<1>6. ASSUME NEW d \in Daemon, DaemonStops(d)
      PROVE  FALSE
  BY <1>6 DEF DaemonStops, Daemons!Stop
<1>7. UNCHANGED vars => UNCHANGED <<daemonVars, spawned>>
  BY DEF vars
<1>8. QED BY <1>2, <1>3, <1>4, <1>5, <1>6, <1>7 DEF Next

\* Once a daemon was started, some daemon starts or one can be reached.
LEMMA StartingOrReachable ==
  ASSUME TypeOK, PathTells, NEW d \in Daemon, pc[d] # "off",
         \A e \in Daemon : pc[e] \notin Daemons!Starting
  PROVE  Reachable
<1> USE DEF Daemons!Starting
<1>1. path # NoFile /\ path # StaleFile
  BY DEF PathTells, BeforeRemoval
<1>2. path \in Daemon
  BY <1>1 DEF TypeOK, Daemons!TypeOK
<1>3. pc[path] \in Daemons!Owning
  BY <1>2 DEF PathTells
<1>4. QED BY <1>2, <1>3 DEF TypeOK, Daemons!TypeOK, Reachable

\* Only a try that reaches nobody leads to the deadline.
LEMMA FailedTry ==
  ASSUME TypeOK, [Next]_vars, NEW c \in Client, client[c] = "try", client'[c] = "deadline"
  PROVE  ~Reachable
<1>1. client \in [Client -> ClientStep]
  BY DEF TypeOK
<1>2. ASSUME NEW other \in Client, Ping(other) \/ ClientProgress(other) \/ TimesOut(other)
      PROVE  other = c
  BY <1>1, <1>2 DEF Ping, ClientProgress, TimesOut, TryConnect, Spawn, SpawnFails, Answer,
                    Lost, Retry, Goto
<1>3. ASSUME NEW d \in Daemon, StartByHand(d) \/ DaemonProgress(d) \/ DaemonStops(d)
      PROVE  FALSE
  BY <1>3 DEF StartByHand, DaemonProgress, DaemonStops
<1>4. Ping(c) \/ ClientProgress(c) \/ TimesOut(c)
  BY <1>2, <1>3 DEF Next, vars
<1>5. TryConnect(c)
  BY <1>4 DEF Ping, ClientProgress, TimesOut, Spawn, SpawnFails, Answer, Lost, Retry, Waiting
<1>6. QED BY <1>1, <1>5 DEF TryConnect, Goto

\* The races of starting daemons never end with nobody to connect to: a client that
\* polls for the daemon it spawned fails only while some daemon is starting.
THEOREM PollsFailOnlyDuringStarts ==
  ASSUME ~MayStop
  PROVE  Spec => FailsOnlyDuringStarts
<1>1. Init => PathTells /\ SpawnedRun
  BY PathAssumption DEF Init, Daemons!Init, PathTells, SpawnedRun, BeforeRemoval
<1>2. TypeOK /\ PathTells /\ SpawnedRun /\ [Next]_vars => (PathTells /\ SpawnedRun)'
  BY NextKeepsPathTells
<1>3. TypeOK /\ PathTells /\ SpawnedRun /\ [Next]_vars =>
        [\A c \in Client :
           c \in spawned /\ client[c] = "try" /\ client'[c] = "deadline" =>
             \E d \in Daemon : pc[d] \in Daemons!Starting]_vars
  <2> SUFFICES ASSUME TypeOK, PathTells, SpawnedRun, [Next]_vars,
                      NEW c \in Client, c \in spawned,
                      client[c] = "try", client'[c] = "deadline",
                      \A d \in Daemon : pc[d] \notin Daemons!Starting
               PROVE  FALSE
    OBVIOUS
  <2>1. c \in Daemon /\ pc[c] # "off"
    BY ClientAssumption DEF SpawnedRun
  <2>2. Reachable
    BY <2>1, StartingOrReachable
  <2>3. QED BY <2>2, FailedTry
<1>4. QED BY <1>1, <1>2, <1>3, InitType, NextKeepsType, PTL DEF Spec, FailsOnlyDuringStarts

=============================================================================
