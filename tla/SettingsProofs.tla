---------------------------- MODULE SettingsProofs ----------------------------
(***************************************************************************)
(* Theorems about Settings, for every set of environments, of settings     *)
(* that people write, and every number of edits.                           *)
(*                                                                         *)
(* Loading says how far a process is with its settings: where they come    *)
(* from is decided once, by its environment alone; what it read is one of  *)
(* the contents that its file had since the process looked for it, and is  *)
(* still in the file unless somebody edited one; and a process that has    *)
(* settings without a source has the defaults, and had no file.  The       *)
(* properties follow from it.                                              *)
(***************************************************************************)
EXTENDS Settings, TLAPS

\* The types of the variables, without what TypeOK says of accepted settings.
Types ==
  /\ env \in [Process -> Environments]
  /\ files \in [Variable -> Contents]
  /\ root \in {"directory", "file", "missing"}
  /\ pc \in [Process -> {"start", "reading", "validating", "loaded", "serving", "failed"}]
  /\ source \in [Process -> Variable \cup {"none"}]
  /\ settings \in [Process -> Written \cup {Default}]
  /\ edits \in 0..MaxEdits
  /\ edited \in BOOLEAN
  /\ seen \in [Process -> SUBSET Contents]

\* How far a process is.
Loading(p) ==
  /\ pc[p] = "start" => source[p] = "none"
  /\ pc[p] \in {"start", "reading"} => settings[p] = Default
  /\ pc[p] \in {"reading", "validating"} => source[p] # "none"
  /\ source[p] # "none" => source[p] = Source(p)
  /\ pc[p] \in {"loaded", "serving"} => Sensible(settings[p])
  /\ pc[p] \in {"loaded", "serving"} /\ source[p] = "none" =>
       /\ settings[p] = Default
       /\ Source(p) # "SHARGON_CONFIG"
       /\ ~edited /\ Source(p) # "none" => files[Source(p)].kind = "missing"
  /\ pc[p] = "reading" => files[source[p]] \in seen[p]
  /\ pc[p] \in {"validating", "loaded", "serving"} /\ source[p] # "none" =>
       [kind |-> "settings", settings |-> settings[p]] \in seen[p]
  /\ pc[p] \in {"loaded", "serving"} /\ source[p] = "none" => seen[p] \subseteq {Missing}
  /\ pc[p] \in {"validating", "loaded", "serving"} /\ source[p] # "none" /\ ~edited =>
       files[source[p]].kind = "settings" /\ files[source[p]].settings = settings[p]

\* Only what build_backend takes is served.
Serving ==
  /\ pc["client"] # "serving"
  /\ pc["daemon"] = "serving" =>
       /\ settings["daemon"].backend.default = "Nspawn"
       /\ settings["daemon"].backend.nspawn.root_directory # "None"

IInv == Types /\ (\A p \in Process : Loading(p)) /\ Serving

-----------------------------------------------------------------------------
(***************************************************************************)
(* Facts about the operators.                                              *)
(***************************************************************************)

\* The defaults are sensible, and name no root directory.
LEMMA DefaultFacts ==
  Sensible(Default) /\ Default.backend.nspawn.root_directory = "None"
BY DEF Sensible, Default, DefaultDaemon, DefaultBackend, DefaultNspawn

\* What validation accepts is sensible.
LEMMA ValidIsSensible ==
  ASSUME NEW s, Valid(s)
  PROVE  Sensible(s)
BY DEF Valid, ValidDaemon, ValidBackend, ValidNspawn, Sensible

\* A file holds settings that may be held in a variable.
LEMMA ContentsFacts ==
  ASSUME NEW c \in Contents
  PROVE  /\ c.settings \in Written \cup {Default}
         /\ c.kind = "missing" => c = Missing
         /\ c.kind = "settings" => c = [kind |-> "settings", settings |-> c.settings]
BY DEF Contents, Missing, Malformed

\* Settings have sockets and root directories of these kinds.
LEMMA SettingsFacts ==
  ASSUME NEW s \in Written \cup {Default}
  PROVE  s.backend.nspawn.root_directory \in {"None", "relative", "absolute"}
BY WrittenAssumption DEF Default, DefaultDaemon, DefaultBackend, DefaultNspawn,
   ShargonSettings, BackendSettings, NspawnSettings, DaemonSettings

\* The source is a variable, or none.
LEMMA SourceFacts ==
  ASSUME NEW p \in Process
  PROVE  Source(p) \in Variable \cup {"none"}
BY DEF Source, DefaultSource, Variable

\* What load_with_sources looks for is the file that the environment decides on.
LEMMA HoldsFacts ==
  ASSUME NEW p \in Process
  PROVE  /\ Source(p) # "none" => Holds(p) = {files[Source(p)]}
         /\ Source(p) = "none" => Holds(p) = {}
         /\ Decides(p, "SHARGON_CONFIG") <=> Source(p) = "SHARGON_CONFIG"
<1>1. \A v \in Variable : Decides(p, v) <=> Source(p) = v
  BY DEF Decides, Source, DefaultSource, Given, Variable
<1>2. Source(p) # "none" => Source(p) \in Variable
  BY SourceFacts
<1>3. "none" \notin Variable /\ "SHARGON_CONFIG" \in Variable
  BY DEF Variable
<1> QED
  BY <1>1, <1>2, <1>3 DEF Holds

-----------------------------------------------------------------------------
(***************************************************************************)
(* The inductive invariant.                                                *)
(***************************************************************************)

\* At first no process has looked at anything (ShargonSettings::load).
LEMMA InitHolds == Init => IInv
<1> SUFFICES ASSUME Init PROVE IInv
  OBVIOUS
<1>1. Types
  <2>1. edits \in 0..MaxEdits
    BY MaxEditsAssumption DEF Init
  <2>2. files \in [Variable -> Contents]
    BY DEF Init, Contents
  <2> QED
    BY <2>1, <2>2 DEF Init, Types
<1>2. ASSUME NEW p \in Process PROVE Loading(p)
  BY DEF Init, Loading
<1>3. Serving
  BY DEF Init, Serving, Process
<1> QED
  BY <1>1, <1>2, <1>3 DEF IInv

\* A step of one process, which edits nothing, leaves the other one as it was.
LEMMA OthersKeep ==
  ASSUME IInv, NEW p \in Process, NEW q \in Process, q # p,
         UNCHANGED <<env, files, edited>>,
         pc'[q] = pc[q], source'[q] = source[q], settings'[q] = settings[q],
         seen'[q] = seen[q]
  PROVE  Loading(q)'
<1>1. Loading(q)
  BY DEF IInv
<1>2. Source(q)' = Source(q)
  BY DEF Source, DefaultSource, Given
<1>3. Sensible(settings[q])' <=> Sensible(settings[q])
  BY DEF Sensible
<1> QED
  BY <1>1, <1>2, <1>3 DEF Loading

\* load_with_sources decides where the settings come from.
LEMMA ResolveKeeps ==
  ASSUME IInv, NEW p \in Process, Resolve(p)
  PROVE  IInv'
<1>1. Types'
  <2>1. Holds(p) \subseteq Contents
    BY DEF Holds, IInv, Types
  <2>2. seen' \in [Process -> SUBSET Contents]
    BY <2>1 DEF IInv, Types, Resolve
  <2> QED
    BY <2>2, SourceFacts DEF IInv, Types, Resolve
<1>2. /\ UNCHANGED <<env, files, edited, settings>>
      /\ \A q \in Process : q # p => /\ pc'[q] = pc[q] /\ source'[q] = source[q]
                                    /\ seen'[q] = seen[q]
      /\ seen'[p] = Holds(p)
      /\ pc[p] = "start" /\ source[p] = "none" /\ settings[p] = Default
  BY DEF IInv, Types, Loading, Resolve
<1>3. Source(p)' = Source(p)
  BY <1>2 DEF Source, DefaultSource, Given
<1>4. \/ /\ pc'[p] = "loaded" /\ source'[p] = "none"
         /\ Source(p) # "SHARGON_CONFIG"
         /\ Source(p) # "none" => /\ files[Source(p)].kind = "missing"
                                  /\ files[Source(p)] = Missing
      \/ pc'[p] = "reading" /\ source'[p] = Source(p) /\ Source(p) # "none"
  <2>1. ASSUME Source(p) \in Variable, files[Source(p)].kind = "missing"
        PROVE  files[Source(p)] = Missing
    BY <2>1, ContentsFacts DEF IInv, Types
  <2>2. {"XDG_CONFIG_HOME", "HOME"} \subseteq Variable
    BY DEF Variable
  <2> QED
    BY <1>2, <2>1, <2>2 DEF IInv, Types, Resolve
<1>5. Loading(p)'
  BY <1>2, <1>3, <1>4, DefaultFacts, HoldsFacts DEF Loading
<1>6. ASSUME NEW q \in Process PROVE Loading(q)'
  BY <1>2, <1>5, <1>6, OthersKeep
<1>7. Serving'
  BY <1>2, <1>4 DEF IInv, Serving, Process
<1> QED
  BY <1>1, <1>6, <1>7 DEF IInv

\* load_from_path takes what the file holds, or fails.
LEMMA ReadFileKeeps ==
  ASSUME IInv, NEW p \in Process, ReadFile(p)
  PROVE  IInv'
<1>1. /\ UNCHANGED <<env, files, edited, source, seen>>
      /\ \A q \in Process : q # p => pc'[q] = pc[q] /\ settings'[q] = settings[q]
      /\ pc[p] = "reading" /\ source[p] # "none" /\ source[p] = Source(p)
      /\ source[p] \in Variable
      /\ files[source[p]] \in seen[p]
  BY DEF IInv, Types, Loading, ReadFile
<1>2. /\ files[source[p]].settings \in Written \cup {Default}
      /\ files[source[p]].kind = "settings" =>
           files[source[p]] = [kind |-> "settings", settings |-> files[source[p]].settings]
  BY <1>1, ContentsFacts DEF IInv, Types
<1>3. Types'
  BY <1>1, <1>2 DEF IInv, Types, ReadFile
<1>4. Source(p)' = Source(p)
  BY <1>1 DEF Source, DefaultSource, Given
<1>5. \/ pc'[p] = "failed"
      \/ /\ pc'[p] = "validating"
         /\ files[source[p]].kind = "settings" /\ settings'[p] = files[source[p]].settings
  BY DEF IInv, Types, ReadFile
<1>6. Loading(p)'
  BY <1>1, <1>2, <1>4, <1>5 DEF Loading
<1>7. ASSUME NEW q \in Process PROVE Loading(q)'
  BY <1>1, <1>6, <1>7, OthersKeep
<1>8. Serving'
  BY <1>1, <1>5 DEF IInv, Serving, Process
<1> QED
  BY <1>3, <1>7, <1>8 DEF IInv

\* load_from_path accepts what is valid.
LEMMA ValidateKeeps ==
  ASSUME IInv, NEW p \in Process, Validate(p)
  PROVE  IInv'
<1>1. /\ UNCHANGED <<env, files, edited, source, settings, seen>>
      /\ \A q \in Process : q # p => pc'[q] = pc[q]
      /\ pc[p] = "validating"
      /\ Loading(p)
  BY DEF IInv, Types, Validate
<1>2. Types'
  BY <1>1 DEF IInv, Types, Validate
<1>3. Source(p)' = Source(p)
  BY <1>1 DEF Source, DefaultSource, Given
<1>4. \/ pc'[p] = "failed"
      \/ pc'[p] = "loaded" /\ Sensible(settings[p])
  <2>1. ASSUME Valid(settings[p]), pc' = [pc EXCEPT ![p] = "loaded"]
        PROVE  pc'[p] = "loaded" /\ Sensible(settings[p])
    BY <2>1, ValidIsSensible DEF IInv, Types
  <2>2. ASSUME pc' = [pc EXCEPT ![p] = "failed"]
        PROVE  pc'[p] = "failed"
    BY <2>2 DEF IInv, Types
  <2> QED
    BY <2>1, <2>2 DEF Validate
<1>5. Sensible(settings[p])' <=> Sensible(settings[p])
  BY <1>1 DEF Sensible
<1>6. Loading(p)'
  BY <1>1, <1>3, <1>4, <1>5 DEF Loading
<1>7. ASSUME NEW q \in Process PROVE Loading(q)'
  BY <1>1, <1>6, <1>7, OthersKeep
<1>8. Serving'
  BY <1>1, <1>4 DEF IInv, Serving, Process
<1> QED
  BY <1>2, <1>7, <1>8 DEF IInv

\* build_backend serves what it can be built from.
LEMMA BuildKeeps ==
  ASSUME IInv, Build
  PROVE  IInv'
<1>1. /\ UNCHANGED <<env, files, edited, source, settings, seen>>
      /\ \A q \in Process : q # "daemon" => pc'[q] = pc[q]
      /\ pc["daemon"] = "loaded"
      /\ "daemon" \in Process
      /\ Loading("daemon")
  BY DEF IInv, Types, Build, Process
<1>2. Types'
  BY <1>1 DEF IInv, Types, Build
<1>3. Source("daemon")' = Source("daemon")
  BY <1>1 DEF Source, DefaultSource, Given
<1>4. \/ pc'["daemon"] = "failed"
      \/ /\ pc'["daemon"] = "serving"
         /\ settings["daemon"].backend.default = "Nspawn"
         /\ settings["daemon"].backend.nspawn.root_directory # "None"
  BY <1>1 DEF IInv, Types, Build, Implemented, New
<1>5. Sensible(settings["daemon"])' <=> Sensible(settings["daemon"])
  BY <1>1 DEF Sensible
<1>6. Loading("daemon")'
  BY <1>1, <1>3, <1>4, <1>5 DEF Loading
<1>7. ASSUME NEW q \in Process PROVE Loading(q)'
  BY <1>1, <1>6, <1>7, OthersKeep
<1>8. Serving'
  BY <1>1, <1>4 DEF IInv, Serving, Process
<1> QED
  BY <1>2, <1>7, <1>8 DEF IInv

\* After an edit only what does not speak of the files has to hold, as long as a
\* process has begun to load; and before, nothing has.
LEMMA EditKeeps ==
  ASSUME IInv, Edit
  PROVE  IInv'
<1>1. /\ UNCHANGED <<env, pc, source, settings>>
      /\ edited' \/ \A p \in Process : pc[p] = "start"
      /\ \A p \in Process :
           seen'[p] = IF pc[p] = "reading" THEN seen[p] \cup Holds(p)' ELSE seen[p]
  BY DEF Edit
<1>2. files' \in [Variable -> Contents]
  BY DEF Edit, IInv, Types
<1>3. Types'
  <2>1. edits' \in 0..MaxEdits
    BY MaxEditsAssumption DEF Edit, IInv, Types
  <2>2. root' \in {"directory", "file", "missing"} /\ edited' \in BOOLEAN
    BY DEF Edit, IInv, Types
  <2>3. \A p \in Process : Holds(p)' \subseteq Contents
    BY <1>2 DEF Holds
  <2>4. seen' \in [Process -> SUBSET Contents]
    BY <2>3 DEF IInv, Types, Edit
  <2> QED
    BY <1>1, <1>2, <2>1, <2>2, <2>4 DEF IInv, Types
<1>4. ASSUME NEW p \in Process PROVE Loading(p)'
  <2>1. Loading(p)
    BY DEF IInv
  <2>2. Source(p)' = Source(p)
    BY <1>1 DEF Source, DefaultSource, Given
  <2>3. Sensible(settings[p])' <=> Sensible(settings[p])
    BY <1>1 DEF Sensible
  <2>4. pc[p] = "reading" => files'[source[p]] \in Holds(p)'
    <3>1. Source(p)' # "none" => Holds(p)' = {files'[Source(p)']}
      BY <1>1, <2>2, HoldsFacts, SourceFacts DEF Holds, Decides, Source, DefaultSource, Given, Variable
    <3> QED
      BY <1>1, <2>1, <2>2, <3>1 DEF Loading
  <2>5. seen[p] \subseteq seen'[p] /\ (pc[p] # "reading" => seen'[p] = seen[p])
    BY <1>1
  <2>6. pc[p] = "reading" => files'[source[p]] \in seen'[p]
    BY <1>1, <2>4
  <2> QED
    BY <1>1, <2>1, <2>2, <2>3, <2>5, <2>6 DEF Loading
<1>5. Serving'
  BY <1>1 DEF IInv, Serving
<1> QED
  BY <1>3, <1>4, <1>5 DEF IInv

\* Stuttering changes nothing.
LEMMA StutterKeeps ==
  ASSUME IInv, UNCHANGED vars
  PROVE  IInv'
<1>1. UNCHANGED <<env, files, root, edited, edits, pc, source, settings, seen>>
  BY DEF vars
<1>2. Types' /\ Serving'
  BY <1>1 DEF IInv, Types, Serving
<1>3. ASSUME NEW p \in Process PROVE Loading(p)'
  <2>1. Loading(p)
    BY DEF IInv
  <2>2. Source(p)' = Source(p) /\ (Sensible(settings[p])' <=> Sensible(settings[p]))
    BY <1>1 DEF Source, DefaultSource, Given, Sensible
  <2> QED
    BY <1>1, <2>1, <2>2 DEF Loading
<1> QED
  BY <1>2, <1>3 DEF IInv

\* Loading and building keep the invariant whatever is edited in between.
THEOREM SettingsInvariance == Spec => []IInv
<1>1. IInv /\ [Next]_vars => IInv'
  <2> SUFFICES ASSUME IInv, [Next]_vars PROVE IInv'
    OBVIOUS
  <2> QED
    BY ResolveKeeps, ReadFileKeeps, ValidateKeeps, BuildKeeps, EditKeeps, StutterKeeps DEF Next
<1> QED
  BY <1>1, InitHolds, PTL DEF Spec

-----------------------------------------------------------------------------
(***************************************************************************)
(* The properties.                                                         *)
(***************************************************************************)

\* The types; and whatever settings were accepted make sense, although the defaults
\* were never validated (ShargonSettings::load).
THEOREM SettingsTypes == Spec => []TypeOK
<1>1. IInv => TypeOK
  BY DEF IInv, Types, Loading, Serving, TypeOK
<1> QED
  BY <1>1, SettingsInvariance, PTL

\* The configuration that was asked for is used as the file held it while it was
\* loaded, or the process fails, whatever is edited at any moment: neither a file that
\* vanishes before it is read nor an empty variable makes load_with_sources fall back.
THEOREM NoFallback == Spec => []NeverFallsBack
<1>1. IInv => NeverFallsBack
  <2> SUFFICES ASSUME IInv, NEW p \in Process, pc[p] \in {"loaded", "serving"}
               PROVE  \/ [kind |-> "settings", settings |-> settings[p]] \in seen[p]
                      \/ /\ ~Decides(p, "SHARGON_CONFIG") /\ seen[p] \subseteq {Missing}
                         /\ settings[p] = Default
    BY DEF NeverFallsBack
  <2>1. Loading(p)
    BY DEF IInv
  <2> QED
    BY <2>1, HoldsFacts DEF Loading
<1> QED
  BY <1>1, SettingsInvariance, PTL

\* A daemon serves only with a pool of at least one machine and an absolute root
\* directory, which NspawnBackend takes for granted (build_backend).
THEOREM ServedIsConfigured == Spec => []ServesOnlyConfigured
<1>1. IInv => ServesOnlyConfigured
  <2> SUFFICES ASSUME IInv, pc["daemon"] = "serving"
               PROVE  /\ source["daemon"] # "none"
                      /\ settings["daemon"].backend.default_parallel_vms > 0
                      /\ settings["daemon"].backend.default = "Nspawn"
                      /\ settings["daemon"].backend.nspawn.root_directory = "absolute"
    BY DEF ServesOnlyConfigured
  <2>1. Loading("daemon") /\ settings["daemon"] \in Written \cup {Default}
    BY DEF IInv, Types, Process
  <2>2. /\ settings["daemon"].backend.default = "Nspawn"
        /\ settings["daemon"].backend.nspawn.root_directory # "None"
    BY DEF IInv, Serving
  <2>3. Sensible(settings["daemon"])
    BY <2>1 DEF Loading
  <2>4. source["daemon"] # "none"
    BY <2>1, <2>2, DefaultFacts DEF Loading
  <2>5. settings["daemon"].backend.nspawn.root_directory \in {"None", "relative", "absolute"}
    BY <2>1, SettingsFacts
  <2> QED
    BY <2>2, <2>3, <2>4, <2>5 DEF Sensible
<1> QED
  BY <1>1, SettingsInvariance, PTL

\* A client and a daemon that share their environment look at one socket, unless a
\* file changed since one of them began to load.
THEOREM ClientAndDaemonAgree == Spec => []ClientFindsDaemon
<1>1. IInv => ClientFindsDaemon
  <2> SUFFICES ASSUME IInv, pc["client"] = "loaded", pc["daemon"] = "serving",
                      env["client"] = env["daemon"], ~edited
               PROVE  settings["client"].daemon.socket_path = settings["daemon"].daemon.socket_path
    BY DEF ClientFindsDaemon
  <2>1. Loading("client") /\ Loading("daemon")
    BY DEF IInv, Process
  <2>2. Source("client") = Source("daemon")
    BY DEF Source, DefaultSource, Given
  <2>3. settings["client"] = settings["daemon"]
    BY <2>1, <2>2 DEF Loading
  <2> QED
    BY <2>3
<1> QED
  BY <1>1, SettingsInvariance, PTL

=============================================================================
