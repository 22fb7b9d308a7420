------------------------ MODULE TaskPreparationProofs ------------------------
(***************************************************************************)
(* The preparation of tasks, for any number of tasks, images and crashes   *)
(* and whatever calls fail.                                                *)
(***************************************************************************)
EXTENDS TaskPreparation, WellFoundedInduction, TLAPS

Fetching == {"pull", "config", "files", "bootstrap", "write", "create"}

\* The GC only has images on its list that are there.
VictimsPresent == \A i \in victims : image[i] # "absent"

\* An image a start under way had to pull is young and not on the list.
FetchedFresh ==
    \A t \in fetched : stage[t] # "running" =>
        /\ stage[t] \in Fetching
        /\ ImageOf[t] \notin victims
        /\ image[ImageOf[t]] # "old"
        /\ stage[t] # "pull" => image[ImageOf[t]] = "fresh"

\* Once its container is there, the GC sees that, or the image is still young.
FetchedUsed ==
    \A t \in fetched : stage[t] = "running" =>
        /\ ImageOf[t] \notin victims
        /\ image[ImageOf[t]] # "absent"
        /\ gc = "containers" => ImageOf[t] \in used \/ image[ImageOf[t]] = "fresh"

ImagesInv == VictimsPresent /\ FetchedFresh /\ FetchedUsed

\* A file is as Nomad wrote it, rewritten, or torn; what a container gets has
\* been rewritten.  Without an address no file is touched.
FilesInv ==
    \A t \in Tasks :
        /\ bootstrap[t] \in {Bootstrap[t], Rewritten(Bootstrap[t]), Torn}
        /\ IF consulGRPCAddr = "unset"
           THEN stage[t] # "write" /\ bootstrap[t] = Bootstrap[t]
           ELSE stage[t] \in {"create", "running"} => bootstrap[t] = Rewritten(Bootstrap[t])

\* A resolv.conf names a server that is not on the host's loopback.
Resolves(file) == (\E line \in file : IsServer(line)) /\ file \cap Loopback = {}

\* A task that takes its DNS from the host has such a file once it is past the
\* step that writes it.
ResolvInv ==
    \A t \in Tasks :
        stage[t] \in {"bootstrap", "write", "create", "running"} /\ Servers[t] = {}
        => Resolves(resolv[t])

-----------------------------------------------------------------------------
\* The types are inductive.
LEMMA PrepTypesStep == TypeOK /\ [Next]_vars => TypeOK'
<1> SUFFICES ASSUME TypeOK, [Next]_vars PROVE TypeOK'
  OBVIOUS
<1> USE ImageAssumption, CrashAssumption DEF TypeOK, Stages, envVars
<1>1. ASSUME NEW t \in Tasks, NEW from \in Stages, Fail(t, from) PROVE TypeOK'
  BY <1>1 DEF Fail, Move, fileVars, gcVars
<1>2. ASSUME NEW t \in Tasks, StartTask(t) \/ EnsureImage(t) \/ Pull(t) PROVE TypeOK'
  <2>1. stage' \in [Tasks -> Stages]
    BY <1>2 DEF StartTask, EnsureImage, Pull, Move
  <2>2. fetched' \in SUBSET Tasks
    BY <1>2 DEF StartTask, EnsureImage, Pull
  <2>3. image' \in [Images -> {"absent", "fresh", "old"}]
    BY <1>2 DEF StartTask, EnsureImage, Pull
  <2>4. UNCHANGED <<fileVars, gcVars, envVars>>
    BY <1>2 DEF StartTask, EnsureImage, Pull
  <2> QED
    BY <2>1, <2>2, <2>3, <2>4 DEF fileVars, gcVars
<1>3. ASSUME NEW t \in Tasks,
             \/ ImageConfig(t) \/ writeResolvConf(t) \/ RewriteEnvoyBootstrap(t)
             \/ WriteBootstrap(t) \/ CreateContainer(t)
      PROVE  TypeOK'
  <2>1. CASE \E from \in Stages : Fail(t, from)
    BY <1>1, <2>1
  <2>2. CASE ~\E from \in Stages : Fail(t, from)
    <3>1. stage' \in [Tasks -> Stages]
      BY <1>3, <2>2
      DEF ImageConfig, writeResolvConf, RewriteEnvoyBootstrap, WriteBootstrap, CreateContainer, Move
    <3>2. UNCHANGED <<image, fetched, gcVars, envVars>>
      BY <1>3, <2>2
      DEF ImageConfig, writeResolvConf, RewriteEnvoyBootstrap, WriteBootstrap, CreateContainer
    <3>3. DOMAIN resolv' = Tasks /\ DOMAIN bootstrap' = Tasks
      BY <1>3, <2>2
      DEF ImageConfig, writeResolvConf, RewriteEnvoyBootstrap, WriteBootstrap, CreateContainer,
          fileVars
    <3> QED
      BY <3>1, <3>2, <3>3 DEF gcVars
  <2> QED
    BY <2>1, <2>2
<1>4. ASSUME NEW i \in Images, DeleteImage(i) PROVE TypeOK'
  BY <1>4 DEF DeleteImage, fileVars
<1>5. CASE ListContainers \/ ListImages \/ EndRound
  <2>1. used' \in SUBSET Images
    BY <1>5 DEF ListContainers, ListImages, EndRound
  <2>2. victims' \in SUBSET Images
    BY <1>5 DEF ListContainers, ListImages, EndRound
  <2> QED
    BY <1>5, <2>1, <2>2 DEF ListContainers, ListImages, EndRound, fileVars
<1>6. ASSUME NEW i \in Images, Age(i) PROVE TypeOK'
  BY <1>6 DEF Age, fileVars, gcVars
<1>7. CASE Crash
  <2>1. crashes' \in 0 .. MaxCrashes
    BY <1>7 DEF Crash
  <2>2. stage' \in [Tasks -> Stages] /\ fetched' \in SUBSET Tasks
    BY <1>7 DEF Crash
  <2> QED
    BY <1>7, <2>1, <2>2 DEF Crash, fileVars
<1>8. CASE UNCHANGED vars
  BY <1>8 DEF vars
<1> QED
  BY <1>1, <1>2, <1>3, <1>4, <1>5, <1>6, <1>7, <1>8
  DEF Next, PrepareStep, GCStep, PullFails, DestroyTask

\* Every variable keeps its type.
THEOREM PrepTypes == Spec => []TypeOK
<1>1. Init => TypeOK
  BY BootstrapAssumption, CrashAssumption DEF Init, TypeOK, Stages
<1> QED
  BY <1>1, PrepTypesStep, PTL DEF Spec

-----------------------------------------------------------------------------
\* What a step of a start or of the GC does to the images.
LEMMA ImagesStep ==
  ASSUME ~SlowRounds, ~MayFail("ContainerImage")
  PROVE  TypeOK /\ ImagesInv /\ [Next]_vars => ImagesInv'
<1> SUFFICES ASSUME TypeOK, ImagesInv, [Next]_vars PROVE ImagesInv'
  OBVIOUS
<1> USE ImageAssumption
    DEF ImagesInv, VictimsPresent, FetchedFresh, FetchedUsed, Fetching, TypeOK
<1>1. ASSUME NEW t \in Tasks, NEW from \in Stages, Fail(t, from) PROVE ImagesInv'
  BY <1>1 DEF Fail, Move, gcVars
<1>2. ASSUME NEW t \in Tasks, StartTask(t) PROVE ImagesInv'
  BY <1>2 DEF StartTask, Move, gcVars
<1>3. ASSUME NEW t \in Tasks, EnsureImage(t) PROVE ImagesInv'
  BY <1>3 DEF EnsureImage, Move, gcVars
<1>4. ASSUME NEW t \in Tasks, Pull(t) PROVE ImagesInv'
  BY <1>4 DEF Pull, Move, gcVars
<1>5. ASSUME NEW t \in Tasks,
             \/ ImageConfig(t) \/ writeResolvConf(t) \/ RewriteEnvoyBootstrap(t)
             \/ WriteBootstrap(t) \/ CreateContainer(t)
      PROVE  ImagesInv'
  <2>1. CASE \E from \in Stages : Fail(t, from)
    BY <1>1, <2>1
  <2>2. CASE ~\E from \in Stages : Fail(t, from)
    <3>1. UNCHANGED <<image, fetched, gcVars>>
      BY <1>5, <2>2
      DEF ImageConfig, writeResolvConf, RewriteEnvoyBootstrap, WriteBootstrap, CreateContainer,
          Stages
    <3>2. /\ stage[t] \in {"config", "files", "bootstrap", "write", "create"}
          /\ \E to \in Fetching \cup {"running"} :
                 to # "pull" /\ stage' = [stage EXCEPT ![t] = to]
      BY <1>5, <2>2
      DEF ImageConfig, writeResolvConf, RewriteEnvoyBootstrap, WriteBootstrap, CreateContainer,
          Move, Stages
    <3> QED
      BY <3>1, <3>2 DEF gcVars
  <2> QED
    BY <2>1, <2>2
<1>6. ASSUME NEW i \in Images, DeleteImage(i) PROVE ImagesInv'
  BY <1>6 DEF DeleteImage
<1>7. CASE ListContainers
  BY <1>7 DEF ListContainers, InUse
<1>8. CASE ListImages
  BY <1>8 DEF ListImages
<1>9. CASE EndRound
  BY <1>9 DEF EndRound
<1>10. ASSUME NEW i \in Images, Age(i) PROVE ImagesInv'
  BY <1>10 DEF Age, Preparing, Stages, gcVars
<1>11. CASE Crash
  BY <1>11 DEF Crash
<1>12. CASE UNCHANGED vars
  BY <1>12 DEF vars
<1> QED
  BY <1>1, <1>2, <1>3, <1>4, <1>5, <1>6, <1>7, <1>8, <1>9, <1>10, <1>11, <1>12
  DEF Next, PrepareStep, GCStep, PullFails, DestroyTask, Stages

\* An image that was pulled for a start stays as long as it is needed.
THEOREM PrepFetchedStays ==
  ASSUME ~SlowRounds, ~MayFail("ContainerImage")
  PROVE  Spec => []FetchedStays
<1>1. Init => ImagesInv
  BY DEF Init, ImagesInv, VictimsPresent, FetchedFresh, FetchedUsed
<1>2. ImagesInv => FetchedStays
  BY DEF ImagesInv, FetchedFresh, FetchedUsed, FetchedStays
<1>3. TypeOK /\ ImagesInv /\ [Next]_vars => ImagesInv'
  BY ImagesStep
<1> QED
  BY <1>1, <1>2, <1>3, PrepTypes, PTL DEF Spec

-----------------------------------------------------------------------------
\* Rewriting a bootstrap leaves no socket to the agent and the others alone.
LEMMA RewrittenReaches ==
  ASSUME NEW file \in SUBSET [name: STRING, keys: {"load_assignment", "loadAssignment"},
                              address: STRING]
  PROVE  /\ \A c \in Rewritten(file) : ~(c.name = "local_agent" /\ c.address = "pipe")
         /\ {c \in Rewritten(file) : c.name # "local_agent"}
                = {c \in file : c.name # "local_agent"}
<1> DEFINE r(c) == IF c.name = "local_agent" /\ c.address = "pipe"
                   THEN [c EXCEPT !.address = "tcp"] ELSE c
<1>1. \A c \in file : /\ r(c).name = c.name
                      /\ ~(r(c).name = "local_agent" /\ r(c).address = "pipe")
                      /\ c.name # "local_agent" => r(c) = c
  OBVIOUS
<1>2. Rewritten(file) = {r(c) : c \in file}
  BY DEF Rewritten
<1> HIDE DEF r
<1> QED
  BY <1>1, <1>2

\* A file that is there stays there, and an absent one is not made.
LEMMA RewrittenEmpty == \A file : Rewritten(file) = {} <=> file = {}
<1> DEFINE r(c) == IF c.name = "local_agent" /\ c.address = "pipe"
                   THEN [c EXCEPT !.address = "tcp"] ELSE c
<1>1. \A file : Rewritten(file) = {r(c) : c \in file}
  BY DEF Rewritten
<1> HIDE DEF r
<1> QED
  BY <1>1

\* What a step does to the files, and to the tasks that have been given them.
LEMMA FilesStep == TypeOK /\ FilesInv /\ [Next]_vars => FilesInv'
<1> SUFFICES ASSUME TypeOK, FilesInv, [Next]_vars PROVE FilesInv'
  OBVIOUS
<1> USE DEF FilesInv, TypeOK, envVars
<1>1. ASSUME NEW t \in Tasks, NEW from \in Stages, Fail(t, from) PROVE FilesInv'
  BY <1>1 DEF Fail, Move, fileVars
<1>2. ASSUME NEW t \in Tasks,
             StartTask(t) \/ EnsureImage(t) \/ Pull(t) \/ ImageConfig(t) \/ writeResolvConf(t)
      PROVE  FilesInv'
  <2>1. bootstrap' = bootstrap /\ UNCHANGED consulGRPCAddr
    BY <1>2 DEF StartTask, EnsureImage, Pull, ImageConfig, writeResolvConf, Fail, fileVars
  <2>2. \A u \in Tasks : stage'[u] \in {"write", "create", "running"} => stage'[u] = stage[u]
    BY <1>2 DEF StartTask, EnsureImage, Pull, ImageConfig, writeResolvConf, Fail, Move
  <2> QED
    BY <2>1, <2>2
<1>3. ASSUME NEW t \in Tasks, RewriteEnvoyBootstrap(t) PROVE FilesInv'
  <2>1. CASE Fail(t, "bootstrap")
    BY <1>1, <2>1 DEF Stages
  <2>2. CASE /\ Rewrites(t) => bootstrap[t] # Torn /\ bootstrap[t] = Rewritten(bootstrap[t])
             /\ Move(t, "bootstrap", "create") /\ UNCHANGED <<fileVars, envVars>>
    <3>1. consulGRPCAddr # "unset" => bootstrap[t] = Rewritten(Bootstrap[t])
      <4>1. CASE Rewrites(t)
        BY <2>2, <4>1
      <4>2. CASE bootstrap[t] = {}
        BY <4>2, RewrittenEmpty DEF Torn
      <4> QED
        BY <4>1, <4>2 DEF Rewrites
    <3> QED
      BY <2>2, <3>1 DEF Move, fileVars
  <2>3. CASE /\ Rewrites(t) /\ UNCHANGED envVars
             /\ Move(t, "bootstrap", "write") /\ bootstrap' = [bootstrap EXCEPT ![t] = Torn]
    BY <2>3 DEF Move, Rewrites
  <2> QED
    BY <1>3, <2>1, <2>2, <2>3 DEF RewriteEnvoyBootstrap
<1>4. ASSUME NEW t \in Tasks, WriteBootstrap(t) PROVE FilesInv'
  <2>1. CASE Fail(t, "write")
    BY <1>1, <2>1 DEF Stages
  <2>2. CASE /\ Move(t, "write", "create")
             /\ bootstrap' = [bootstrap EXCEPT ![t] = Rewritten(Bootstrap[t])]
             /\ UNCHANGED envVars
    BY <2>2 DEF Move
  <2> QED
    BY <1>4, <2>1, <2>2 DEF WriteBootstrap
<1>5. ASSUME NEW t \in Tasks, CreateContainer(t) PROVE FilesInv'
  BY <1>5 DEF CreateContainer, Fail, Move, fileVars
<1>6. CASE Crash
  BY <1>6 DEF Crash, fileVars
<1>7. CASE UNCHANGED <<stage, bootstrap, consulGRPCAddr>>
  BY <1>7
<1>8. ASSUME \/ GCStep \/ UNCHANGED vars \/ \E i \in Images : Age(i)
      PROVE  UNCHANGED <<stage, bootstrap, consulGRPCAddr>>
  BY <1>8
  DEF GCStep, ListContainers, ListImages, EndRound, DeleteImage, Age, fileVars, vars
<1> QED
  BY <1>1, <1>2, <1>3, <1>4, <1>5, <1>6, <1>7, <1>8
  DEF Next, PrepareStep, PullFails, DestroyTask, Stages

\* Whatever fails or crashes, a proxy that runs has a whole bootstrap: rewritten
\* when the plugin has an address of Consul, as Nomad wrote it when it has none.
THEOREM PrepEnvoy == Spec => []EnvoyReachesConsul
<1>1. Init => FilesInv
  BY BootstrapAssumption DEF Init, FilesInv
<1>2. FilesInv => EnvoyReachesConsul
  <2> SUFFICES ASSUME FilesInv, NEW t \in Tasks, stage[t] = "running", consulGRPCAddr # "unset"
               PROVE  /\ \A c \in bootstrap[t] : ~(c.name = "local_agent" /\ c.address = "pipe")
                      /\ {c \in bootstrap[t] : c.name # "local_agent"}
                             = {c \in Bootstrap[t] : c.name # "local_agent"}
    BY DEF EnvoyReachesConsul, FilesInv
  <2>1. bootstrap[t] = Rewritten(Bootstrap[t])
    BY DEF FilesInv
  <2> QED
    BY <2>1, BootstrapAssumption, RewrittenReaches
<1> QED
  BY <1>1, <1>2, PrepTypes, FilesStep, PTL DEF Spec

-----------------------------------------------------------------------------
\* Some number of a set of naturals is the smallest.
LEMMA SmallestExists ==
  ASSUME NEW S, S \subseteq Nat, S # {}
  PROVE  \E n \in S : \A m \in S : n <= m
<1>1. PICK n \in S : \A m \in S : ~(<<m, n>> \in OpToRel(<, Nat))
  BY NatLessThanWellFounded, WFMin
<1>2. \A m \in S : ~(m < n)
  BY <1>1 DEF OpToRel
<1> QED
  BY <1>2

\* Whatever files the host has, what a task is given resolves.
LEMMA HostResolves ==
  ASSUME NEW files \in HostFiles
  PROVE  Resolves(hostResolvConf(files))
<1> DEFINE real == {n \in DOMAIN files :
                       \E line \in filterResolvConf(files[n]) : IsServer(line)}
           first == CHOOSE n \in real : \A m \in real : n <= m
<1>1. CASE real = {}
  BY <1>1 DEF hostResolvConf, Resolves, Loopback, IsServer
<1>2. CASE real # {}
  <2>1. real \subseteq Nat
    BY FilesAssumption
  <2>2. first \in real
    BY <1>2, <2>1, SmallestExists
  <2>3. hostResolvConf(files) = filterResolvConf(files[first])
    BY <1>2 DEF hostResolvConf
  <2> QED
    BY <2>2, <2>3 DEF Resolves, filterResolvConf
<1> QED
  BY <1>1, <1>2

\* Only writeResolvConf touches the file, and nobody gets past it without.
LEMMA ResolvStep == TypeOK /\ ResolvInv /\ [Next]_vars => ResolvInv'
<1> SUFFICES ASSUME TypeOK, ResolvInv, [Next]_vars PROVE ResolvInv'
  OBVIOUS
<1> USE DEF ResolvInv, TypeOK
<1>1. ASSUME NEW t \in Tasks, NEW from \in Stages, Fail(t, from) PROVE ResolvInv'
  BY <1>1 DEF Fail, Move, fileVars
<1>2. ASSUME NEW t \in Tasks, StartTask(t) \/ EnsureImage(t) \/ Pull(t) \/ ImageConfig(t)
      PROVE  ResolvInv'
  <2>1. resolv' = resolv
    BY <1>2 DEF StartTask, EnsureImage, Pull, ImageConfig, Fail, fileVars
  <2>2. \A u \in Tasks : stage'[u] \in {"bootstrap", "write", "create", "running"}
                           => stage'[u] = stage[u]
    BY <1>2 DEF StartTask, EnsureImage, Pull, ImageConfig, Fail, Move
  <2> QED
    BY <2>1, <2>2
<1>3. ASSUME NEW t \in Tasks, writeResolvConf(t) PROVE ResolvInv'
  <2>1. CASE Fail(t, "files")
    BY <1>1, <2>1 DEF Stages
  <2>2. CASE ~Fail(t, "files")
    <3>1. PICK files \in HostFiles :
              resolv' = [resolv EXCEPT ![t] =
                            IF Servers[t] # {} THEN Servers[t] ELSE hostResolvConf(files)]
      BY <1>3, <2>2 DEF writeResolvConf
    <3>2. stage' = [stage EXCEPT ![t] = "bootstrap"]
      BY <1>3, <2>2 DEF writeResolvConf, Move
    <3>3. Servers[t] = {} => Resolves(resolv'[t])
      BY <3>1, HostResolves
    <3>4. \A u \in Tasks : u # t => resolv'[u] = resolv[u] /\ stage'[u] = stage[u]
      BY <3>1, <3>2
    <3> QED
      BY <3>3, <3>4
  <2> QED
    BY <2>1, <2>2
<1>4. ASSUME NEW t \in Tasks,
             RewriteEnvoyBootstrap(t) \/ WriteBootstrap(t) \/ CreateContainer(t)
      PROVE  ResolvInv'
  <2>1. resolv' = resolv
    BY <1>4 DEF RewriteEnvoyBootstrap, WriteBootstrap, CreateContainer, Fail, fileVars
  <2>2. stage[t] \in {"bootstrap", "write", "create"}
    BY <1>4 DEF RewriteEnvoyBootstrap, WriteBootstrap, CreateContainer, Fail, Move
  <2>3. \A u \in Tasks : u # t => stage'[u] = stage[u]
    BY <1>4 DEF RewriteEnvoyBootstrap, WriteBootstrap, CreateContainer, Fail, Move
  <2> QED
    BY <2>1, <2>2, <2>3
<1>5. CASE Crash
  BY <1>5 DEF Crash, fileVars
<1>6. CASE GCStep \/ UNCHANGED vars \/ \E i \in Images : Age(i)
  BY <1>6
  DEF GCStep, ListContainers, ListImages, EndRound, DeleteImage, Age, fileVars, vars
<1> QED
  BY <1>1, <1>2, <1>3, <1>4, <1>5, <1>6
  DEF Next, PrepareStep, PullFails, DestroyTask, Stages

\* A task that takes its DNS from the host can resolve names, whatever files the
\* host has and whatever fails or crashes.
THEOREM PrepNamesResolve == Spec => []NamesResolve
<1>1. Init => ResolvInv
  BY DEF Init, ResolvInv
<1>2. ResolvInv => NamesResolve
  BY DEF ResolvInv, NamesResolve, Resolves
<1> QED
  BY <1>1, <1>2, PrepTypes, ResolvStep, PTL DEF Spec
=============================================================================
