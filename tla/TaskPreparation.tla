---------------------------- MODULE TaskPreparation ----------------------------
(***************************************************************************)
(* What StartTask does between the sandbox and the handle (kata/driver.go) *)
(* while the image GC goes round: the image is ensured and read, the       *)
(* resolv.conf and Envoy's bootstrap are written, the container is made.   *)
(* A task is at                                                            *)
(*                                                                         *)
(*    idle       no container                                              *)
(*    ensure, pull, config    EnsureImage, its pull, ImageConfig           *)
(*    files, bootstrap, write    writeResolvConf, rewriteEnvoyBootstrap    *)
(*    create     CreateContainer                                           *)
(*    running    there is a container, which uses the image                *)
(*                                                                         *)
(* and the GC at idle, containers (it has listed those) or images (both).  *)
(***************************************************************************)
EXTENDS Naturals, Sequences

CONSTANTS Tasks,
          Images,
          ImageOf,     \* the image of each task
          ForcePull,   \* the tasks with force_pull
          Servers,     \* the DNS servers each task asks for, {} for the host's
          HostFiles,   \* what the host's resolv.conf files may be, in order
          Bootstrap,   \* the clusters of each task's envoy_bootstrap.json, {} for none
          Stuck,       \* images containerd refuses to delete
          Faults,      \* the calls that may fail at any time
          SlowRounds,  \* a GC round, or a start, may take longer than gc_image_delay
          MaxCrashes   \* bound: crashes of the plugin process

ASSUME ImageAssumption == ImageOf \in [Tasks -> Images] /\ Stuck \subseteq Images
ASSUME BootstrapAssumption ==
    Bootstrap \in [Tasks -> SUBSET [name: STRING, keys: {"load_assignment", "loadAssignment"},
                                   address: STRING]]
ASSUME FilesAssumption == \A files \in HostFiles : files \in Seq(SUBSET STRING)
ASSUME CrashAssumption == MaxCrashes \in Nat /\ SlowRounds \in BOOLEAN

VARIABLES
    image,      \* each image: absent, fresh (younger than the delay) or old
    stage,      \* where each task stands
    fetched,    \* tasks whose image was absent, so that their start pulled it
    resolv,     \* the lines of each task's resolv.conf
    bootstrap,  \* each task's bootstrap file, Torn when half written
    gc,         \* where the GC stands
    used,       \* the images it takes to be in use
    victims,    \* the images it has yet to delete
    consulGRPCAddr,  \* consul_grpc_addr in the plugin's configuration
    crashes     \* crashes so far

gcVars   == <<gc, used, victims>>
fileVars == <<resolv, bootstrap>>
envVars  == <<consulGRPCAddr, crashes>>
vars     == <<image, stage, fetched, resolv, bootstrap, gc, used, victims, consulGRPCAddr,
              crashes>>

\* SetConfig takes an address whose port is no number too.
Addresses == {"unset", "host:port", "host:name"}

Stages    == {"idle", "ensure", "pull", "config", "files", "bootstrap", "write",
              "create", "running"}
Preparing == Stages \ {"idle", "running"}
Torn      == {[name |-> "torn", keys |-> "torn", address |-> "torn"]}

TypeOK ==
    /\ image \in [Images -> {"absent", "fresh", "old"}]
    /\ stage \in [Tasks -> Stages]
    /\ fetched \in SUBSET Tasks
    /\ DOMAIN resolv = Tasks /\ DOMAIN bootstrap = Tasks
    /\ gc \in {"idle", "containers", "images"}
    /\ used \in SUBSET Images /\ victims \in SUBSET Images
    /\ consulGRPCAddr \in Addresses
    /\ crashes \in 0 .. MaxCrashes

Init ==
    /\ image \in [Images -> {"absent", "fresh", "old"}]
    /\ stage = [t \in Tasks |-> "idle"]
    /\ fetched = {}
    /\ resolv = [t \in Tasks |-> {}]
    /\ bootstrap = Bootstrap
    /\ gc = "idle" /\ used = {} /\ victims = {}
    /\ consulGRPCAddr \in Addresses
    /\ crashes = 0

InUse(i)   == \E t \in Tasks : stage[t] = "running" /\ ImageOf[t] = i
MayFail(c) == c \in Faults

Move(t, from, to) ==
    /\ stage[t] = from
    /\ stage' = [stage EXCEPT ![t] = to]

\* StartTask returns an error: the sandbox is released, the files stay.
Fail(t, from) ==
    /\ Move(t, from, "idle")
    /\ fetched' = fetched \ {t}
    /\ UNCHANGED <<image, fileVars, gcVars, envVars>>

-----------------------------------------------------------------------------
(* StartTask.                                                              *)

StartTask(t) ==
    /\ Move(t, "idle", "ensure")
    /\ UNCHANGED <<image, fetched, fileVars, gcVars, envVars>>

\* EnsureImage: an image that is there will do, however old, unless the job
\* wants it pulled anyway.
EnsureImage(t) ==
    LET present == image[ImageOf[t]] # "absent" IN
    /\ Move(t, "ensure", IF present /\ t \notin ForcePull THEN "config" ELSE "pull")
    /\ fetched' = IF present THEN fetched \ {t} ELSE fetched \cup {t}
    /\ UNCHANGED <<image, fileVars, gcVars, envVars>>

\* The pull ends; the image is new, or has a new timestamp.
Pull(t) ==
    /\ Move(t, "pull", "config")
    /\ image' = [image EXCEPT ![ImageOf[t]] = "fresh"]
    /\ UNCHANGED <<fetched, fileVars, gcVars, envVars>>

\* As if the pull had no deadline.
Mutant_NoDeadline(t) == FALSE /\ Fail(t, "pull")

\* The registry refuses, or image_pull_timeout is over.
PullFails(t) == Fail(t, "pull")

ImageConfig(t) ==
    \/ /\ image[ImageOf[t]] # "absent"
       /\ Move(t, "config", "files")
       /\ UNCHANGED <<image, fetched, fileVars, gcVars, envVars>>
    \/ /\ image[ImageOf[t]] = "absent" \/ MayFail("ImageConfig")
       /\ Fail(t, "config")

Loopback == {"127.0.0.53", "::1"}
IsServer(line) == line # "search"

\* As if the address of a nameserver were not looked at.
Mutant_KeepLoopback(file) == file

\* Nameservers of the host itself are of no use in a VM.
filterResolvConf(file) == file \ Loopback

\* The first of the host's files with a real nameserver, or public ones.
hostResolvConf(files) ==
    LET real == {n \in DOMAIN files : \E line \in filterResolvConf(files[n]) : IsServer(line)}
    IN  IF real = {} THEN {"8.8.8.8", "1.1.1.1"}
        ELSE filterResolvConf(files[CHOOSE n \in real : \A m \in real : n <= m])

writeResolvConf(t) ==
    \/ /\ Move(t, "files", "bootstrap")
       /\ \E files \in HostFiles :
              resolv' = [resolv EXCEPT ![t] =
                            IF Servers[t] # {} THEN Servers[t] ELSE hostResolvConf(files)]
       /\ UNCHANGED <<image, fetched, bootstrap, gcVars, envVars>>
    \/ /\ MayFail("WriteFile")
       /\ Fail(t, "files")

\* As if only the first spelling of the keys were known.
Mutant_SnakeCaseOnly(file) ==
    {IF c.name = "local_agent" /\ c.address = "pipe" /\ c.keys = "load_assignment"
     THEN [c EXCEPT !.address = "tcp"] ELSE c : c \in file}

\* The Unix socket of the local Consul agent, which a VM cannot reach, becomes
\* a TCP address, whichever way the keys are spelled; no other cluster changes.
Rewritten(file) ==
    {IF c.name = "local_agent" /\ c.address = "pipe" THEN [c EXCEPT !.address = "tcp"]
     ELSE c : c \in file}

\* As if an address that cannot be taken apart were passed over like none.
Mutant_BadAddressIgnored(t) == consulGRPCAddr = "host:port" /\ bootstrap[t] # {}

\* Only with consul_grpc_addr, and only a file that is there, is looked at.
Rewrites(t) == consulGRPCAddr # "unset" /\ bootstrap[t] # {}

\* A file that needs a change is first truncated, then written; one that cannot
\* be read or parsed, or a port that is no number, fails the start.
RewriteEnvoyBootstrap(t) ==
    \/ /\ Rewrites(t) => /\ consulGRPCAddr = "host:port"
                         /\ bootstrap[t] # Torn
                         /\ bootstrap[t] = Rewritten(bootstrap[t])
       /\ Move(t, "bootstrap", "create")
       /\ UNCHANGED <<image, fetched, fileVars, gcVars, envVars>>
    \/ /\ Rewrites(t)
       /\ consulGRPCAddr = "host:port"
       /\ bootstrap[t] # Torn
       /\ bootstrap[t] # Rewritten(bootstrap[t])
       /\ Move(t, "bootstrap", "write")
       /\ bootstrap' = [bootstrap EXCEPT ![t] = Torn]
       /\ UNCHANGED <<image, fetched, resolv, gcVars, envVars>>
    \/ /\ Rewrites(t)
       /\ bootstrap[t] = Torn \/ consulGRPCAddr # "host:port" \/ MayFail("ReadFile")
       /\ Fail(t, "bootstrap")

\* The disk may be full: the file stays as it is.
WriteBootstrap(t) ==
    \/ /\ Move(t, "write", "create")
       /\ bootstrap' = [bootstrap EXCEPT ![t] = Rewritten(Bootstrap[t])]
       /\ UNCHANGED <<image, fetched, resolv, gcVars, envVars>>
    \/ /\ MayFail("WriteFile")
       /\ Fail(t, "write")

\* CreateContainer looks the image up once more.
CreateContainer(t) ==
    \/ /\ image[ImageOf[t]] # "absent"
       /\ Move(t, "create", "running")
       /\ UNCHANGED <<image, fetched, fileVars, gcVars, envVars>>
    \/ /\ image[ImageOf[t]] = "absent" \/ MayFail("CreateContainer")
       /\ Fail(t, "create")

\* The container goes, the image stays.
DestroyTask(t) == Fail(t, "running")

-----------------------------------------------------------------------------
(* GarbageCollect, on every tick of imageGC.                               *)

\* As if images were told apart by their digests here and by name there.
Mutant_ByDigest ==
    /\ gc = "idle" /\ gc' = "containers"
    /\ used' = {<<i, "digest">> : i \in {j \in Images : InUse(j)}}
    /\ UNCHANGED <<image, stage, fetched, fileVars, victims, envVars>>

\* The images of all containers, except of those that cannot be looked up.
ListContainers ==
    /\ gc = "idle" /\ gc' = "containers"
    /\ \E seen \in IF MayFail("ContainerImage") THEN SUBSET Images ELSE {Images} :
           used' = {i \in seen : InUse(i)}
    /\ UNCHANGED <<image, stage, fetched, fileVars, victims, envVars>>

\* As if the age of an image did not matter.
Mutant_AgeIgnored ==
    /\ gc = "containers" /\ gc' = "images"
    /\ victims' = {i \in Images : image[i] # "absent"} \ used
    /\ used' = {}
    /\ UNCHANGED <<image, stage, fetched, fileVars, envVars>>

\* Afterwards the images: those that are old and not among them have to go.
ListImages ==
    /\ gc = "containers" /\ gc' = "images"
    /\ victims' = {i \in Images : image[i] = "old"} \ used
    /\ used' = {}
    /\ UNCHANGED <<image, stage, fetched, fileVars, envVars>>

\* As if the first image that cannot be removed ended the round.
Mutant_StopAtError(i) ==
    /\ i \in victims
    /\ victims' = IF i \in Stuck THEN {} ELSE victims \ {i}
    /\ image' = IF i \in Stuck THEN image ELSE [image EXCEPT ![i] = "absent"]
    /\ UNCHANGED <<stage, fetched, fileVars, gc, used, envVars>>

\* By name, as it was listed: whatever has become of the image since.
DeleteImage(i) ==
    /\ i \in victims
    /\ victims' = victims \ {i}
    /\ image' = IF i \in Stuck THEN image ELSE [image EXCEPT ![i] = "absent"]
    /\ UNCHANGED <<stage, fetched, fileVars, gc, used, envVars>>

\* The round is over, or one of the lists could not be had.
EndRound ==
    /\ \/ gc = "images" /\ victims = {}
       \/ gc = "containers" /\ MayFail("ListImages")
    /\ gc' = "idle"
    /\ used' = {}
    /\ UNCHANGED <<image, stage, fetched, fileVars, victims, envVars>>

GCStep == ListContainers \/ ListImages \/ EndRound \/ \E i \in Images : DeleteImage(i)

-----------------------------------------------------------------------------
\* gc_image_delay passes.  Nothing under way takes that long: no start that
\* pulls the image, no GC round between its two lists.
Age(i) ==
    /\ image[i] = "fresh"
    /\ SlowRounds \/ /\ gc # "containers"
                     /\ \A t \in fetched : ImageOf[t] = i => stage[t] \notin Preparing
    /\ image' = [image EXCEPT ![i] = "old"]
    /\ UNCHANGED <<stage, fetched, fileVars, gcVars, envVars>>

\* The plugin process dies in the middle of anything and is restarted.
Crash ==
    /\ crashes < MaxCrashes
    /\ crashes' = crashes + 1
    /\ stage' = [t \in Tasks |-> IF stage[t] = "running" THEN "running" ELSE "idle"]
    /\ fetched' = {t \in fetched : stage[t] = "running"}
    /\ gc' = "idle" /\ used' = {} /\ victims' = {}
    /\ UNCHANGED <<image, fileVars, consulGRPCAddr>>

-----------------------------------------------------------------------------
PrepareStep(t) ==
    \/ EnsureImage(t) \/ PullFails(t) \/ ImageConfig(t) \/ writeResolvConf(t)
    \/ RewriteEnvoyBootstrap(t) \/ WriteBootstrap(t) \/ CreateContainer(t)

Next ==
    \/ \E t \in Tasks : StartTask(t) \/ PrepareStep(t) \/ Pull(t) \/ DestroyTask(t)
    \/ GCStep
    \/ \E i \in Images : Age(i)
    \/ Crash

Spec == Init /\ [][Next]_vars

\* Goroutines are scheduled, the ticker ticks, and containerd does not refuse to
\* list its images for ever.  A registry may hang, until the deadline.
Fairness ==
    /\ \A t \in Tasks : WF_vars(PrepareStep(t))
    /\ WF_vars(ListContainers) /\ SF_vars(ListImages)
    /\ WF_vars((gc = "images" /\ EndRound) \/ \E i \in Images : DeleteImage(i))

FairSpec == Spec /\ Fairness

-----------------------------------------------------------------------------
(* Properties.                                                             *)

\* README: gc_image_delay is the minimum age before an unused image is removed.
\* An image a start had to pull is not removed between its steps, nor as long as
\* its container runs, although the GC lists containers and images at different
\* times and goes by the lists.
FetchedStays ==
    \A t \in fetched : stage[t] \notin {"pull"} => image[ImageOf[t]] # "absent"

\* With consul_grpc_addr the Envoy that is started finds Consul over TCP, the
\* rest of its bootstrap is what Nomad wrote, and no half-written file gets
\* there, after a crash or a full disk either.  Without it, the default, the file
\* is the one Nomad wrote, and Envoy keeps the Unix socket.
EnvoyReachesConsul ==
    \A t \in Tasks : stage[t] = "running" =>
        IF consulGRPCAddr = "unset" THEN bootstrap[t] = Bootstrap[t]
        ELSE /\ \A c \in bootstrap[t] : ~(c.name = "local_agent" /\ c.address = "pipe")
             /\ {c \in bootstrap[t] : c.name # "local_agent"}
                    = {c \in Bootstrap[t] : c.name # "local_agent"}

\* A task that takes its DNS from the host has a nameserver, and none that is
\* the host itself.
NamesResolve ==
    \A t \in Tasks : stage[t] = "running" /\ Servers[t] = {} =>
        /\ \E line \in resolv[t] : IsServer(line)
        /\ resolv[t] \cap Loopback = {}

\* An image that stays old and unused is removed, also when containerd refuses
\* to remove another one.
ImagesReclaimed ==
    \A i \in Images \ Stuck : []<>~(image[i] = "old" /\ ~InUse(i))

\* A start comes to an end, even if the registry hangs.
PreparationReturns ==
    \A t \in Tasks : stage[t] \in Preparing ~> stage[t] \in {"idle", "running"}
=============================================================================
