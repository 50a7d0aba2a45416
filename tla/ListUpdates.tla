----------------------------- MODULE ListUpdates -----------------------------
(***************************************************************************)
(* From a published archive to the running engine.  The updater process    *)
(* (startUpdaterLoop, downloadRemoteFiles) fetches the archive when its    *)
(* ETag changed and renames its files into the result directory one by     *)
(* one.  The engine process loads the deny list when it starts, and then   *)
(* watches the modification times of the hash files and reloads            *)
(* (startFileWatcher).  Each process may be killed at any step.            *)
(*                                                                         *)
(* Before it loads anything the engine gives the kernel its firewall       *)
(* (module Firewall).  nft adds rules to a chain that exists, so an engine *)
(* that is restarted appends its rules to the ones of the engine before    *)
(* it; the table goes when the container is stopped in order.              *)
(*                                                                         *)
(* Contents are version numbers.  A modification time is never seen twice: *)
(* all that is kept is whether the watcher has seen the latest one.        *)
(***************************************************************************)
EXTENDS Firewall

CONSTANTS
  Orders,       \* the orders that the archive's files may have
  Configs,      \* the configurations that occur
  MaxPublish,   \* bound: new archives
  MaxCrashes    \* bound: times a process is killed or the container stopped

Files == {"deny", "zone", "hash"}

ASSUME ListUpdatesAssumption ==
  /\ \A o \in Orders : o \in [1 .. 3 -> Files] /\ {o[i] : i \in 1 .. 3} = Files
  /\ Configs \subseteq Config
  /\ {MaxPublish, MaxCrashes} \subseteq Nat

VARIABLES
  order,       \* the order of the archive's files
  tagged,      \* whether the server sends ETag or Last-Modified
  archive,     \* the version that is published
  etag,        \* the version that .etag names, 0 if there is none
  files,       \* the versions in the result directory, 0 for none
  updater, got, left,  \* the updater, the version it extracts, the files left
  config,      \* the configuration of the container
  chain,       \* the kernel's input chain
  engine,      \* where the engine is
  seen,        \* whether the watcher knows the modification times
  denySet,     \* the version in the kernel's deny sets
  resultHash,  \* the version whose hash the engine tells its peers
  missed,      \* the engine's last load failed, or a file was replaced between
               \* the load and the start of the watcher
  crashes

server == <<order, tagged, archive>>
updaterVars == <<etag, files, updater, got, left>>
kernel == <<config, chain>>
engineVars == <<engine, denySet, resultHash>>
vars == <<server, updaterVars, kernel, engineVars, seen, missed, crashes>>

Versions == 1 .. 1 + MaxPublish

\* No file, set or hash is newer than what is published, and the engine goes
\* on only once the files it waits for are there.
TypeOK ==
  /\ archive \in Versions /\ etag \in 0 .. archive /\ got \in 0 .. archive
  /\ files \in [Files -> 0 .. archive]
  /\ updater \in {"idle", "extract", "etag"}
  /\ Len(left) <= Len(order) /\ (left # <<>> => updater = "extract")
  /\ engine \in {"wait", "init", "start", "sync", "settle", "watch", "reload", "refresh"}
  /\ engine # "wait" => files["hash"] # 0 /\ files["zone"] # 0
  /\ {seen, missed} \subseteq BOOLEAN
  /\ denySet \in 0 .. archive /\ resultHash \in 0 .. archive
  /\ crashes \in 0 .. MaxCrashes

Init ==
  /\ order \in Orders /\ tagged \in BOOLEAN
  /\ archive = 1 /\ etag = 0
  /\ files = [f \in Files |-> 0]
  /\ updater = "idle" /\ got = 0 /\ left = <<>>
  /\ config \in Configs /\ chain = <<>>
  /\ engine = "wait" /\ seen = FALSE /\ missed = FALSE
  /\ denySet = 0 /\ resultHash = 0
  /\ crashes = 0

Publish ==
  /\ archive <= MaxPublish
  /\ archive' = archive + 1
  /\ UNCHANGED <<order, tagged, updaterVars, kernel, engineVars, seen, missed, crashes>>

-----------------------------------------------------------------------------
(* The updater *)

\* A 200 response; any other, and a 304, leaves everything as it is.
Fetch ==
  /\ updater = "idle"
  /\ ~(tagged /\ etag = archive)
  /\ updater' = "extract" /\ got' = archive /\ left' = order
  /\ UNCHANGED <<server, etag, files, kernel, engineVars, seen, missed, crashes>>

\* A file is copied, synced and renamed into place.
Extract ==
  /\ updater = "extract"
  /\ files' = [files EXCEPT ![Head(left)] = got]
  /\ seen' = (seen /\ Head(left) # "hash")
  /\ missed' = (missed \/ engine \in {"sync", "settle"})
  /\ left' = Tail(left)
  /\ updater' = IF left' = <<>> THEN "etag" ELSE updater
  /\ UNCHANGED <<server, etag, got, kernel, engineVars, crashes>>

\* Mutant of ExtractFails: the error is dropped and the ETag kept.
ExtractFailsQuietly ==
  /\ updater = "extract"
  /\ updater' = "etag" /\ left' = <<>>
  /\ UNCHANGED <<server, etag, files, got, kernel, engineVars, seen, missed, crashes>>

\* The archive cannot be read to its end, or a file cannot be written.
ExtractFails ==
  /\ updater = "extract"
  /\ updater' = "idle" /\ got' = 0 /\ left' = <<>>
  /\ UNCHANGED <<server, etag, files, kernel, engineVars, seen, missed, crashes>>

SaveEtag ==
  /\ updater = "etag"
  /\ etag' = got
  /\ updater' = "idle" /\ got' = 0
  /\ UNCHANGED <<server, files, left, kernel, engineVars, seen, missed, crashes>>

CrashUpdater ==
  /\ updater # "idle" /\ crashes < MaxCrashes
  /\ updater' = "idle" /\ got' = 0 /\ left' = <<>>
  /\ crashes' = crashes + 1
  /\ UNCHANGED <<server, etag, files, kernel, engineVars, seen, missed>>

-----------------------------------------------------------------------------
(* The engine *)

\* main waits for .hash_domains and proxy.rpz.
Ready ==
  /\ engine = "wait"
  /\ files["hash"] # 0 /\ files["zone"] # 0
  /\ engine' = "init"
  /\ UNCHANGED <<server, updaterVars, kernel, seen, missed, denySet, resultHash, crashes>>

\* nft appends the rules to the chain; if it fails, main exits.
InitStructure ==
  /\ engine = "init"
  /\ chain' = chain \o InputChain(config)
  /\ engine' = "start"
  /\ UNCHANGED <<server, updaterVars, config, seen, missed, denySet, resultHash, crashes>>

\* ReloadDenySets, in one nft transaction; a missing file is an empty list, and
\* an error is logged.
ReloadDenySets ==
  \/ denySet' = files["deny"] /\ missed' = FALSE
  \/ denySet' = denySet /\ missed' = TRUE

\* main loads the deny list, creates the SyncManager, starts the watcher.
LoadDenySets ==
  /\ engine = "start"
  /\ ReloadDenySets
  /\ engine' = "sync"
  /\ UNCHANGED <<server, updaterVars, kernel, seen, resultHash, crashes>>

NewSyncManager ==
  /\ engine = "sync"
  /\ resultHash' = files["hash"]
  /\ engine' = "settle"
  /\ UNCHANGED <<server, updaterVars, kernel, seen, missed, denySet, crashes>>

StartFileWatcher ==
  /\ engine = "settle"
  /\ seen' = TRUE
  /\ engine' = "watch"
  /\ UNCHANGED <<server, updaterVars, kernel, missed, denySet, resultHash, crashes>>

\* The watcher's ticker finds another modification time.
Detect ==
  /\ engine = "watch" /\ ~seen
  /\ seen' = TRUE
  /\ engine' = "reload"
  /\ UNCHANGED <<server, updaterVars, kernel, missed, denySet, resultHash, crashes>>

Reload ==
  /\ engine = "reload"
  /\ ReloadDenySets
  /\ engine' = "refresh"
  /\ UNCHANGED <<server, updaterVars, kernel, seen, resultHash, crashes>>

\* Mutant of RefreshResultHash: the modification times are read again.
RefreshResultHashSees ==
  /\ engine = "refresh"
  /\ resultHash' = files["hash"]
  /\ seen' = TRUE
  /\ engine' = "watch"
  /\ UNCHANGED <<server, updaterVars, kernel, missed, denySet, crashes>>

RefreshResultHash ==
  /\ engine = "refresh"
  /\ resultHash' = files["hash"]
  /\ engine' = "watch"
  /\ UNCHANGED <<server, updaterVars, kernel, seen, missed, denySet, crashes>>

\* The kernel keeps the rules and the deny sets.
CrashEngine ==
  /\ engine # "wait" /\ crashes < MaxCrashes
  /\ engine' = "wait" /\ resultHash' = 0
  /\ crashes' = crashes + 1
  /\ UNCHANGED <<server, updaterVars, kernel, seen, missed, denySet>>

\* The container is stopped: both processes end, the table is deleted, and the
\* container may be started with another configuration.
StopContainer ==
  /\ crashes < MaxCrashes
  /\ updater' = "idle" /\ got' = 0 /\ left' = <<>>
  /\ engine' = "wait" /\ resultHash' = 0 /\ denySet' = 0
  /\ chain' = <<>> /\ config' \in Configs
  /\ crashes' = crashes + 1
  /\ UNCHANGED <<server, etag, files, seen, missed>>

-----------------------------------------------------------------------------

UpdaterStep == Fetch \/ Extract \/ ExtractFails \/ SaveEtag
EngineStep == Ready \/ InitStructure \/ LoadDenySets \/ NewSyncManager \/ StartFileWatcher
              \/ Detect \/ Reload \/ RefreshResultHash

Next == Publish \/ UpdaterStep \/ CrashUpdater \/ EngineStep \/ CrashEngine \/ StopContainer

Spec == Init /\ [][Next]_vars

\* Both processes go on, and a file that is extracted again and again gets
\* through some time.
FairSpec ==
  /\ Spec
  /\ WF_vars(UpdaterStep) /\ WF_vars(EngineStep)
  /\ \A f \in Files : SF_vars(Extract /\ Head(left) = f)

-----------------------------------------------------------------------------
(* Properties *)

\* When the server would answer 304 Not Modified, the result directory holds
\* the archive: whatever failed or was killed, .etag never names an archive
\* that was extracted in part.
EtagIsHonest ==
  /\ TypeOK
  /\ etag = archive => \A f \in Files : files[f] = archive

\* "Your servers will automatically download and update lists" (README.md): in
\* the end the last archive is extracted, and the kernel's deny sets and the
\* hash that peers are told are those of its files ("Watching result directory
\* for list updates...", startFileWatcher), even if it was extracted in the
\* middle of a reload.  The deny sets follow if the archive ends with the hash
\* files, as CompileLists writes them; both, if the last load succeeds and no
\* file is replaced between the first load and the watcher's start.
EngineFollows ==
  <>[](/\ \A f \in Files : files[f] = archive
       /\ missed \/ resultHash = archive
       /\ missed \/ (order[3] = "hash" => denySet = archive))

\* Once the engine has set up the kernel, the chain lets in what the
\* configuration asks for, whatever an engine before it left in the chain.
InputPolicy == engine = "start" => Enforces(chain, config)

=============================================================================
