------------------------------ MODULE Compiler ------------------------------
(***************************************************************************)
(* CompileLists as the updater runs it, again and again: download the      *)
(* remote lists, skip the kinds of list whose state hash is the recorded   *)
(* one, otherwise load, compile and write the outputs and record the hash. *)
(* Lists are edited and published at any time, downloads and writes fail,  *)
(* and the process may be killed between any two steps.                    *)
(*                                                                         *)
(* Contents are version numbers.  A state hash covers names, sizes and     *)
(* modification times, so a file that is written gives a hash never seen   *)
(* before: all that is kept of a hash is whether it is still the current   *)
(* one.                                                                    *)
(***************************************************************************)
EXTENDS Naturals, FiniteSets

CONSTANTS
  Sourced,     \* the lists that may have a URL
  Validators,  \* BOOLEAN or {TRUE}: whether responses carry an ETag
  MaxEdits,    \* bound: edits of local files
  MaxPublish,  \* bound: new versions of remote lists
  MaxCrashes   \* bound: times the process is killed

Kinds == {"ips", "domains"}

Lists == {"include-ips", "deny-ips", "include-hosts"}
KindOf(l) == IF l = "include-hosts" THEN "domains" ELSE "ips"

\* The outputs of a kind, and the lists that an output is made of.
Outputs == {"deny-ips", "route-ips", "zones"}
OutputsOf(k) == IF k = "ips" THEN {"deny-ips", "route-ips"} ELSE {"zones"}
InputsOf(o) == CASE o = "deny-ips" -> {"deny-ips"}
                 [] o = "route-ips" -> {"include-ips", "deny-ips"}
                 [] o = "zones" -> {"include-hosts"}

ASSUME CompilerAssumption ==
  /\ Sourced \subseteq Lists /\ Validators \subseteq BOOLEAN
  /\ {MaxEdits, MaxPublish, MaxCrashes} \subseteq Nat

\* The deny list is local: a download of it would be covered by the hash of
\* the domains (CacheKind), and would not make the IPs be compiled.
ASSUME DenyIsLocal == "deny-ips" \notin Sourced

VARIABLES
  manual,    \* the version of each list's manual file
  urls,      \* the lists whose sources file holds a URL
  remote,    \* the version that the URL serves
  cache,     \* the version of the downloaded file, 0 if there is none
  meta,      \* the version its .meta file names, 0 if it names none
  out,       \* what each output was made of, NoFile if it is missing
  recorded,  \* of each kind: is the recorded hash "none", "old" or "current"
  unwritten, \* the outputs whose last write failed, which is only logged
  pc, kind, todo, active, saving, taken, need, loaded,  \* CompileLists
  edits, crashes

files == <<manual, urls, remote, cache, meta, out, recorded, unwritten>>
run == <<pc, kind, todo, active, saving, taken, need, loaded>>
vars == <<files, run, edits, crashes>>

NoFile == [l \in {} |-> 0]
NotLoaded == [l \in Lists |-> <<0, 0>>]

\* What a list holds: its manual file and, if it has a URL, the cached file.
Content(l) == <<manual[l], IF l \in urls THEN cache[l] ELSE 0>>

\* Files hold versions that exist, an output is made of all of its lists or of
\* none, and a run of CompileLists has left only what its stage allows.
TypeOK ==
  /\ manual \in [Lists -> 1 .. 1 + MaxEdits] /\ urls \subseteq Sourced
  /\ remote \in [Lists -> 1 .. 1 + MaxPublish]
  /\ cache \in [Lists -> 0 .. 1 + MaxPublish] /\ meta \in [Lists -> 0 .. 1 + MaxPublish]
  /\ \A o \in Outputs : DOMAIN out[o] \in {{}, InputsOf(o)}
  /\ recorded \in [Kinds -> {"none", "old", "current"}] /\ unwritten \subseteq Outputs
  /\ pc \in {"idle", "download", "hash", "load", "write", "record"}
  /\ kind \in Kinds
  /\ CASE pc = "download" -> todo \subseteq Sourced
       [] pc = "load" -> todo \subseteq {l \in Lists : KindOf(l) = kind} /\ todo # {}
       [] pc = "write" -> todo \subseteq OutputsOf(kind) /\ todo # {}
       [] OTHER -> todo = {}
  /\ active \subseteq Sourced /\ saving \subseteq Sourced
  /\ taken \subseteq Kinds /\ need \subseteq Kinds

-----------------------------------------------------------------------------
(* getStateHash *)

\* The hash that covers a downloaded file: a path under include-ips/ or
\* exclude-ips/ is of the IPs, any other of the domains.
CacheKind(l) == IF l = "include-ips" THEN "ips" ELSE "domains"

\* A file that the hashes of ks cover is written.
Touch(ks) ==
  /\ recorded' = [k \in Kinds |-> IF k \in ks /\ recorded[k] = "current"
                                  THEN "old" ELSE recorded[k]]
  /\ taken' = taken \ ks

-----------------------------------------------------------------------------
(* The operators of the lists, and the servers *)

Edit(l) ==
  /\ edits < MaxEdits
  /\ manual' = [manual EXCEPT ![l] = @ + 1]
  /\ Touch({KindOf(l)})
  /\ edits' = edits + 1
  /\ UNCHANGED <<urls, remote, cache, meta, out, unwritten, pc, kind, todo, active,
                 saving, need,
                 loaded, crashes>>

EditSources(l) ==
  /\ edits < MaxEdits
  /\ urls' = IF l \in urls THEN urls \ {l} ELSE urls \cup {l}
  /\ Touch({KindOf(l)})
  /\ edits' = edits + 1
  /\ UNCHANGED <<manual, remote, cache, meta, out, unwritten, pc, kind, todo,
                 active, saving, need,
                 loaded, crashes>>

Publish(l) ==
  /\ remote[l] <= MaxPublish
  /\ remote' = [remote EXCEPT ![l] = @ + 1]
  /\ UNCHANGED <<manual, urls, cache, meta, out, unwritten, recorded, run, edits,
                 crashes>>

-----------------------------------------------------------------------------
(* downloadSources *)

Start ==
  /\ pc = "idle"
  /\ pc' = "download"
  /\ active' = urls /\ todo' = urls
  /\ UNCHANGED <<files, kind, saving, taken, need, loaded, edits, crashes>>

\* downloadOrGetCached that leaves the cached file alone: 304 Not Modified, a
\* network error, a status other than 200, an empty body.
DownloadKeeps(l) ==
  /\ pc = "download" /\ l \in todo
  /\ todo' = todo \ {l}
  /\ UNCHANGED <<files, pc, kind, active, saving, taken, need, loaded, edits, crashes>>

\* Mutant of Download: only a missing file is downloaded.
DownloadOnce(l) ==
  /\ pc = "download" /\ l \in todo
  /\ cache[l] = 0
  /\ cache' = [cache EXCEPT ![l] = remote[l]]
  /\ Touch({CacheKind(l)})
  /\ todo' = todo \ {l} /\ saving' = saving \cup {l}
  /\ UNCHANGED <<manual, urls, remote, meta, out, unwritten, pc, kind, active,
                 need, loaded, edits,
                 crashes>>

\* A 200 response, renamed over the cached file.
Download(l) ==
  /\ pc = "download" /\ l \in todo
  /\ ~(cache[l] # 0 /\ meta[l] = remote[l])
  /\ cache' = [cache EXCEPT ![l] = remote[l]]
  /\ Touch({CacheKind(l)})
  /\ todo' = todo \ {l} /\ saving' = saving \cup {l}
  /\ UNCHANGED <<manual, urls, remote, meta, out, unwritten, pc, kind, active,
                 need, loaded, edits,
                 crashes>>

\* Mutant of SaveMeta: .meta is given what the server has by now.
SaveMetaLate(l) ==
  /\ pc = "download" /\ l \in saving
  /\ \E tagged \in Validators : meta' = [meta EXCEPT ![l] = IF tagged THEN remote[l] ELSE 0]
  /\ saving' = saving \ {l}
  /\ UNCHANGED <<manual, urls, remote, cache, out, unwritten, recorded, pc, kind,
                 todo, active, taken,
                 need, loaded, edits, crashes>>

\* The response's ETag goes to .meta, or .meta is removed.
SaveMeta(l) ==
  /\ pc = "download" /\ l \in saving
  /\ \E tagged \in Validators : meta' = [meta EXCEPT ![l] = IF tagged THEN cache[l] ELSE 0]
  /\ saving' = saving \ {l}
  /\ UNCHANGED <<manual, urls, remote, cache, out, unwritten, recorded, pc, kind,
                 todo, active, taken,
                 need, loaded, edits, crashes>>

\* Downloaded files whose URL is gone are removed.
Prune ==
  /\ pc = "download" /\ todo = {} /\ saving = {}
  /\ cache' = [l \in Lists |-> IF l \in active THEN cache[l] ELSE 0]
  /\ meta' = [l \in Lists |-> IF l \in active THEN meta[l] ELSE 0]
  /\ Touch({CacheKind(l) : l \in {x \in Lists : cache[x] # 0 /\ x \notin active}})
  /\ pc' = "hash"
  /\ UNCHANGED <<manual, urls, remote, out, unwritten, kind, todo, active, saving,
                 need, loaded, edits,
                 crashes>>

-----------------------------------------------------------------------------
(* CompileLists *)

\* The outputs whose absence alone makes a compilation necessary.
Required(k) == IF k = "ips" THEN {"route-ips"} ELSE {"zones"}

Needed(k) == recorded[k] # "current" \/ \E o \in Required(k) : out[o] = NoFile

\* The first kind there is to compile.
First(ks) == IF "ips" \in ks THEN "ips" ELSE "domains"

ListsOf(k) == {l \in Lists : KindOf(l) = k}

\* The run is over, and its local variables are gone.
Return ==
  /\ pc' = "idle" /\ kind' = "ips" /\ todo' = {} /\ active' = {} /\ saving' = {}
  /\ taken' = {} /\ need' = {} /\ loaded' = NotLoaded

\* "No changes detected in local configurations or remote sources."
Skip ==
  /\ pc = "hash"
  /\ \A k \in Kinds : ~Needed(k)
  /\ Return
  /\ UNCHANGED <<files, edits, crashes>>

Hash ==
  /\ pc = "hash"
  /\ need' = {k \in Kinds : Needed(k)}
  /\ need' # {}
  /\ taken' = Kinds
  /\ pc' = "load"
  /\ kind' = First(need')
  /\ todo' = ListsOf(First(need'))
  /\ UNCHANGED <<files, active, saving, loaded, edits, crashes>>

Loaded(l, content) ==
  /\ loaded' = [loaded EXCEPT ![l] = content]
  /\ pc' = IF todo = {l} THEN "write" ELSE pc
  /\ todo' = IF todo = {l} THEN OutputsOf(kind) ELSE todo \ {l}
  /\ UNCHANGED <<manual, urls, remote, out, unwritten, kind, active, saving, need,
                 edits, crashes>>

\* A list is read; the download of a missing file, if tried again, failed.
Load(l) ==
  /\ pc = "load" /\ l \in todo
  /\ Loaded(l, Content(l))
  /\ UNCHANGED <<cache, meta, recorded, taken>>

\* A missing file is downloaded after all, and read.
LoadMissing(l) ==
  /\ pc = "load" /\ l \in todo /\ l \in urls /\ cache[l] = 0
  /\ cache' = [cache EXCEPT ![l] = remote[l]]
  /\ \E tagged \in Validators : meta' = [meta EXCEPT ![l] = IF tagged THEN remote[l] ELSE 0]
  /\ Touch({CacheKind(l)})
  /\ Loaded(l, <<manual[l], remote[l]>>)

\* The deny list is written before the routes, the IPs before the domains.
WriteNext(o) ==
  /\ pc = "write" /\ o \in todo /\ (o = "route-ips" => "deny-ips" \notin todo)
  /\ LET more == todo # {o}
         domainsNext == kind = "ips" /\ "domains" \in need
     IN  /\ pc' = IF more THEN pc ELSE IF domainsNext THEN "load" ELSE "record"
         /\ todo' = IF more THEN todo \ {o} ELSE IF domainsNext THEN ListsOf("domains") ELSE {}
         /\ kind' = IF ~more /\ domainsNext THEN "domains" ELSE kind
  /\ UNCHANGED <<manual, urls, remote, cache, meta, recorded, active, saving,
                 taken, need,
                 loaded, edits, crashes>>

Write(o) ==
  /\ WriteNext(o)
  /\ out' = [out EXCEPT ![o] = [l \in InputsOf(o) |-> loaded[l]]]
  /\ unwritten' = unwritten \ {o}

\* The error is logged; the old file stays.
WriteFails(o) ==
  /\ WriteNext(o)
  /\ unwritten' = unwritten \cup {o}
  /\ UNCHANGED out

\* Mutant of Recorded: the hash is computed when it is written.
RecordedLate(k) == "current"

\* What is written is the hash that was computed before loading.
Recorded(k) == IF k \in taken THEN "current" ELSE "old"

Record ==
  /\ pc = "record"
  /\ recorded' = [recorded EXCEPT ![First(need)] = Recorded(First(need))]
  /\ IF need = {First(need)} THEN Return
     ELSE /\ need' = need \ {First(need)}
          /\ UNCHANGED <<pc, kind, todo, active, saving, taken, loaded>>
  /\ UNCHANGED <<manual, urls, remote, cache, meta, out, unwritten, edits, crashes>>

Crash ==
  /\ pc # "idle" /\ crashes < MaxCrashes
  /\ crashes' = crashes + 1
  /\ Return
  /\ UNCHANGED <<files, edits>>

-----------------------------------------------------------------------------

Init ==
  /\ manual = [l \in Lists |-> 1] /\ remote = [l \in Lists |-> 1]
  /\ urls = Sourced
  /\ cache = [l \in Lists |-> 0] /\ meta = [l \in Lists |-> 0]
  /\ out = [o \in Outputs |-> NoFile] /\ unwritten = {}
  /\ recorded = [k \in Kinds |-> "none"]
  /\ pc = "idle" /\ kind = "ips" /\ todo = {} /\ active = {} /\ saving = {}
  /\ taken = {} /\ need = {} /\ loaded = NotLoaded
  /\ edits = 0 /\ crashes = 0

Step ==
  \/ Start \/ Prune \/ Skip \/ Hash \/ Record
  \/ \E l \in Lists : DownloadKeeps(l) \/ Download(l) \/ SaveMeta(l) \/ Load(l) \/ LoadMissing(l)
  \/ \E o \in Outputs : Write(o) \/ WriteFails(o)

Next ==
  \/ Step \/ Crash
  \/ \E l \in Lists : Edit(l)
  \/ \E l \in Sourced : EditSources(l) \/ Publish(l)

Spec == Init /\ [][Next]_vars

\* The updater's ticker starts a run again and again, a run goes on, and a
\* download or a write that is tried again and again succeeds some time.
FairSpec ==
  /\ Spec
  /\ WF_vars(Step)
  /\ \A l \in Sourced : SF_vars(Download(l))
  /\ \A o \in Outputs : SF_vars(Write(o))

-----------------------------------------------------------------------------
(* Properties *)

\* A kind of list is skipped (compileIPsNeeded, compileDomainsNeeded) only if
\* its outputs are made of what its files hold, whatever was edited, lost or
\* killed while they were made.  The exception is an output whose write
\* failed: the hash is recorded all the same.  An output is made of all of its
\* lists or of none, at every stage (TypeOK).
HashIsHonest ==
  /\ TypeOK
  /\ \A k \in Kinds : recorded[k] = "current" =>
        \A o \in OutputsOf(k) \ unwritten : out[o] = [l \in InputsOf(o) |-> Content(l)]

\* A 304 response is right: when .meta makes the server answer that nothing
\* changed, the cached file is what the server has, although the file and its
\* .meta are written in two steps and the process may be killed in between.
NotModifiedIsRight ==
  \A l \in Lists : cache[l] # 0 /\ meta[l] = remote[l] => cache[l] = remote[l]

\* What was edited and published last reaches every output that could be
\* written: "The engine will compile these files locally upon startup and
\* reload them periodically" (README.md).
Converges ==
  <>[](\A o \in Outputs \ unwritten : out[o] =
         [l \in InputsOf(o) |-> <<manual[l], IF l \in urls THEN remote[l] ELSE 0>>])

=============================================================================
