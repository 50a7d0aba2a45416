--------------------------- MODULE Compiler_proofs ---------------------------
(***************************************************************************)
(* Proofs about Compiler, for any number of edits, published versions and  *)
(* kills: that a 304 response is right (NotModifiedIsRight), and that a    *)
(* kind of list is skipped only when it is compiled (HashIsHonest).        *)
(*                                                                         *)
(* The first rests on versions: .meta names none later than its file's.    *)
(* The second rests on HonestInv: of each kind, what was loaded and made   *)
(* so far is up to date, unless a file of the kind was written after its   *)
(* hash was computed, and then that hash is not current.                   *)
(***************************************************************************)
EXTENDS Compiler, TLAPS

\* The versions that files may hold: a .meta file never names a version later
\* than the one of the file it belongs to.
VersionInv ==
  /\ edits \in 0 .. MaxEdits
  /\ manual \in [Lists -> Nat] /\ \A l \in Lists : manual[l] \in 1 .. 1 + edits
  /\ remote \in [Lists -> 1 .. 1 + MaxPublish]
  /\ cache \in [Lists -> Nat] /\ \A l \in Lists : cache[l] <= remote[l]
  /\ meta \in [Lists -> Nat] /\ \A l \in Lists : meta[l] <= remote[l]
  /\ \A l \in Lists : cache[l] # 0 => meta[l] <= cache[l]

-----------------------------------------------------------------------------
(* Versions *)

\* Init: no file was downloaded.
LEMMA InitVersions == Init => VersionInv
  BY CompilerAssumption DEF Init, VersionInv

\* The operators of the lists and the servers.
LEMMA WorldVersions ==
  ASSUME VersionInv, NEW l \in Lists, Edit(l) \/ EditSources(l) \/ Publish(l)
  PROVE  VersionInv'
<1>1. UNCHANGED <<cache, meta>>
  BY DEF Edit, EditSources, Publish
<1>2. CASE Edit(l)
  <2>1. /\ manual' = [manual EXCEPT ![l] = @ + 1] /\ edits' = edits + 1
        /\ edits' \in 0 .. MaxEdits /\ remote' = remote
    BY <1>2, CompilerAssumption DEF Edit, VersionInv
  <2>2. /\ manual' \in [Lists -> Nat]
        /\ \A x \in Lists : manual'[x] = manual[x] \/ manual'[x] = manual[x] + 1
    BY <2>1 DEF VersionInv
  <2>3. \A x \in Lists : manual'[x] \in 1 .. 1 + edits'
    BY <2>1, <2>2 DEF VersionInv
  <2> QED  BY <1>1, <2>1, <2>2, <2>3 DEF VersionInv
<1>3. CASE EditSources(l)
  <2>1. edits' \in 0 .. MaxEdits /\ edits' = edits + 1 /\ UNCHANGED <<manual, remote>>
    BY <1>3, CompilerAssumption DEF EditSources, VersionInv
  <2>2. \A x \in Lists : manual'[x] \in 1 .. 1 + edits'
    BY <2>1 DEF VersionInv
  <2> QED  BY <1>1, <2>1, <2>2 DEF VersionInv
<1>4. CASE Publish(l)
  <2>1. /\ remote' = [remote EXCEPT ![l] = @ + 1] /\ UNCHANGED <<manual, edits>>
        /\ remote[l] + 1 \in 1 .. 1 + MaxPublish
    BY <1>4, CompilerAssumption DEF Publish, VersionInv
  <2>2. /\ remote' \in [Lists -> 1 .. 1 + MaxPublish]
        /\ \A x \in Lists : remote'[x] = remote[x] \/ remote'[x] = remote[x] + 1
    BY <2>1 DEF VersionInv
  <2>3. \A x \in Lists : cache[x] <= remote'[x] /\ meta[x] <= remote'[x]
    BY <2>2, CompilerAssumption DEF VersionInv
  <2> QED  BY <1>1, <2>1, <2>2, <2>3 DEF VersionInv
<1> QED  BY <1>2, <1>3, <1>4

\* A download, in its two steps, and the download of a missing file.
LEMMA DownloadVersions ==
  ASSUME VersionInv, NEW l \in Lists, Download(l) \/ SaveMeta(l) \/ LoadMissing(l)
  PROVE  VersionInv'
<1>1. UNCHANGED <<edits, manual, remote>>
  BY DEF Download, SaveMeta, LoadMissing, Loaded
<1>2. remote[l] \in Nat \ {0} /\ cache[l] \in Nat /\ 0 \in Nat
  BY CompilerAssumption DEF VersionInv
<1>3. cache' = cache \/ cache' = [cache EXCEPT ![l] = remote[l]]
  BY DEF Download, SaveMeta, LoadMissing
<1>4. PICK m \in {meta[l], 0, cache'[l]} : meta' = [meta EXCEPT ![l] = m]
  <2>1. CASE Download(l)
    <3>1. meta' = [meta EXCEPT ![l] = meta[l]]
      BY <2>1 DEF Download, VersionInv
    <3> QED  BY <3>1
  <2>2. CASE SaveMeta(l)
    BY <2>2, Zenon DEF SaveMeta
  <2>3. CASE LoadMissing(l)
    BY <2>3, Zenon DEF LoadMissing, VersionInv
  <2> QED  BY <2>1, <2>2, <2>3
<1>5. cache' \in [Lists -> Nat] /\ \A x \in Lists : cache'[x] = cache[x] \/ cache'[x] = remote[x]
  BY <1>2, <1>3 DEF VersionInv
<1>6. \A x \in Lists : cache'[x] <= remote[x]
  BY <1>5, CompilerAssumption DEF VersionInv
<1>7. /\ meta' \in [Lists -> Nat]
      /\ \A x \in Lists : meta'[x] = meta[x] \/ meta'[x] = 0 \/ meta'[x] = cache'[x]
  BY <1>4, <1>5 DEF VersionInv
<1>8. ASSUME NEW x \in Lists
      PROVE  meta'[x] <= remote[x] /\ (cache'[x] # 0 => meta'[x] <= cache'[x])
  <2>1. /\ meta[x] \in Nat /\ cache[x] \in Nat /\ remote[x] \in Nat /\ cache'[x] \in Nat
        /\ meta[x] <= remote[x] /\ (cache[x] # 0 => meta[x] <= cache[x])
    BY <1>5, CompilerAssumption DEF VersionInv
  <2> QED  BY <1>5, <1>6, <1>7, <2>1
<1> QED  BY <1>1, <1>5, <1>6, <1>7, <1>8 DEF VersionInv

\* pruneStaleCacheFiles removes the file with its .meta.
LEMMA PruneVersions ==
  ASSUME VersionInv, Prune
  PROVE  VersionInv'
<1>1. /\ UNCHANGED <<edits, manual, remote>>
      /\ cache' \in [Lists -> Nat] /\ meta' \in [Lists -> Nat]
      /\ \A x \in Lists : \/ cache'[x] = cache[x] /\ meta'[x] = meta[x]
                          \/ cache'[x] = 0 /\ meta'[x] = 0
  BY DEF Prune, VersionInv
<1>2. \A x \in Lists : remote[x] \in Nat
  BY CompilerAssumption DEF VersionInv
<1> QED  BY <1>1, <1>2 DEF VersionInv

\* Every step keeps to the versions.
LEMMA NextVersions == VersionInv /\ [Next]_vars => VersionInv'
<1> SUFFICES ASSUME VersionInv, [Next]_vars PROVE VersionInv'
  OBVIOUS
<1>1. ASSUME UNCHANGED <<edits, manual, remote, cache, meta>>
      PROVE  VersionInv'
  BY <1>1 DEF VersionInv
<1>2. CASE Start \/ Skip \/ Hash \/ Record \/ Crash \/ UNCHANGED vars
  BY <1>1, <1>2 DEF Start, Skip, Hash, Record, Crash, files, vars
<1>3. CASE Prune
  BY <1>3, PruneVersions
<1>4. ASSUME NEW l \in Lists, DownloadKeeps(l) \/ Load(l)
      PROVE  VersionInv'
  BY <1>1, <1>4 DEF DownloadKeeps, Load, Loaded, files
<1>5. ASSUME NEW o \in Outputs, Write(o) \/ WriteFails(o)
      PROVE  VersionInv'
  BY <1>1, <1>5 DEF Write, WriteFails, WriteNext
<1>6. CASE \E l \in Sourced : EditSources(l) \/ Publish(l)
  BY <1>6, WorldVersions, CompilerAssumption
<1> QED
  BY <1>2, <1>3, <1>4, <1>5, <1>6, WorldVersions, DownloadVersions DEF Next, Step

\* A 304 response is right, although a file and its .meta are written in two
\* steps and the process may be killed between them: .meta names no version
\* later than the file's, so when it names the server's, so does the file
\* (downloadOrGetCached).
THEOREM NotModifiedCorrect == Spec => []NotModifiedIsRight
<1>1. VersionInv => NotModifiedIsRight
  <2> SUFFICES ASSUME VersionInv, NEW l \in Lists, cache[l] # 0, meta[l] = remote[l]
               PROVE  cache[l] = remote[l]
    BY DEF NotModifiedIsRight
  <2>1. cache[l] \in Nat /\ remote[l] \in Nat /\ cache[l] <= remote[l] /\ meta[l] <= cache[l]
    BY CompilerAssumption DEF VersionInv
  <2> QED  BY <2>1
<1> QED  BY <1>1, InitVersions, NextVersions, PTL DEF Spec

-----------------------------------------------------------------------------
(* Which lists, outputs and hashes belong together *)

\* The outputs of a kind are made of lists of that kind.
LEMMA KindFacts ==
  /\ \A k \in Kinds : /\ OutputsOf(k) \subseteq Outputs /\ OutputsOf(k) # {}
                      /\ ListsOf(k) \subseteq Lists /\ ListsOf(k) # {}
  /\ \A k \in Kinds : \A o \in OutputsOf(k) : InputsOf(o) \subseteq ListsOf(k)
  /\ \A k, j \in Kinds : k # j => OutputsOf(k) \cap OutputsOf(j) = {}
  /\ \A l \in Lists : KindOf(l) \in Kinds
  BY DEF Kinds, Outputs, OutputsOf, Lists, ListsOf, KindOf, InputsOf

\* The hash of a kind covers the downloaded files of its lists, as the deny
\* list is not downloaded.
LEMMA CacheKindRight == \A l \in Sourced : l \in Lists /\ CacheKind(l) = KindOf(l)
  BY CompilerAssumption, DenyIsLocal DEF CacheKind, KindOf, Lists

\* Kinds are compiled one after the other, the IPs first.
LEMMA FirstFacts ==
  ASSUME NEW ks \in SUBSET Kinds, ks # {}
  PROVE  First(ks) \in ks
  BY Zenon DEF First, Kinds

-----------------------------------------------------------------------------
(* The stages of a run *)

\* What the variables hold at each stage.
RunTypes ==
  /\ urls \subseteq Sourced
  /\ out = [o \in Outputs |-> out[o]]
  /\ \A o \in Outputs : DOMAIN out[o] \in {{}, InputsOf(o)}
  /\ recorded \in [Kinds -> {"none", "old", "current"}] /\ unwritten \subseteq Outputs
  /\ pc \in {"idle", "download", "hash", "load", "write", "record"}
  /\ kind \in Kinds
  /\ pc = "download" => todo \subseteq Sourced
  /\ pc = "load" => todo \subseteq ListsOf(kind) /\ todo # {} /\ kind \in need
  /\ pc = "write" => todo \subseteq OutputsOf(kind) /\ todo # {} /\ kind \in need
  /\ pc \in {"idle", "hash", "record"} => todo = {}
  /\ pc = "record" => need # {}
  /\ active \subseteq Sourced /\ saving \subseteq Sourced
  /\ taken \subseteq Kinds /\ need \subseteq Kinds
  /\ loaded = [l \in Lists |-> loaded[l]]

\* The types hold after a step that changes one part of the state.
LEMMA SameRun ==
  ASSUME RunTypes, UNCHANGED <<pc, kind, todo, active, saving, need, loaded>>,
         UNCHANGED <<out, unwritten>>, urls' \subseteq Sourced,
         recorded' \in [Kinds -> {"none", "old", "current"}], taken' \subseteq Kinds
  PROVE  RunTypes'
  BY DEF RunTypes

\* Touch keeps the types, whatever file was written.
LEMMA TouchTypes ==
  ASSUME RunTypes, NEW ks, Touch(ks)
  PROVE  recorded' \in [Kinds -> {"none", "old", "current"}] /\ taken' \subseteq Kinds
  BY DEF RunTypes, Touch

\* The end of a run, in whatever way.
LEMMA ReturnTypes ==
  ASSUME RunTypes, Return, UNCHANGED <<urls, out, unwritten>>,
         recorded' \in [Kinds -> {"none", "old", "current"}]
  PROVE  RunTypes'
  BY DEF RunTypes, Return, Kinds, NotLoaded

\* At the start no run is under way.
LEMMA InitRunTypes == Init => RunTypes
  BY CompilerAssumption DEF Init, RunTypes, Kinds, NotLoaded, NoFile, Outputs

\* Reading a list, which may be the last that the kind needs.
LEMMA LoadTypes ==
  ASSUME RunTypes, NEW l \in Lists, Load(l) \/ LoadMissing(l)
  PROVE  RunTypes'
<1>1. PICK content : Loaded(l, content)
  BY DEF Load, LoadMissing
<1>2. pc = "load" /\ l \in todo
  BY DEF Load, LoadMissing
<1>3. recorded' \in [Kinds -> {"none", "old", "current"}] /\ taken' \subseteq Kinds
  <2>1. CASE Load(l)
    BY <2>1 DEF Load, RunTypes
  <2>2. CASE LoadMissing(l)
    BY <2>2, TouchTypes DEF LoadMissing
  <2> QED  BY <2>1, <2>2
<1>4. /\ pc' \in {"load", "write"} /\ kind' = kind
      /\ pc' = "load" => todo' = todo \ {l} /\ todo' # {}
      /\ pc' = "write" => todo' = OutputsOf(kind)
      /\ loaded' = [x \in Lists |-> loaded'[x]]
  BY <1>1, <1>2 DEF Loaded, RunTypes
<1>5. OutputsOf(kind) # {}
  BY KindFacts DEF RunTypes
<1> QED  BY <1>1, <1>2, <1>3, <1>4, <1>5 DEF Loaded, RunTypes

\* Writing an output, which may be the last of the kind.
LEMMA WriteTypes ==
  ASSUME RunTypes, NEW o \in Outputs, Write(o) \/ WriteFails(o)
  PROVE  RunTypes'
<1>1. WriteNext(o)
  BY DEF Write, WriteFails
<1>2. /\ pc = "write" /\ o \in todo
      /\ UNCHANGED <<urls, recorded, active, saving, taken, need, loaded>>
  BY <1>1 DEF WriteNext
<1>3. /\ out' = [x \in Outputs |-> out'[x]] /\ unwritten' \subseteq Outputs
      /\ \A x \in Outputs : out'[x] = out[x] \/ (x = o /\ DOMAIN out'[x] = InputsOf(o))
  <2>1. CASE Write(o)
    BY <2>1, Zenon DEF Write, RunTypes
  <2>2. CASE WriteFails(o)
    BY <2>2 DEF WriteFails, RunTypes
  <2> QED  BY <2>1, <2>2
<1>4. \/ todo # {o} /\ pc' = "write" /\ kind' = kind /\ todo' = todo \ {o}
      \/ /\ "domains" \in need /\ pc' = "load" /\ kind' = "domains"
         /\ todo' = ListsOf("domains")
      \/ pc' = "record" /\ kind' = kind /\ todo' = {}
  BY <1>1, <1>2 DEF WriteNext
<1>5. ListsOf("domains") # {} /\ "domains" \in Kinds
  BY DEF ListsOf, Lists, KindOf, Kinds
<1> QED  BY <1>2, <1>3, <1>4, <1>5 DEF RunTypes

\* Every step keeps the types.
LEMMA NextRunTypes == RunTypes /\ [Next]_vars => RunTypes'
<1> SUFFICES ASSUME RunTypes, [Next]_vars PROVE RunTypes'
  OBVIOUS
<1>1. ASSUME NEW l \in Lists, Edit(l)
      PROVE  RunTypes'
  BY <1>1, SameRun, TouchTypes DEF Edit, RunTypes
<1>2. ASSUME NEW l \in Sourced, EditSources(l)
      PROVE  RunTypes'
  BY <1>2, SameRun, TouchTypes DEF EditSources, RunTypes
<1>3. ASSUME NEW l \in Sourced, Publish(l)
      PROVE  RunTypes'
  BY <1>3, SameRun DEF Publish, run, RunTypes
<1>4. CASE Start
  BY <1>4 DEF Start, files, RunTypes
<1>5. ASSUME NEW l \in Lists, DownloadKeeps(l)
      PROVE  RunTypes'
  BY <1>5 DEF DownloadKeeps, files, RunTypes
<1>6. ASSUME NEW l \in Lists, Download(l)
      PROVE  RunTypes'
  <2>1. recorded' \in [Kinds -> {"none", "old", "current"}] /\ taken' \subseteq Kinds
    BY <1>6, TouchTypes DEF Download
  <2> QED  BY <1>6, <2>1 DEF Download, RunTypes
<1>7. ASSUME NEW l \in Lists, SaveMeta(l)
      PROVE  RunTypes'
  BY <1>7 DEF SaveMeta, RunTypes
<1>8. CASE Prune
  <2>1. recorded' \in [Kinds -> {"none", "old", "current"}] /\ taken' \subseteq Kinds
    BY <1>8, TouchTypes DEF Prune
  <2> QED  BY <1>8, <2>1 DEF Prune, RunTypes
<1>9. CASE Skip \/ Crash
  BY <1>9, ReturnTypes DEF Skip, Crash, files, RunTypes
<1>10. CASE Hash
  <2>1. need' \subseteq Kinds /\ First(need') \in need'
    BY <1>10, FirstFacts DEF Hash
  <2>2. ListsOf(First(need')) # {}
    BY <2>1, KindFacts
  <2> QED  BY <1>10, <2>1, <2>2 DEF Hash, files, RunTypes
<1>11. CASE Record
  <2>1. need \in SUBSET Kinds /\ First(need) \in need
    BY <1>11, FirstFacts DEF Record, RunTypes
  <2>2. recorded' \in [Kinds -> {"none", "old", "current"}]
    BY <1>11, <2>1 DEF Record, Recorded, RunTypes
  <2>3. CASE need = {First(need)}
    BY <1>11, <2>2, <2>3, ReturnTypes DEF Record
  <2>4. CASE need # {First(need)}
    BY <1>11, <2>1, <2>2, <2>4 DEF Record, RunTypes
  <2> QED  BY <2>3, <2>4
<1>12. CASE UNCHANGED vars
  BY <1>12 DEF vars, files, run, RunTypes
<1> QED
  BY <1>1, <1>2, <1>3, <1>4, <1>5, <1>6, <1>7, <1>8, <1>9, <1>10, <1>11, <1>12,
     LoadTypes, WriteTypes DEF Next, Step

-----------------------------------------------------------------------------
(* The hashes *)

\* What an output would be made of now.
Made(o) == [l \in InputsOf(o) |-> Content(l)]

\* The outputs of a kind that could be written are made of what its files hold.
Fresh(k) == \A o \in OutputsOf(k) \ unwritten : out[o] = Made(o)

\* The kinds of which all outputs are written in this run.
Compiled ==
  IF pc = "record" THEN need
  ELSE IF pc \in {"load", "write"} /\ kind = "domains" THEN need \cap {"ips"} ELSE {}

\* As long as no file of a kind was written since its hash was computed, what
\* is loaded of it and what is made of that is up to date.
HonestInv ==
  /\ \A k \in Kinds : recorded[k] = "current" => Fresh(k)
  /\ pc \in {"load", "write", "record"} =>
        \A k \in Kinds : recorded[k] = "current" => k \in taken
  /\ \A k \in Compiled \cap taken : Fresh(k)
  /\ pc = "load" /\ kind \in taken =>
        \A l \in ListsOf(kind) \ todo : loaded[l] = Content(l)
  /\ pc = "write" /\ kind \in taken =>
        /\ \A l \in ListsOf(kind) : loaded[l] = Content(l)
        /\ \A o \in OutputsOf(kind) \ (todo \cup unwritten) : out[o] = Made(o)

\* No file of the kind changes in this step.
Same(k) == \A l \in ListsOf(k) : Content(l)' = Content(l)

\* Outputs stay up to date while the files of the kind stay as they are.
LEMMA SameMade ==
  ASSUME NEW k \in Kinds, Same(k)
  PROVE  \A o \in OutputsOf(k) : Made(o)' = Made(o)
<1>1. \A o \in OutputsOf(k) : InputsOf(o) \subseteq ListsOf(k)
  BY KindFacts
<1> QED  BY <1>1 DEF Made, Same

\* A file of some kinds is written while the run stays where it is.
LEMMA TouchHonest ==
  ASSUME RunTypes, HonestInv, NEW ks, Touch(ks),
         \A k \in Kinds \ ks : Same(k),
         UNCHANGED <<out, unwritten, pc, kind, todo, need, loaded>>
  PROVE  HonestInv'
<1>1. \A k \in Kinds : recorded'[k] = "current" => recorded[k] = "current" /\ k \notin ks
  BY DEF Touch, RunTypes
<1>2. taken' = taken \ ks /\ taken' \subseteq Kinds
  BY DEF Touch, RunTypes
<1>3. \A k \in Kinds \ ks : Fresh(k) => Fresh(k)'
  BY SameMade DEF Fresh
<1>4. \A k \in Kinds : recorded'[k] = "current" => Fresh(k)'
  BY <1>1, <1>3 DEF HonestInv
<1>5. pc' \in {"load", "write", "record"} =>
         \A k \in Kinds : recorded'[k] = "current" => k \in taken'
  BY <1>1, <1>2 DEF HonestInv
<1>6. Compiled' = Compiled /\ \A k \in Compiled' \cap taken' : Fresh(k)'
  BY <1>2, <1>3 DEF HonestInv, Compiled
<1>7. pc' = "load" /\ kind' \in taken' =>
         \A l \in ListsOf(kind') \ todo' : loaded'[l] = Content(l)'
  BY <1>2 DEF HonestInv, Same, RunTypes
<1>8. pc' = "write" /\ kind' \in taken' =>
         /\ \A l \in ListsOf(kind') : loaded'[l] = Content(l)'
         /\ \A o \in OutputsOf(kind') \ (todo' \cup unwritten') : out'[o] = Made(o)'
  BY <1>2, SameMade DEF HonestInv, Same, RunTypes
<1> QED  BY <1>4, <1>5, <1>6, <1>7, <1>8 DEF HonestInv

\* Outside of the stages between the hash and its record only the recorded
\* hashes count.
LEMMA OutsideHonest ==
  ASSUME RunTypes, HonestInv, pc' \notin {"load", "write", "record"},
         UNCHANGED <<out, unwritten>>,
         \A k \in Kinds : recorded'[k] = "current" => recorded[k] = "current" /\ Same(k)
  PROVE  HonestInv'
<1>1. \A k \in Kinds : recorded'[k] = "current" => Fresh(k)'
  BY SameMade DEF HonestInv, Fresh
<1>2. Compiled' = {}
  BY DEF Compiled
<1> QED  BY <1>1, <1>2 DEF HonestInv

\* A list is edited, or its URL: the hash of its kind is not the recorded one.
LEMMA EditHonest ==
  ASSUME RunTypes, HonestInv, VersionInv, NEW l \in Lists, Edit(l) \/ EditSources(l)
  PROVE  HonestInv'
<1>1. /\ Touch({KindOf(l)})
      /\ UNCHANGED <<cache, out, unwritten, pc, kind, todo, need, loaded>>
  BY DEF Edit, EditSources
<1>2. \A x \in Lists : x # l => manual'[x] = manual[x] /\ (x \in urls' <=> x \in urls)
  BY DEF Edit, EditSources, VersionInv
<1>3. \A k \in Kinds \ {KindOf(l)} : Same(k)
  BY <1>1, <1>2 DEF Same, Content, ListsOf
<1> QED  BY <1>1, <1>3, TouchHonest

\* downloadSources: what is written or removed is covered by the hashes.
LEMMA DownloadHonest ==
  ASSUME RunTypes, HonestInv, VersionInv, Prune \/ \E l \in Lists : Download(l)
  PROVE  HonestInv'
<1>1. PICK ks : /\ Touch(ks)
                /\ \A l \in Sourced : cache'[l] # cache[l] => KindOf(l) \in ks
  <2>1. CASE Prune
    <3> DEFINE stale == {x \in Lists : cache[x] # 0 /\ x \notin active}
    <3>1. \A l \in Sourced : cache'[l] # cache[l] => l \in stale
      BY <2>1, CompilerAssumption DEF Prune, VersionInv
    <3>2. \A l \in Sourced \cap stale : KindOf(l) \in {CacheKind(x) : x \in stale}
      BY CacheKindRight
    <3> QED  BY <2>1, <3>1, <3>2 DEF Prune
  <2>2. ASSUME NEW l \in Lists, Download(l)
        PROVE  \E ks : /\ Touch(ks)
                       /\ \A x \in Sourced : cache'[x] # cache[x] => KindOf(x) \in ks
    <3>1. Touch({CacheKind(l)}) /\ \A x \in Lists : x # l => cache'[x] = cache[x]
      BY <2>2 DEF Download, VersionInv
    <3> QED  BY <3>1, CacheKindRight
  <2> QED  BY <2>1, <2>2
<1>2. UNCHANGED <<manual, urls, out, unwritten>> /\ pc' \notin {"load", "write", "record"}
  BY Zenon DEF Prune, Download
<1>3. \A k \in Kinds \ ks : Same(k)
  BY <1>1, <1>2 DEF Same, Content, ListsOf, RunTypes
<1>4. \A k \in Kinds : recorded'[k] = "current" => recorded[k] = "current" /\ k \notin ks
  BY <1>1 DEF Touch
<1> QED  BY <1>2, <1>3, <1>4, OutsideHonest

\* The hashes are computed before anything is loaded.
LEMMA HashHonest ==
  ASSUME RunTypes, HonestInv, Hash
  PROVE  HonestInv'
<1>1. /\ UNCHANGED <<manual, urls, cache, out, unwritten, recorded, loaded>>
      /\ pc' = "load" /\ taken' = Kinds /\ need' \subseteq Kinds
      /\ kind' = First(need') /\ todo' = ListsOf(kind')
  BY DEF Hash, files
<1>2. \A k \in Kinds : Same(k)
  BY <1>1 DEF Same, Content
<1>3. \A k \in Kinds : recorded'[k] = "current" => Fresh(k)'
  BY <1>1, <1>2, SameMade DEF HonestInv, Fresh
<1>4. Compiled' = {}
  BY <1>1 DEF Compiled, First
<1> QED  BY <1>1, <1>3, <1>4 DEF HonestInv, RunTypes

\* A list of the kind is read.
LEMMA LoadHonest ==
  ASSUME RunTypes, HonestInv, NEW l \in Lists, Load(l)
  PROVE  HonestInv'
<1>1. /\ UNCHANGED <<manual, urls, cache, out, unwritten, recorded, taken, need, kind>>
      /\ pc = "load" /\ l \in todo
      /\ loaded' = [loaded EXCEPT ![l] = Content(l)]
      /\ pc' = IF todo = {l} THEN "write" ELSE "load"
      /\ todo' = IF todo = {l} THEN OutputsOf(kind) ELSE todo \ {l}
  BY DEF Load, Loaded
<1>2. /\ \A x \in Lists : Content(x)' = Content(x)
      /\ \A k \in Kinds : Same(k)
  BY <1>1 DEF Same, Content, ListsOf
<1>3. \A k \in Kinds : Fresh(k) => Fresh(k)'
  BY <1>1, <1>2, SameMade DEF Fresh
<1>4. Compiled' = Compiled /\ Compiled \subseteq Kinds
  BY <1>1 DEF Compiled, RunTypes
<1>5. kind \in taken => \A x \in ListsOf(kind) \ (todo \ {l}) : loaded'[x] = Content(x)'
  BY <1>1, <1>2 DEF HonestInv, RunTypes, ListsOf
<1>6. /\ \A k \in Kinds : recorded'[k] = "current" => Fresh(k)' /\ k \in taken'
      /\ \A k \in Compiled' \cap taken' : Fresh(k)'
  BY <1>1, <1>3, <1>4 DEF HonestInv
<1> QED  BY <1>1, <1>5, <1>6 DEF HonestInv

\* A list whose file was missing is downloaded: its kind's hash is not the one
\* that was computed.
LEMMA LoadMissingHonest ==
  ASSUME RunTypes, HonestInv, VersionInv, NEW l \in Lists, LoadMissing(l)
  PROVE  HonestInv'
<1>1. /\ UNCHANGED <<manual, urls, out, unwritten, need, kind>>
      /\ pc = "load" /\ l \in todo /\ l \in Sourced
      /\ cache' = [cache EXCEPT ![l] = remote[l]]
      /\ pc' \in {"load", "write"}
  BY DEF LoadMissing, Loaded, RunTypes
<1>2. KindOf(l) = kind /\ Touch({kind})
  BY <1>1, CacheKindRight, Zenon DEF LoadMissing, RunTypes, ListsOf
<1>3. \A k \in Kinds \ {kind} : Same(k)
  BY <1>1, <1>2 DEF Same, Content, ListsOf, VersionInv
<1>4. \A k \in Kinds \ {kind} : Fresh(k) => Fresh(k)'
  BY <1>1, <1>3, SameMade DEF Fresh
<1>5. /\ \A k \in Kinds : recorded'[k] = "current" => recorded[k] = "current" /\ k # kind
      /\ taken' = taken \ {kind}
  BY <1>2 DEF Touch
<1>6. Compiled' = Compiled /\ Compiled \subseteq Kinds
  BY <1>1 DEF Compiled, RunTypes
<1>7. /\ \A k \in Kinds : recorded'[k] = "current" => Fresh(k)' /\ k \in taken'
      /\ \A k \in Compiled' \cap taken' : Fresh(k)'
  BY <1>1, <1>4, <1>5, <1>6 DEF HonestInv
<1> QED  BY <1>1, <1>5, <1>7 DEF HonestInv

\* An output is written from what was loaded, or its write fails, which is
\* known; after the last one the kind is compiled.
LEMMA WriteHonest ==
  ASSUME RunTypes, HonestInv, NEW o \in Outputs, Write(o) \/ WriteFails(o)
  PROVE  HonestInv'
<1>1. WriteNext(o)
  BY DEF Write, WriteFails
<1>2. /\ UNCHANGED <<manual, urls, cache, recorded, taken, need, loaded>>
      /\ pc = "write" /\ o \in todo /\ o \in OutputsOf(kind) /\ kind \in need
  BY <1>1 DEF WriteNext, RunTypes
<1>3. \A x \in Lists : Content(x)' = Content(x)
  BY <1>2 DEF Content
<1>4. \A x \in Outputs : Made(x)' = Made(x)
  BY <1>3 DEF Made, Outputs, InputsOf, Lists
<1>5. /\ \A x \in Outputs \ {o} : out'[x] = out[x] /\ (x \in unwritten' <=> x \in unwritten)
      /\ kind \in taken /\ o \notin unwritten' => out'[o] = Made(o)
  <2>1. CASE Write(o)
    <3>1. /\ out' = [out EXCEPT ![o] = [l \in InputsOf(o) |-> loaded[l]]]
          /\ unwritten' = unwritten \ {o}
      BY <2>1 DEF Write
    <3>2. \A l \in InputsOf(o) : kind \in taken => loaded[l] = Content(l)
      BY <1>2, KindFacts DEF HonestInv, RunTypes
    <3>3. kind \in taken => [l \in InputsOf(o) |-> loaded[l]] = Made(o)
      BY <3>2 DEF Made
    <3> QED  BY <3>1, <3>3 DEF RunTypes
  <2>2. CASE WriteFails(o)
    BY <2>2 DEF WriteFails
  <2> QED  BY <2>1, <2>2
<1>6. ASSUME NEW k \in Kinds, Fresh(k), k = kind => kind \in taken
      PROVE  Fresh(k)'
  <2>1. k # kind => o \notin OutputsOf(k)
    BY <1>2, KindFacts DEF RunTypes
  <2> QED  BY <1>4, <1>5, <1>6, <2>1, KindFacts DEF Fresh
<1>7. \A k \in Kinds : recorded'[k] = "current" => Fresh(k)' /\ k \in taken'
  BY <1>2, <1>6 DEF HonestInv
<1>8. kind \in taken =>
        \A x \in OutputsOf(kind) \ ((todo \ {o}) \cup unwritten') : out'[x] = Made(x)'
  BY <1>2, <1>4, <1>5, KindFacts, Zenon DEF HonestInv, RunTypes
<1>9. ASSUME todo = {o}, kind \in taken, NEW k \in Kinds, k = kind
      PROVE  Fresh(k)'
  <2>1. \A x \in OutputsOf(k) \ unwritten' : out'[x] = Made(x)'
    BY <1>8, <1>9
  <2> QED  BY <2>1 DEF Fresh
<1>10. \A k \in Compiled \cap taken : k # kind /\ k \in Kinds /\ Fresh(k)'
  BY <1>2, <1>6 DEF HonestInv, Compiled, RunTypes
<1>11. CASE todo # {o}
  <2>1. pc' = "write" /\ kind' = kind /\ todo' = todo \ {o}
    BY <1>1, <1>2, <1>11 DEF WriteNext
  <2>2. Compiled' = Compiled
    BY <1>2, <2>1 DEF Compiled
  <2>3. kind \in taken => \A l \in ListsOf(kind) : loaded'[l] = Content(l)'
    BY <1>2, <1>3 DEF HonestInv, ListsOf
  <2> QED  BY <1>2, <1>7, <1>8, <1>10, <2>1, <2>2, <2>3 DEF HonestInv
<1>12. CASE todo = {o} /\ kind = "ips" /\ "domains" \in need
  <2>1. pc' = "load" /\ kind' = "domains" /\ todo' = ListsOf("domains")
    BY <1>1, <1>2, <1>12 DEF WriteNext
  <2>2. Compiled' = {kind} /\ kind \in Kinds
    BY <1>2, <1>12, <2>1 DEF Compiled, RunTypes
  <2>3. \A k \in Compiled' \cap taken' : Fresh(k)'
    BY <1>2, <1>9, <1>12, <2>2
  <2> QED  BY <1>2, <1>7, <2>1, <2>3 DEF HonestInv
<1>13. CASE todo = {o} /\ ~(kind = "ips" /\ "domains" \in need)
  <2>1. pc' = "record"
    BY <1>1, <1>2, <1>13 DEF WriteNext
  <2>2. Compiled' = need
    BY <1>2, <2>1 DEF Compiled
  <2>3. need \subseteq Compiled \cup {kind} /\ kind \in Kinds
    BY <1>2, <1>13 DEF Compiled, RunTypes, Kinds
  <2>4. \A k \in Compiled' \cap taken' : Fresh(k)'
    BY <1>2, <1>9, <1>10, <1>13, <2>2, <2>3
  <2> QED  BY <1>2, <1>7, <2>1, <2>4 DEF HonestInv
<1> QED  BY <1>11, <1>12, <1>13

\* The hash that was computed before loading is recorded: it is current only
\* if no file of the kind was written since.
LEMMA RecordHonest ==
  ASSUME RunTypes, HonestInv, Record
  PROVE  HonestInv'
<1> DEFINE first == First(need)
<1>1. /\ pc = "record" /\ UNCHANGED <<manual, urls, cache, out, unwritten>>
      /\ recorded' = [recorded EXCEPT ![first] = Recorded(first)]
  BY DEF Record
<1>2. first \in need /\ first \in Kinds
  BY <1>1, FirstFacts DEF RunTypes
<1> HIDE DEF first
<1>3. /\ \A k \in Kinds : Same(k)
      /\ \A k \in Kinds : Fresh(k) => Fresh(k)'
  <2>1. \A k \in Kinds : Same(k)
    BY <1>1 DEF Same, Content
  <2> QED  BY <1>1, <2>1, SameMade DEF Fresh
<1>4. ASSUME NEW k \in Kinds, recorded'[k] = "current"
      PROVE  k \in taken /\ Fresh(k)'
  <2>1. CASE k = first
    <3>1. first \in taken
      BY <1>1, <1>2, <1>4, <2>1 DEF RunTypes, Recorded
    <3> QED  BY <1>1, <1>2, <1>3, <2>1, <3>1 DEF HonestInv, Compiled
  <2>2. CASE k # first
    BY <1>1, <1>2, <1>3, <1>4, <2>2 DEF HonestInv, RunTypes
  <2> QED  BY <2>1, <2>2
<1>5. CASE need = {first}
  <2>1. pc' = "idle"
    BY <1>5 DEF Record, Return, first
  <2>2. Compiled' = {}
    BY <2>1 DEF Compiled
  <2> QED  BY <1>4, <2>1, <2>2 DEF HonestInv
<1>6. CASE need # {first}
  <2>1. pc' = "record" /\ need' = need \ {first} /\ taken' = taken
    BY <1>1, <1>6 DEF Record, first
  <2>2. \A k \in Compiled' \cap taken' : Fresh(k)'
    BY <1>1, <1>3, <2>1 DEF HonestInv, Compiled, RunTypes
  <2> QED  BY <1>4, <2>1, <2>2 DEF HonestInv
<1> QED  BY <1>5, <1>6

\* Every step keeps the hashes honest.
LEMMA NextHonest == RunTypes /\ VersionInv /\ HonestInv /\ [Next]_vars => HonestInv'
<1> SUFFICES ASSUME RunTypes, VersionInv, HonestInv, [Next]_vars PROVE HonestInv'
  OBVIOUS
<1>1. ASSUME UNCHANGED <<manual, urls, cache, out, unwritten, recorded>>,
             pc' \notin {"load", "write", "record"}
      PROVE  HonestInv'
  BY <1>1, OutsideHonest DEF Same, Content
<1>2. CASE Start \/ Skip \/ Crash
  BY <1>1, <1>2 DEF Start, Skip, Crash, Return, files
<1>3. ASSUME NEW l \in Lists, DownloadKeeps(l) \/ SaveMeta(l)
      PROVE  HonestInv'
  BY <1>1, <1>3 DEF DownloadKeeps, SaveMeta, files
<1>4. CASE UNCHANGED <<manual, urls, cache, out, unwritten, recorded, run>>
  BY <1>4 DEF HonestInv, Fresh, Made, Content, Compiled, run
<1>5. CASE \E l \in Sourced : EditSources(l) \/ Publish(l)
  BY <1>4, <1>5, EditHonest, CompilerAssumption DEF Publish
<1>6. CASE UNCHANGED vars
  BY <1>4, <1>6 DEF vars, files
<1> QED
  BY <1>2, <1>3, <1>5, <1>6, EditHonest, DownloadHonest, HashHonest, LoadHonest,
     LoadMissingHonest, WriteHonest, RecordHonest DEF Next, Step

\* At the start no hash is recorded.
LEMMA InitHonest == Init => HonestInv
  BY DEF Init, HonestInv, Compiled

\* Which of the invariants make up the type invariant.
LEMMA CompilerTypes == RunTypes /\ VersionInv => TypeOK
<1> SUFFICES ASSUME RunTypes, VersionInv PROVE TypeOK
  OBVIOUS
<1>1. /\ manual \in [Lists -> 1 .. 1 + MaxEdits]
      /\ cache \in [Lists -> 0 .. 1 + MaxPublish] /\ meta \in [Lists -> 0 .. 1 + MaxPublish]
  <2>1. ASSUME NEW l \in Lists
        PROVE  /\ manual[l] \in 1 .. 1 + MaxEdits
               /\ cache[l] \in 0 .. 1 + MaxPublish /\ meta[l] \in 0 .. 1 + MaxPublish
    BY CompilerAssumption DEF VersionInv
  <2> QED  BY <2>1 DEF VersionInv
<1> QED  BY <1>1 DEF RunTypes, VersionInv, TypeOK, ListsOf

\* A kind of list is skipped only if its outputs are made of what its files
\* hold, whatever was edited, downloaded, lost or killed while they were made;
\* the exception is an output whose write failed (CompileLists, getStateHash).
THEOREM HashCorrect == Spec => []HashIsHonest
<1>1. RunTypes /\ VersionInv /\ HonestInv => HashIsHonest
  BY CompilerTypes DEF HonestInv, HashIsHonest, Fresh, Made
<1> QED
  BY <1>1, InitVersions, NextVersions, InitRunTypes, NextRunTypes, InitHonest, NextHonest,
     PTL DEF Spec

=============================================================================
