---------------------------- MODULE ConfigFinder -----------------------------
(***************************************************************************)
(* @jil/config: loads of a project's configuration, from a branch folder   *)
(* up to the root, that run concurrently and share one Cache.  Contents are*)
(* cached by the file's modification time, and the cached value is the very*)
(* object that every load gets: it is kept here on a heap.                 *)
(*                                                                         *)
(* A file's version counts its edits and stands for its mtime and for its  *)
(* contents; 0 is a file that does not exist.  The loaders read the file,  *)
(* as those for JSON and YAML do.  A root file may extend the preset and   *)
(* override settings for the paths that its patterns match, and what it    *)
(* overrides them with may extend a preset too; a branch file must do      *)
(* neither.  The overrides of a file are one entry of include, exclude and *)
(* settings, whose patterns do not change when the file is edited.         *)
(***************************************************************************)
EXTENDS Naturals, Sequences, SequencesExt, FiniteSets, Subsequences

CONSTANTS Loads,        \* calls of loadFromBranchToRoot()
          RootFiles,    \* a root's candidate files, in order of precedence
          BranchFiles,  \* a branch folder's candidate files, likewise
          Preset,       \* the file that a root file extends
          OverridePreset, \* the file that the overrides of a root file extend
          Extending,    \* files with the setting extendsSetting, at most one of them in the root
          Overriding,   \* files with the setting overridesSetting
          Nested,       \* the root file whose overrides have the setting extendsSetting, if any
          Initial,      \* the version of each file at the start
          Edits,        \* bound on edits, creations and removals
          Clears,       \* bound on clearCache()
          None

Presets == {Preset, OverridePreset}
Files == ToSet(RootFiles) \union ToSet(BranchFiles) \union Presets

ASSUME FilesAssumption ==
  /\ RootFiles \in Seq(Files) /\ BranchFiles \in Seq(Files)
  /\ Initial \in [Files -> {0, 1}]
  /\ Extending \subseteq Files \ Presets /\ Cardinality(Extending \intersect ToSet(RootFiles)) <= 1
  /\ Overriding \subseteq Files \ Presets
  /\ Nested \subseteq Overriding \intersect ToSet(RootFiles) /\ Cardinality(Nested) <= 1

VARIABLES version,   \* the files, as they are now
          edits, clears,
          dirFilesCache,    \* files found in the "root" and the "branch" folder
          fileContentCache, \* [object, mtime] of each file, or None
          heap,      \* the objects read: version, settings, history of who took them
          load       \* the state of each load

vars == <<version, edits, clears, dirFilesCache, fileContentCache, heap, load>>

Folders == {"root", "branch"}

(* A loadConfig() of one file by a load: what it saw in the cache, the     *)
(* mtime it was told, what it read and the object it has come to.          *)
NotBegun == [step |-> "scope", seen |-> None, mtime |-> 0, read |-> 0, object |-> 0]

(* matches: the files whose patterns match the path the load begins at.    *)
Idle == [step |-> "idle", start |-> Initial, matches |-> {}, found |-> <<>>, next |-> 1,
         file |-> [f \in Files |-> NotBegun],
         overrides |-> <<>>, extends |-> FALSE, nested |-> FALSE, answer |-> <<>>]

Init ==
  /\ version = Initial /\ edits = 0 /\ clears = 0
  /\ dirFilesCache = [d \in Folders |-> None]
  /\ fileContentCache = [f \in Files |-> None]
  /\ heap = <<>>
  /\ load = [l \in Loads |-> Idle]

-----------------------------------------------------------------------------
(* loadFromBranchToRoot(), as far as findRootDir(). *)
Begin(l) ==
  /\ load[l].step = "idle"
  /\ \E matches \in SUBSET (Overriding \intersect ToSet(RootFiles)) :
       load' = [load EXCEPT ![l] = [@ EXCEPT !.step = "branch", !.start = version, !.matches = matches]]
  /\ UNCHANGED <<version, edits, clears, dirFilesCache, fileContentCache, heap>>

(* cacheFilesInDir() and findFilesInDir(), the shorter names first. *)
FilesInDir(folder) ==
  IF dirFilesCache[folder] # None THEN dirFilesCache[folder]
  ELSE LET files == IF folder = "root" THEN RootFiles ELSE BranchFiles
       IN Subsequence(files, {i \in DOMAIN files : version[files[i]] > 0})

(* One turn of the loop: the branch, then the root, whose files go first. *)
FindFiles(l) ==
  LET folder == load[l].step
      files == FilesInDir(folder)
  IN /\ folder \in Folders
     /\ dirFilesCache' = [dirFilesCache EXCEPT ![folder] = files]
     /\ load' = [load EXCEPT ![l].found = files \o @,
                             ![l].step = IF folder = "branch" THEN "root" ELSE "files"]
     /\ UNCHANGED <<version, edits, clears, fileContentCache, heap>>

(* extractExtendedConfigs() goes over what was found and overridden. *)
Turns(l) == Len(load[l].found) + Len(load[l].overrides)
Extended(l) == (IF load[l].extends THEN <<Preset>> ELSE <<>>)
                 \o (IF load[l].nested THEN <<OverridePreset>> ELSE <<>>)

(* The files a load is loading: those it found, then the presets. *)
Loading(l) == IF load[l].step \in {"idle", "branch", "root"} THEN {}
              ELSE ToSet(load[l].found) \union
                   (IF load[l].next > Turns(l) THEN ToSet(Extended(l)) ELSE {})

(* cacheFileContents() begins: it looks into the cache and asks for the    *)
(* file's mtime.                                                           *)
Look(l, f) ==
  /\ load[l].file[f].step = "scope"
  /\ load' = [load EXCEPT ![l].file[f] = [@ EXCEPT !.step = "stat", !.seen = fileContentCache[f]]]
  /\ UNCHANGED <<version, edits, clears, dirFilesCache, fileContentCache, heap>>

Reject(l) == [load EXCEPT ![l].step = "rejected"]

(* A mutant of cacheFileContents(): what the cache has is taken as it is. *)
StatUnchecked(l, f) ==
  LET seen == load[l].file[f].seen
  IN /\ load[l].file[f].step = "stat"
     /\ \/ /\ version[f] = 0
           /\ load' = [Reject(l) EXCEPT ![l].file[f].step = "failed"]
        \/ /\ version[f] > 0 /\ seen # None
           /\ load' = [load EXCEPT ![l].file[f] = [@ EXCEPT !.step = "done", !.object = seen.object]]
        \/ /\ version[f] > 0 /\ seen = None
           /\ load' = [load EXCEPT ![l].file[f] = [@ EXCEPT !.step = "read", !.mtime = version[f]]]
     /\ UNCHANGED <<version, edits, clears, dirFilesCache, fileContentCache, heap>>

Stat(l, f) ==
  LET seen == load[l].file[f].seen
      hit == IF seen = None THEN FALSE ELSE seen.mtime = version[f]
  IN /\ load[l].file[f].step = "stat"
     /\ \/ /\ version[f] = 0
           /\ load' = [Reject(l) EXCEPT ![l].file[f].step = "failed"]
        \/ /\ version[f] > 0 /\ hit
           /\ load' = [load EXCEPT ![l].file[f] = [@ EXCEPT !.step = "done", !.object = seen.object]]
        \/ /\ version[f] > 0 /\ ~hit
           /\ load' = [load EXCEPT ![l].file[f] = [@ EXCEPT !.step = "read", !.mtime = version[f]]]
     /\ UNCHANGED <<version, edits, clears, dirFilesCache, fileContentCache, heap>>

Read(l, f) ==
  /\ load[l].file[f].step = "read"
  /\ load' = IF version[f] = 0 THEN [Reject(l) EXCEPT ![l].file[f].step = "failed"]
             ELSE [load EXCEPT ![l].file[f] = [@ EXCEPT !.step = "store", !.read = version[f]]]
  /\ UNCHANGED <<version, edits, clears, dirFilesCache, fileContentCache, heap>>

(* The settings that a file is written with. *)
Given(f) == (IF f \in Extending THEN {"extends"} ELSE {})
              \union (IF f \in Overriding THEN {"overrides"} ELSE {})

(* commit() has resolved: a new object goes into the cache. *)
Store(l, f) ==
  LET object == [version |-> load[l].file[f].read, settings |-> Given(f), taken |-> {}]
  IN /\ load[l].file[f].step = "store"
     /\ heap' = Append(heap, object)
     /\ fileContentCache' = [fileContentCache EXCEPT ![f] =
                               [object |-> Len(heap) + 1, mtime |-> load[l].file[f].mtime]]
     /\ load' = [load EXCEPT ![l].file[f] = [@ EXCEPT !.step = "done", !.object = Len(heap) + 1]]
     /\ UNCHANGED <<version, edits, clears, dirFilesCache>>

AllLoaded(l) == \A f \in Loading(l) : load[l].file[f].step = "done"
IsRoot(f) == f \in ToSet(RootFiles)
Object(l, f) == load[l].file[f].object

(* The setting is deleted from the objects in os, where it may be missing. *)
Deleted(l, os, key) ==
  [o \in DOMAIN heap |->
     IF o \in os /\ key \in heap[o].settings
     THEN [heap[o] EXCEPT !.settings = @ \ {key}, !.taken = @ \union {<<key, l>>}]
     ELSE heap[o]]

(* A mutant of extractOverriddenConfigs(): the setting is read after it was *)
(* deleted.                                                                 *)
ExtractOverriddenLate(l) ==
  LET found == load[l].found
      Has(i) == "overrides" \in heap[Object(l, found[i])].settings
      bad == {i \in DOMAIN found : ~IsRoot(found[i]) /\ Has(i)}
      over == {i \in DOMAIN found : IsRoot(found[i]) /\ \A j \in bad : i < j}
  IN /\ load[l].step = "files" /\ AllLoaded(l)
     /\ heap' = Deleted(l, {Object(l, found[i]) : i \in over}, "overrides")
     /\ load' = IF bad # {} THEN Reject(l)
                ELSE [load EXCEPT ![l].step = "extends",
                                  ![l].overrides = Subsequence(found,
                                     {i \in DOMAIN found : found[i] \in load[l].matches /\
                                        "overrides" \in heap'[Object(l, found[i])].settings})]
     /\ UNCHANGED <<version, edits, clears, dirFilesCache, fileContentCache>>

(* resolveFiles(): Promise.all() has resolved, and extractOverriddenConfigs *)
(* goes over the files: it takes the setting out of the root's objects,     *)
(* keeps it if it matches, and throws at the first file of a branch that    *)
(* has one.                                                                 *)
ExtractOverridden(l) ==
  LET found == load[l].found
      Has(i) == "overrides" \in heap[Object(l, found[i])].settings
      bad == {i \in DOMAIN found : ~IsRoot(found[i]) /\ Has(i)}
      over == {i \in DOMAIN found : IsRoot(found[i]) /\ \A j \in bad : i < j}
  IN /\ load[l].step = "files" /\ AllLoaded(l)
     /\ heap' = Deleted(l, {Object(l, found[i]) : i \in over}, "overrides")
     /\ load' = IF bad # {} THEN Reject(l)
                ELSE [load EXCEPT ![l].step = "extends",
                                  ![l].overrides = Subsequence(found,
                                     {i \in DOMAIN found :
                                        found[i] \in load[l].matches /\ IsRoot(found[i]) /\ Has(i)})]
     /\ UNCHANGED <<version, edits, clears, dirFilesCache, fileContentCache>>

(* One turn of the loop of extractExtendedConfigs(), which awaits the      *)
(* resolver in each of them: the setting is taken out of a root's object,  *)
(* and a branch must not have it.                                          *)
ExtractExtended(l) ==
  LET f == load[l].found[load[l].next]
      has == "extends" \in heap[Object(l, f)].settings
  IN /\ load[l].step = "extends" /\ load[l].next <= Len(load[l].found)
     /\ heap' = IF IsRoot(f) THEN Deleted(l, {Object(l, f)}, "extends") ELSE heap
     /\ load' = IF has /\ ~IsRoot(f) THEN Reject(l)
                ELSE [load EXCEPT ![l] = [@ EXCEPT !.next = load[l].next + 1, !.extends = load[l].extends \/ has]]
     /\ UNCHANGED <<version, edits, clears, dirFilesCache, fileContentCache>>

(* A turn over what a root file overrides with: the setting is deleted from *)
(* settings that no other load has since the overrides were taken.          *)
ExtractNested(l) ==
  LET at == load[l].next - Len(load[l].found)
  IN /\ load[l].step = "extends" /\ at \in 1 .. Len(load[l].overrides)
     /\ load' = [load EXCEPT ![l] = [@ EXCEPT !.next = load[l].next + 1,
                                       !.nested = load[l].nested \/ load[l].overrides[at] \in Nested]]
     /\ UNCHANGED <<version, edits, clears, dirFilesCache, fileContentCache, heap>>

(* The presets come before everything, the overrides after it. *)
Answer(l) ==
  LET Of(source, files) == [i \in DOMAIN files |-> [file |-> files[i],
                              object |-> Object(l, files[i]), source |-> source]]
  IN Of("extended", Extended(l)) \o Of("found", load[l].found) \o Of("overridden", load[l].overrides)

ResolveFiles(l) ==
  /\ load[l].step = "extends" /\ load[l].next > Turns(l) /\ AllLoaded(l)
  /\ load' = [load EXCEPT ![l].step = "done", ![l].answer = Answer(l)]
  /\ UNCHANGED <<version, edits, clears, dirFilesCache, fileContentCache, heap>>

(* Someone edits, creates or removes a file. *)
Edit(f) ==
  /\ edits < Edits /\ edits' = edits + 1
  /\ \/ version' = [version EXCEPT ![f] = edits + 2]
     \/ version[f] > 0 /\ version' = [version EXCEPT ![f] = 0]
  /\ UNCHANGED <<clears, dirFilesCache, fileContentCache, heap, load>>

ClearCache ==
  /\ clears < Clears /\ clears' = clears + 1
  /\ \/ /\ dirFilesCache' = [d \in Folders |-> None]
        /\ UNCHANGED fileContentCache
     \/ /\ fileContentCache' = [f \in Files |-> None]
        /\ UNCHANGED dirFilesCache
  /\ UNCHANGED <<version, edits, heap, load>>

Next ==
  \/ \E l \in Loads :
       \/ Begin(l) \/ FindFiles(l) \/ ResolveFiles(l)
       \/ ExtractOverridden(l) \/ ExtractExtended(l) \/ ExtractNested(l)
       \/ \E f \in Loading(l) : Look(l, f) \/ Stat(l, f) \/ Read(l, f) \/ Store(l, f)
  \/ \E f \in Files : Edit(f)
  \/ ClearCache

Spec == Init /\ [][Next]_vars

-----------------------------------------------------------------------------
Done == {l \in Loads : load[l].step = "done"}

(***************************************************************************)
(* What a load answers with is at least as new as the file was when the    *)
(* load began, whatever other loads stored meanwhile and in what order:    *)
(* contents are compared by mtime after the load has begun.                *)
(***************************************************************************)
Fresh ==
  \A l \in Done : \A i \in DOMAIN load[l].answer :
    heap[load[l].answer[i].object].version >= load[l].start[load[l].answer[i].file]

(***************************************************************************)
(* The settings of a root file that was read are taken out of its object,  *)
(* which every load shares, by exactly one load (config-finder.ts:195-300).*)
(* A load that is answered applies the presets that it took, the overrides *)
(* that it took if its path matches them, with the presets of these, and   *)
(* nothing else: so a load goes without what an earlier one took from the  *)
(* object in the cache, even if that one did not match, or was rejected.   *)
(***************************************************************************)
AppliedOnce ==
  \A l \in Done :
    /\ load[l].nested <=> ToSet(load[l].overrides) \intersect Nested # {}
    /\ \A i \in DOMAIN load[l].found :
         LET f == load[l].found[i]
             taken == heap[Object(l, f)].taken
             Applies(key) == \/ key = "extends" /\ load[l].extends
                             \/ key = "overrides" /\ f \in ToSet(load[l].overrides)
             Meant(key) == key = "overrides" => f \in load[l].matches
         IN IsRoot(f) => \A key \in Given(f) :
              \E t \in Loads : taken \intersect ({key} \X Loads) = {<<key, t>>}
                              /\ (Applies(key) <=> t = l /\ Meant(key))
=============================================================================
