------------------------------ MODULE Packages ------------------------------
(***************************************************************************)
(* Constellation, the package manager (pkg_manager.c): `vn add`, `remove`, *)
(* `install`, `install --frozen`, `update`, and the install that `vn build`*)
(* begins with.  One process works on three things on the disk             *)
(*                                                                         *)
(*   constellation.toml  what the project requires (varian.pkg before),    *)
(*   constellation.lock  which commit each package was taken at,           *)
(*   vn_modules/         the packages,                                     *)
(*                                                                         *)
(* and reads the index and the repositories, where tags move.  Nothing is  *)
(* written in one piece: the process may be killed in the middle of any of *)
(* them, and each command that it runs for a package may fail.  Some of    *)
(* those failures nobody looks at: fprintf and fclose may write less than  *)
(* they were given, and whether lock_save and `rm -rf` did their work is   *)
(* not asked.  Two variables are history, for the properties only: which   *)
(* failures the last command passed over, and what it took.                *)
(*                                                                         *)
(* A package is its name: two repositories with one name are not told      *)
(* apart.  The digest of a tarball is not modelled: that it is another one *)
(* than was recorded is one of the ways in which fetching may fail.  (It   *)
(* covers the times of the files, so that it may be another one although   *)
(* the files are the same.)  Left out too: python wrappers, search and     *)
(* publish, which change nothing here, the kinds of capabilities, and that *)
(* two processes use the same files in /tmp.                               *)
(***************************************************************************)
EXTENDS Integers, Sequences, SequencesExt, FiniteSets, FiniteSetsExt

CONSTANTS
  Worlds,      \* records: manifest, legacy (varian.pkg), lock, index, contents, tags, heads
  Commands,    \* records: op, and dep (of add) or name (of remove)
  Versions,    \* the versions that may exist, <<major, minor, patch>>
  MaxQueue,    \* MAX_QUEUE_DEPS
  MaxCommands, MaxPushes, MaxCrashes,  \* bounds on what happens
  None

VARIABLES
  index,      \* index[n]: the versions of n in the registry, each with its tag
  contents,   \* contents[n][c]: what the c-th commit of n's repository holds
  tags,       \* tags[n][t]: the commit of a tag, 0 if there is no such tag
  heads,      \* heads[n]: the newest commit
  manifest,   \* constellation.toml: what the project requires, or None
  legacy,     \* varian.pkg, or None
  lock,       \* constellation.lock, or None; an entry of commit 0 is cut off in the middle
  modules,    \* vn_modules/: modules[n] is the commit that is there; 0 if it is not all there
  pc, cmd,    \* where the process is, and in which command
  queue, at,  \* the packages to look at, and the one that is looked at
  pending,    \* the requirements that have been read and are not in the queue yet
  new_lock,   \* the entries of those before it
  conflict,   \* two requirements that were found to exclude each other, or <<>>
  outcome,    \* of the last command
  unnoticed,  \* history: what of "save" and "prune" failed in it and was passed over
  taken,      \* history: if it was an install that succeeded, what it took
  count       \* bounds: the commands, pushes and crashes so far

upstream == <<index, contents, tags, heads>>
disk == <<manifest, legacy, lock, modules>>
resolution == <<queue, at, pending, new_lock, conflict>>
history == <<unnoticed, taken>>
vars == <<upstream, disk, pc, cmd, resolution, outcome, history, count>>

-----------------------------------------------------------------------------
(* Versions and the requirements on them: any, exactly v, ^v, ~v, or a tag *)
(* of the repository.                                                      *)
Version == Nat \X Nat \X Nat
Requirement ==
  [op : {"any"}] \cup [op : {"exact", "caret", "tilde"}, v : Version] \cup [op : {"git"}, tag : STRING]

(* What may be required, and recorded, if these are the packages, their    *)
(* tags and their newest commits.                                          *)
Dependencies(names, ts) ==
  {d \in [name : names, req : Requirement] : d.req.op = "git" => d.req.tag \in DOMAIN ts[d.name]}
Entries(hs) == {e \in [name : DOMAIN hs, tag : STRING, commit : Nat] : e.commit <= hs[e.name]}

(* In a manifest, a lock file and the queue each package has one place.    *)
Once(s) == \A i, j \in DOMAIN s : s[i].name = s[j].name => i = j
Place(s, n) == SelectInSeq(s, LAMBDA d : d.name = n)

UpstreamOK(ix, cs, ts, hs) ==
  LET names == DOMAIN cs
  IN /\ DOMAIN ts = names /\ hs \in [names -> Nat \ {0}]
     /\ \A n \in names :
          /\ cs[n] \in Seq([deps : Seq(Dependencies(names, ts)), native : BOOLEAN])
          /\ hs[n] <= Len(cs[n])
          /\ \A t \in DOMAIN ts[n] : t \in STRING /\ ts[n][t] \in 0 .. hs[n]
          /\ IsFiniteSet(ix[n])
          /\ \A x \in ix[n] : x.v \in Version /\ x.tag \in DOMAIN ts[n] \ {""}

ManifestOK(m, names, ts) == m = None \/ (m \in Seq(Dependencies(names, ts)) /\ Once(m))
LockOK(l, hs) == l = None \/ (l \in Seq(Entries(hs)) /\ Once(l))
ModulesOK(m, hs) ==
  DOMAIN m \subseteq DOMAIN hs /\ m = [n \in DOMAIN m |-> m[n]] /\ \A n \in DOMAIN m : m[n] \in 0 .. hs[n]

(* The worlds and commands are ones that there can be.                     *)
ASSUME WorldsAssumption ==
  \A w \in Worlds :
    /\ UpstreamOK(w.index, w.contents, w.tags, w.heads)
    /\ ManifestOK(w.manifest, DOMAIN w.contents, w.tags)
    /\ ManifestOK(w.legacy, DOMAIN w.contents, w.tags)
    /\ LockOK(w.lock, w.heads)
    /\ \A c \in Commands : c.op = "add" => c.dep \in Dependencies(DOMAIN w.contents, w.tags)

ASSUME CommandsAssumption ==
  /\ \A c \in Commands : c.op \in {"add", "remove", "install", "frozen", "update", "build"}
  /\ Versions \subseteq Version

compare_versions(v, w) ==
  \/ v[1] > w[1]
  \/ v[1] = w[1] /\ v[2] > w[2]
  \/ v[1] = w[1] /\ v[2] = w[2] /\ v[3] > w[3]

Caret(v, r) ==
  /\ v[1] = r[1]
  /\ CASE v[1] > 0              -> v[2] > r[2] \/ (v[2] = r[2] /\ v[3] >= r[3])
       [] v[1] = 0 /\ r[2] > 0  -> v[2] = r[2] /\ v[3] >= r[3]
       [] OTHER                 -> v[2] = 0 /\ v[3] = r[3]

version_matches(v, req) ==
  CASE req.op = "any"   -> TRUE
    [] req.op = "caret" -> Caret(v, req.v)
    [] req.op = "tilde" -> v[1] = req.v[1] /\ v[2] = req.v[2] /\ v[3] >= req.v[3]
    [] req.op = "exact" -> v = req.v

(* Mutant: another minor version is taken for another major one.           *)
SameMinor(a, b) ==
  \/ a = b
  \/ "any" \in {a.op, b.op}
  \/ a.v[1] = b.v[1] /\ a.v[2] = b.v[2] /\ ~(a.op = "exact" /\ b.op = "exact")
ranges_compatible(a, b) ==
  \/ a = b
  \/ "any" \in {a.op, b.op}
  \/ a.v[1] = b.v[1] /\ ~(a.op = "exact" /\ b.op = "exact")

(* The newest version that is allowed: the tag to take, "" if there is none. *)
resolve_registry_package(n, req) ==
  LET fit == {x \in index[n] : version_matches(x.v, req)}
      best == CHOOSE x \in fit : \A y \in fit : ~compare_versions(y.v, x.v)
  IN IF fit = {} THEN "" ELSE best.tag

Conflicts(a, b) == "git" \notin {a.op, b.op} /\ ~ranges_compatible(a, b)

-----------------------------------------------------------------------------
Init ==
  /\ \E w \in Worlds :
       /\ index = w.index /\ contents = w.contents /\ tags = w.tags /\ heads = w.heads
       /\ manifest = w.manifest /\ legacy = w.legacy /\ lock = w.lock
  /\ modules = << >>
  /\ pc = "idle" /\ cmd = [op |-> "none"]
  /\ queue = <<>> /\ at = 0 /\ pending = <<>> /\ new_lock = <<>> /\ conflict = <<>>
  /\ outcome = "none" /\ unnoticed = {} /\ taken = <<>>
  /\ count = [commands |-> 0, pushes |-> 0, crashes |-> 0]

To(place) == pc' = place /\ UNCHANGED <<cmd, outcome, history, count>>
End(how) ==
  /\ pc' = "idle" /\ outcome' = how
  /\ cmd' = [op |-> "none"] /\ queue' = <<>> /\ at' = 0 /\ pending' = <<>> /\ new_lock' = <<>> /\ conflict' = <<>>
  /\ UNCHANGED count
Fail == End("failed") /\ UNCHANGED <<disk, history>>

(* A command is given.  `vn build` installs if a package has no directory. *)
Start ==
  /\ pc = "idle" /\ count.commands < MaxCommands
  /\ \E c \in Commands :
       /\ c.op = "build" => manifest # None /\ \E i \in DOMAIN manifest : manifest[i].name \notin DOMAIN modules
       /\ cmd' = c
  /\ pc' = "migrate"
  /\ count' = [count EXCEPT !.commands = @ + 1]
  /\ outcome' = "none" /\ unnoticed' = {} /\ taken' = <<>>
  /\ UNCHANGED <<upstream, disk, resolution>>

-----------------------------------------------------------------------------
(* The manifest.                                                           *)
AfterMigration == IF cmd.op \in {"add", "remove"} THEN "edit" ELSE "begin"

(* A file is written from its beginning.  Less may get there than should,  *)
(* and nobody is told.                                                     *)
CutManifest(new) == \E k \in 0 .. Len(new) : manifest' = SubSeq(new, 1, k)
CutLock ==
  \E k \in 0 .. Len(new_lock) : \/ lock' = SubSeq(new_lock, 1, k)
                                \/ /\ k < Len(new_lock)
                                   /\ lock' = SubSeq(new_lock, 1, k) \o <<[new_lock[k + 1] EXCEPT !.commit = 0]>>

(* An old manifest becomes the new one, whatever there is of that.  If the *)
(* new one cannot be opened, the command goes on with what there is.       *)
pkg_migrate_manifest ==
  /\ pc = "migrate"
  /\ \/ UNCHANGED manifest /\ To(AfterMigration)
     \/ legacy # None /\ CutManifest(legacy) /\ To("unlink")
  /\ UNCHANGED <<upstream, legacy, lock, modules, resolution>>

(* Whether the old one could be removed is not asked.                      *)
RemoveLegacy ==
  /\ pc = "unlink"
  /\ legacy' \in {None, legacy}
  /\ To(AfterMigration)
  /\ UNCHANGED <<upstream, manifest, lock, modules, resolution>>

(* What the manifest will be: a requirement is replaced where it stands.   *)
Deps == IF manifest = None THEN <<>> ELSE manifest
Edited ==
  IF cmd.op = "remove" THEN RemoveAt(Deps, Place(Deps, cmd.name))
  ELSE IF Place(Deps, cmd.dep.name) = 0 THEN Append(Deps, cmd.dep)
       ELSE [Deps EXCEPT ![Place(Deps, cmd.dep.name)] = cmd.dep]

pkg_add ==
  /\ pc = "edit" /\ cmd.op = "add"
  /\ \/ Fail
     \/ CutManifest(Edited) /\ End("added") /\ UNCHANGED <<legacy, lock, modules, history>>
  /\ UNCHANGED upstream

pkg_remove ==
  /\ pc = "edit" /\ cmd.op = "remove"
  /\ \/ Fail
     \/ /\ Place(Deps, cmd.name) # 0
        /\ CutManifest(Edited)
        /\ To("begin")
        /\ UNCHANGED <<legacy, lock, modules, resolution>>
  /\ UNCHANGED upstream

-----------------------------------------------------------------------------
(* Installing.                                                             *)
HasLock == lock # None /\ cmd.op # "update"
(* Mutant: the lock is read, and not used.                                 *)
Ignored(n) == 0
LockIndex(n) == IF HasLock THEN Place(lock, n) ELSE 0
Dep == queue[at]

BeginInstall ==
  /\ pc = "begin"
  /\ IF manifest = None \/ (~HasLock /\ cmd.op = "frozen") THEN Fail
     ELSE pending' = manifest /\ To("next") /\ UNCHANGED <<disk, queue, at, new_lock, conflict>>
  /\ UNCHANGED upstream

(* A package that is asked for again is not put into the queue again; the  *)
(* first requirement stands.                                               *)
(* Mutant: the last requirement stands.                                    *)
LastStands(dep) ==
  LET i == Place(queue, dep.name) IN IF i = 0 THEN Append(queue, dep) ELSE [queue EXCEPT ![i] = dep]
Queued(dep) == IF Place(queue, dep.name) = 0 /\ Len(queue) < MaxQueue THEN Append(queue, dep) ELSE queue

queue_push_from ==
  /\ pc = "next" /\ pending # <<>>
  /\ queue' = Queued(Head(pending))
  /\ LET dep == Head(pending)
         i == Place(queue, dep.name)
     IN conflict' = IF i # 0 /\ Conflicts(queue[i].req, dep.req) THEN <<queue[i].req, dep.req>> ELSE conflict
  /\ pending' = Tail(pending)
  /\ UNCHANGED <<upstream, disk, pc, cmd, at, new_lock, outcome, history, count>>

NextDep ==
  /\ pc = "next" /\ pending = <<>>
  /\ CASE conflict # <<>> -> Fail
       [] conflict = <<>> /\ at < Len(queue) ->
            at' = at + 1 /\ To("fetch") /\ UNCHANGED <<disk, queue, pending, new_lock, conflict>>
       [] OTHER -> To("save") /\ UNCHANGED <<disk, resolution>>
  /\ UNCHANGED upstream

(* The package is on the disk, and what is recorded of it is known.        *)
With(n, commit) == [m \in DOMAIN modules \cup {n} |-> IF m = n THEN commit ELSE modules[m]]
Fetched(entry) ==
  /\ modules' = With(entry.name, entry.commit)
  /\ new_lock' = Append(new_lock, entry)
  /\ To("approve")
  /\ UNCHANGED <<manifest, legacy, lock, queue, at, pending, conflict>>

(* What was there is removed before the archive is unpacked in its place.  *)
FailedUnpacking ==
  /\ modules' = With(Dep.name, 0)
  /\ End("failed")
  /\ UNCHANGED <<manifest, legacy, lock, history>>

(* A package in the lock is taken at the commit it was taken at before.    *)
restore_locked_dep ==
  /\ pc = "fetch" /\ LockIndex(Dep.name) # 0
  /\ LET e == lock[LockIndex(Dep.name)]
     IN Fail \/ (e.commit # 0 /\ (FailedUnpacking \/ Fetched(e)))
  /\ UNCHANGED upstream

(* Any other is taken at the tag that its requirement leads to, or, if the *)
(* repository has no such tag, at its newest commit.                       *)
TagOf(dep) == IF dep.req.op = "git" THEN dep.req.tag ELSE resolve_registry_package(dep.name, dep.req)
CheckedOut(n, tag) == IF tags[n][tag] = 0 THEN heads[n] ELSE tags[n][tag]

download_and_extract_git ==
  /\ pc = "fetch" /\ LockIndex(Dep.name) = 0
  /\ \/ Fail
     \/ /\ cmd.op # "frozen" /\ TagOf(Dep) # ""
        /\ FailedUnpacking \/ Fetched([name |-> Dep.name, tag |-> TagOf(Dep), commit |-> CheckedOut(Dep.name, TagOf(Dep))])
  /\ UNCHANGED upstream

(* An archive that does not have the digest of the index is found out when *)
(* it has been unpacked.                                                   *)
WrongDigest ==
  /\ pc = "fetch" /\ LockIndex(Dep.name) = 0
  /\ cmd.op # "frozen" /\ Dep.req.op # "git" /\ TagOf(Dep) # ""
  /\ modules' = With(Dep.name, CheckedOut(Dep.name, TagOf(Dep)))
  /\ End("failed")
  /\ UNCHANGED <<upstream, manifest, legacy, lock, history>>

Content == contents[Dep.name][modules[Dep.name]]
Without(n) == [m \in DOMAIN modules \ {n} |-> modules[m]]

(* A package with native capabilities needs consent, and its build script  *)
(* has to succeed.  If not it is removed, as far as `rm -rf` gets.         *)
Removing(n) == modules' \in {Without(n), With(n, 0), modules}
constellation_consent ==
  /\ pc = "approve"
  /\ \/ To("expand") /\ UNCHANGED <<disk, resolution>>
     \/ /\ Content.native
        /\ Removing(Dep.name)
        /\ End("failed")
        /\ UNCHANGED <<manifest, legacy, lock, history>>
  /\ UNCHANGED upstream

Expand ==
  /\ pc = "expand"
  /\ pending' = Content.deps
  /\ To("next")
  /\ UNCHANGED <<upstream, disk, queue, at, new_lock, conflict>>

(* Mutant: a lock is not written if it only lost entries.                  *)
OnlyNew == ~HasLock \/ \E i \in DOMAIN new_lock : LockIndex(new_lock[i].name) = 0
Modified ==
  \/ ~HasLock
  \/ \E i \in DOMAIN new_lock : LockIndex(new_lock[i].name) = 0
  \/ Len(new_lock) # Len(lock)
  \/ \E i \in DOMAIN lock : lock[i].name # new_lock[i].name \/ lock[i].commit # new_lock[i].commit

(* The lock file is written, or it cannot be opened, or less gets there    *)
(* than should; the install goes on as if it were written.                 *)
lock_save ==
  /\ pc = "save"
  /\ IF ~Modified THEN UNCHANGED <<lock, unnoticed>>
     ELSE \/ lock' = new_lock /\ UNCHANGED unnoticed
          \/ (UNCHANGED lock \/ CutLock) /\ unnoticed' = {"save"}
  /\ pc' = "prune"
  /\ UNCHANGED <<upstream, manifest, legacy, modules, cmd, resolution, outcome, taken, count>>

(* Of the packages that nobody asked for some may stay, or parts of them.  *)
Unused == DOMAIN modules \ {new_lock[i].name : i \in DOMAIN new_lock}
Pruned(stay, torn) ==
  [m \in (DOMAIN modules \ Unused) \cup stay |-> IF m \in torn THEN 0 ELSE modules[m]]
Prune ==
  /\ pc = "prune"
  /\ \E stay \in SUBSET Unused :
       /\ \E torn \in SUBSET stay : modules' = Pruned(stay, torn)
       /\ unnoticed' = unnoticed \cup IF stay = {} THEN {} ELSE {"prune"}
  /\ taken' = new_lock
  /\ End(IF cmd.op = "update" THEN "updated" ELSE "installed")
  /\ UNCHANGED <<upstream, manifest, legacy, lock>>

-----------------------------------------------------------------------------
(* The process is killed.  What it was writing is there up to some place.  *)
Killed ==
  CASE pc = "migrate" /\ legacy # None -> CutManifest(legacy) /\ UNCHANGED <<legacy, lock, modules>>
    [] pc = "edit" /\ (cmd.op = "add" \/ Place(Deps, cmd.name) # 0) ->
         CutManifest(Edited) /\ UNCHANGED <<legacy, lock, modules>>
    [] pc = "fetch" -> modules' = With(Dep.name, 0) /\ UNCHANGED <<manifest, legacy, lock>>
    [] pc = "approve" /\ Content.native -> Removing(Dep.name) /\ UNCHANGED <<manifest, legacy, lock>>
    [] pc = "save" /\ Modified -> CutLock /\ UNCHANGED <<manifest, legacy, modules>>
    [] pc = "prune" /\ Unused # {} ->
         /\ \E stay \in SUBSET Unused : \E torn \in SUBSET stay : modules' = Pruned(stay, torn)
         /\ UNCHANGED <<manifest, legacy, lock>>
    [] OTHER -> UNCHANGED disk

Crash ==
  /\ pc # "idle" /\ count.crashes < MaxCrashes
  /\ Killed
  /\ pc' = "idle" /\ outcome' = "killed" /\ unnoticed' = {} /\ UNCHANGED taken
  /\ cmd' = [op |-> "none"] /\ queue' = <<>> /\ at' = 0 /\ pending' = <<>> /\ new_lock' = <<>> /\ conflict' = <<>>
  /\ count' = [count EXCEPT !.crashes = @ + 1]
  /\ UNCHANGED upstream

(* Somebody commits to a repository, and moves a tag of it.                *)
Push ==
  /\ count.pushes < MaxPushes
  /\ \E n \in DOMAIN heads :
       /\ heads[n] < Len(contents[n])
       /\ heads' = [heads EXCEPT ![n] = @ + 1]
       /\ \E t \in DOMAIN tags[n] : tags' = [tags EXCEPT ![n][t] = heads[n] + 1]
  /\ count' = [count EXCEPT !.pushes = @ + 1]
  /\ UNCHANGED <<index, contents, disk, pc, cmd, resolution, outcome, history>>

Next ==
  \/ Start \/ pkg_migrate_manifest \/ RemoveLegacy \/ pkg_add \/ pkg_remove
  \/ BeginInstall \/ queue_push_from \/ NextDep \/ restore_locked_dep \/ download_and_extract_git \/ WrongDigest
  \/ constellation_consent \/ Expand \/ lock_save \/ Prune \/ Crash \/ Push

Spec == Init /\ [][Next]_vars

-----------------------------------------------------------------------------
Names == DOMAIN contents
TypeOK ==
  /\ UpstreamOK(index, contents, tags, heads)
  /\ ManifestOK(manifest, Names, tags) /\ ManifestOK(legacy, Names, tags)
  /\ LockOK(lock, heads) /\ ModulesOK(modules, heads)
  /\ queue \in Seq(Dependencies(Names, tags)) /\ Once(queue) /\ pending \in Seq(Dependencies(Names, tags))
  /\ new_lock \in Seq(Entries(heads)) /\ taken \in Seq(Entries(heads)) /\ at \in 0 .. Len(queue)
  /\ unnoticed \subseteq {"save", "prune"}
  /\ conflict = <<>> \/ conflict \in Requirement \X Requirement
  /\ cmd.op = "add" => cmd.dep \in Dependencies(Names, tags)

Succeeded == outcome \in {"installed", "updated"}

(* Where the process is, in an installation and outside of one.            *)
PlaceOK ==
  /\ pc \in {"idle", "migrate", "unlink", "edit", "begin", "next", "fetch", "approve", "expand", "save", "prune"}
  /\ pc \notin {"next", "fetch", "approve", "expand", "save", "prune"} =>
       queue = <<>> /\ at = 0 /\ pending = <<>> /\ new_lock = <<>> /\ conflict = <<>>
  /\ pc \in {"next", "fetch", "approve", "expand", "save", "prune"} => manifest # None
  /\ pc # "idle" => outcome = "none" /\ taken = <<>>
  /\ unnoticed # {} => pc = "prune" \/ Succeeded
  /\ pc = "edit" => cmd.op \in {"add", "remove"}
  /\ pc \in {"fetch", "approve", "expand", "save", "prune"} => pending = <<>>
  /\ pc \in {"fetch", "approve", "expand"} => at > 0
  /\ pc \in {"save", "prune"} => at = Len(queue)

(* The packages of the queue are dealt with in order, each is there and    *)
(* recorded as it is there, and a recorded commit is not replaced.         *)
Recorded(i) ==
  /\ new_lock[i].name = queue[i].name /\ new_lock[i].commit > 0
  /\ new_lock[i].name \in DOMAIN modules /\ modules[new_lock[i].name] = new_lock[i].commit
  /\ HasLock =>
       \A j \in DOMAIN lock :
         lock[j].name = new_lock[i].name => lock[j].commit = new_lock[i].commit \/ (pc = "prune" /\ lock[j].commit = 0)
  /\ cmd.op = "update" /\ queue[i].req.op # "git" =>
       new_lock[i].tag = resolve_registry_package(queue[i].name, queue[i].req) /\ new_lock[i].tag # ""
RecordsOK ==
  /\ Len(new_lock) = IF pc = "fetch" THEN at - 1 ELSE at
  /\ \A i \in DOMAIN new_lock : Recorded(i)
  /\ pc = "prune" /\ "save" \notin unnoticed =>
       /\ lock \in Seq(Entries(heads)) /\ Once(lock) /\ Len(lock) = Len(new_lock)
       /\ \A i \in DOMAIN lock : lock[i].name = new_lock[i].name /\ lock[i].commit = new_lock[i].commit
       /\ cmd.op = "update" => lock = new_lock

(* The queue begins with what the project itself requires.                 *)
OwnFirst ==
  pc \in {"next", "fetch", "approve", "expand", "save", "prune"} =>
    IF Len(queue) < Len(manifest)
    THEN /\ at = 0 /\ Len(manifest) = Len(queue) + Len(pending)
         /\ \A i \in DOMAIN queue : queue[i] = manifest[i]
         /\ \A i \in DOMAIN pending : pending[i] = manifest[Len(queue) + i]
    ELSE /\ \A i \in DOMAIN manifest : queue[i] = manifest[i]
         /\ at = 0 => pending = <<>>

(* What is in the queue or will be is what the project needs and what the  *)
(* packages so far need, and nothing else.                                 *)
NamesOf(s) == {s[i].name : i \in DOMAIN s}
Wanted == NamesOf(queue) \cup NamesOf(pending)
NeededBy(i) == NamesOf(contents[queue[i].name][new_lock[i].commit].deps)
ClosedSoFar(C) == \A i \in DOMAIN new_lock : queue[i].name \in C => NeededBy(i) \subseteq C
Coverage ==
  pc \in {"next", "fetch", "approve", "expand", "save", "prune"} =>
    /\ NamesOf(manifest) \subseteq Wanted
    /\ \A i \in DOMAIN new_lock : (i = at /\ pc \in {"approve", "expand"}) \/ NeededBy(i) \subseteq Wanted
    /\ \A C \in SUBSET Names : NamesOf(manifest) \subseteq C /\ ClosedSoFar(C) => Wanted \subseteq C

(* The smallest set of packages with those of S and what they depend on.   *)
DepsOf(n) == IF n \in DOMAIN modules /\ modules[n] # 0 THEN NamesOf(contents[n][modules[n]].deps) ELSE {}
Closed(C) == \A n \in C : DepsOf(n) \subseteq C
Needed(S) == {n \in Names : \A C \in SUBSET Names : S \subseteq C /\ Closed(C) => n \in C}

(* After an install that reports success, whatever failed or was killed    *)
(* before, what it took is in vn_modules, all of it, each package once and *)
(* at the commit that it was taken at.  The lock file has just those       *)
(* packages at those commits, unless it could not be saved; and even then  *)
(* an install that is no update has taken nothing at another commit than   *)
(* the lock file says, wherever that says one.  Nothing else is in         *)
(* vn_modules, unless it could not be removed.                             *)
TakenIsThere ==
  Succeeded =>
    /\ Once(taken) /\ \A i \in DOMAIN taken : /\ taken[i].commit > 0 /\ taken[i].name \in DOMAIN modules
                                            /\ modules[taken[i].name] = taken[i].commit
    /\ "prune" \notin unnoticed => DOMAIN modules = NamesOf(taken)
SameEntries ==
  /\ Len(lock) = Len(taken)
  /\ \A i \in DOMAIN taken : lock[i].name = taken[i].name /\ lock[i].commit = taken[i].commit
LockedIsThere ==
  Succeeded =>
    /\ "save" \notin unnoticed => SameEntries /\ (outcome = "updated" => lock = taken)
    /\ outcome = "installed" /\ lock # None =>
         \A i \in DOMAIN taken, j \in DOMAIN lock :
           lock[j].name = taken[i].name => lock[j].commit \in {taken[i].commit, 0}
TakenIsLocked == TakenIsThere /\ LockedIsThere

(* And what it took is what the project needs, directly or through others, *)
(* and no more.                                                            *)
NeededIsThere == Succeeded => NamesOf(taken) = Needed(NamesOf(manifest))
SuccessIsWhole == TakenIsLocked /\ NeededIsThere

PackagesInv == TypeOK /\ PlaceOK /\ RecordsOK /\ OwnFirst /\ Coverage /\ SuccessIsWhole

(* If a package is in the lock file, only `vn update` gives it another     *)
(* commit, wherever the tags have moved and however often an install       *)
(* failed or was killed (what is cut off in the middle is of no commit,    *)
(* and that is not taken for any).                                         *)
LockPins ==
  [][lock # None /\ lock' # None /\ cmd.op # "update" =>
       \A i \in DOMAIN lock, j \in DOMAIN lock' :
         lock[i].name = lock'[j].name => lock'[j].commit \in {lock[i].commit, 0}]_vars

(* An install stops for a conflict only if no version at all would do for  *)
(* both requirements.                                                      *)
ConflictsAreReal ==
  conflict # <<>> => \A v \in Versions : ~(version_matches(v, conflict[1]) /\ version_matches(v, conflict[2]))

(* What was taken of a package is the newest of what is allowed.           *)
NewestAllowed(n, req) ==
  \E x \in index[n], i \in DOMAIN taken :
    /\ taken[i].name = n /\ x.tag = taken[i].tag /\ version_matches(x.v, req)
    /\ \A y \in index[n] : version_matches(y.v, req) => ~compare_versions(y.v, x.v)

(* What an update takes of each package that the project itself requires   *)
(* is the newest version that its own requirement allows, whatever other   *)
(* packages ask for.  (PackagesInv says when the lock file says so too.)   *)
OwnRequirementsMet ==
  outcome = "updated" =>
    \A i \in DOMAIN manifest : manifest[i].req.op # "git" => NewestAllowed(manifest[i].name, manifest[i].req)
=============================================================================
