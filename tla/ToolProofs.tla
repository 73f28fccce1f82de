----------------------------- MODULE ToolProofs -----------------------------
(***************************************************************************)
(* What two tools promise.                                                 *)
(*                                                                         *)
(* Packages, for every project, registry and set of repositories: that a   *)
(* lock is kept, that a conflict is one, and that what an install takes is *)
(* there and, if saving did not fail, what the lock file says, in any of   *)
(* them; that it is all that is needed if no more packages exist than the  *)
(* queue holds.                                                            *)
(*                                                                         *)
(* LspSession, for every set of files, texts and analyses of a text: that  *)
(* an editor shows what is wrong with the text it has, and that the edits  *)
(* of a rename are of that text.                                           *)
(***************************************************************************)
EXTENDS Packages, LspSession, SequenceTheorems, FunctionTheorems, FiniteSetTheorems, TLAPS

(* There are no more packages than can be asked for: one more, and a       *)
(* request would be dropped with a message.                                *)
RoomFor(cs) == IsFiniteSet(DOMAIN cs) /\ Cardinality(DOMAIN cs) <= MaxQueue
EnoughRoom == MaxQueue \in Nat /\ \A w \in Worlds : RoomFor(w.contents)

-----------------------------------------------------------------------------
(* In a sequence in which every package has one place, Place finds it.     *)
LEMMA PlaceFacts ==
  ASSUME NEW S, NEW s \in Seq(S), Once(s), NEW n
  PROVE  /\ Place(s, n) \in 0 .. Len(s)
         /\ Place(s, n) # 0 => Place(s, n) \in DOMAIN s /\ s[Place(s, n)].name = n
         /\ \A i \in DOMAIN s : s[i].name = n => Place(s, n) = i
         /\ Place(s, n) = 0 <=> n \notin NamesOf(s)
<1> DEFINE I == {i \in 1 .. Len(s) : s[i].name = n}
<1>1. Place(s, n) = IF I # {} THEN Min(I) ELSE 0
  BY DEF Place, SelectInSeq
<1>2. DOMAIN s = 1 .. Len(s) /\ Len(s) \in Nat
  OBVIOUS
<1>3. ASSUME NEW i \in I
      PROVE  Min(I) = i
  <2>1. \A j \in I : j = i
    BY <1>2, <1>3 DEF Once
  <2>2. i \in Int
    BY <1>2
  <2>3. \E x \in I : \A y \in I : x <= y
    BY <2>1, <2>2, <1>3
  <2>4. Min(I) \in I
    BY <2>3 DEF Min
  <2> QED BY <2>1, <2>4
<1>4. I # {} <=> n \in NamesOf(s)
  BY <1>2 DEF NamesOf
<1>5. CASE I = {}
  <2>1. Place(s, n) = 0
    BY <1>1, <1>5
  <2>2. \A i \in DOMAIN s : s[i].name # n
    BY <1>2, <1>5
  <2> QED BY <1>2, <1>4, <1>5, <2>1, <2>2
<1>6. CASE I # {}
  <2>1. PICK i \in I : TRUE
    BY <1>6
  <2>2. Place(s, n) = i
    BY <1>1, <1>3, <1>6, <2>1
  <2>3. i \in 1 .. Len(s) /\ s[i].name = n
    BY <2>1
  <2>4. \A j \in DOMAIN s : s[j].name = n => j = i
    BY <1>2, <2>3 DEF Once
  <2>5. i # 0
    BY <2>3, <1>2
  <2> QED BY <1>2, <1>4, <1>6, <2>2, <2>3, <2>4, <2>5
<1> QED BY <1>5, <1>6

(* A package that has no place yet may get the next one.                   *)
LEMMA OnceAppend ==
  ASSUME NEW S, NEW s \in Seq(S), Once(s), NEW d \in S, d.name \notin NamesOf(s)
  PROVE  /\ Append(s, d) \in Seq(S) /\ Once(Append(s, d))
         /\ NamesOf(Append(s, d)) = NamesOf(s) \cup {d.name}
<1> DEFINE t == Append(s, d)
<1>1. t \in Seq(S) /\ Len(t) = Len(s) + 1 /\ DOMAIN t = 1 .. Len(s) + 1
  OBVIOUS
<1>2. /\ \A i \in DOMAIN s : t[i] = s[i]
      /\ t[Len(s) + 1] = d
  OBVIOUS
<1>3. \A i \in DOMAIN t : i \in DOMAIN s \/ i = Len(s) + 1
  BY <1>1
<1>4. DOMAIN s \subseteq DOMAIN t /\ Len(s) + 1 \in DOMAIN t
  BY <1>1
<1>5. \A i \in DOMAIN s : s[i].name # d.name
  BY DEF NamesOf
<1> HIDE DEF t
<1>6. Once(t)
  BY <1>2, <1>3, <1>5 DEF Once
<1>7. NamesOf(t) = NamesOf(s) \cup {d.name}
  BY <1>2, <1>3, <1>4 DEF NamesOf
<1> QED BY <1>1, <1>6, <1>7 DEF t

(* What is cut off of it leaves the others their places.                   *)
LEMMA OncePrefix ==
  ASSUME NEW S, NEW s \in Seq(S), Once(s), NEW k \in 0 .. Len(s)
  PROVE  SubSeq(s, 1, k) \in Seq(S) /\ Once(SubSeq(s, 1, k))
<1> DEFINE t == SubSeq(s, 1, k)
<1>1. t \in Seq(S) /\ Len(t) = k /\ DOMAIN t = 1 .. k
  BY SubSeqProperties
<1>2. \A i \in DOMAIN t : t[i] = s[i] /\ i \in DOMAIN s
  OBVIOUS
<1> HIDE DEF t
<1>3. Once(t)
  BY <1>2 DEF Once
<1> QED BY <1>1, <1>3 DEF t

(* There are as many places as packages.                                   *)
LEMMA OnceCounts ==
  ASSUME NEW S, NEW s \in Seq(S), Once(s)
  PROVE  IsFiniteSet(NamesOf(s)) /\ Cardinality(NamesOf(s)) = Len(s)
<1> DEFINE f == [i \in 1 .. Len(s) |-> s[i].name]
<1>1. DOMAIN s = 1 .. Len(s) /\ Len(s) \in Nat
  OBVIOUS
<1>2. f \in Bijection(1 .. Len(s), NamesOf(s))
  <2>1. f \in [1 .. Len(s) -> NamesOf(s)]
    BY <1>1 DEF NamesOf
  <2>2. \A i, j \in 1 .. Len(s) : f[i] = f[j] => i = j
    BY <1>1 DEF Once
  <2>3. \A n \in NamesOf(s) : \E i \in 1 .. Len(s) : f[i] = n
    BY <1>1 DEF NamesOf
  <2> HIDE DEF f
  <2> QED BY <2>1, <2>2, <2>3, Fun_IsBij
<1>3. IsFiniteSet(1 .. Len(s)) /\ Cardinality(1 .. Len(s)) = Len(s)
  BY <1>1, FS_Interval
<1>4. ExistsBijection(1 .. Len(s), NamesOf(s))
  BY <1>2 DEF ExistsBijection
<1> QED BY <1>3, <1>4, FS_Bijection

(* As long as one of the packages has no place, there is room for it.      *)
LEMMA QueueHasRoom ==
  ASSUME MaxQueue \in Nat, NEW cs, RoomFor(cs), NEW S, NEW s \in Seq(S), Once(s), NamesOf(s) \subseteq DOMAIN cs,
         NEW n \in DOMAIN cs, n \notin NamesOf(s)
  PROVE  Len(s) < MaxQueue
<1>1. IsFiniteSet(NamesOf(s)) /\ Cardinality(NamesOf(s)) = Len(s)
  BY OnceCounts
<1>2. IsFiniteSet(NamesOf(s) \cup {n}) /\ Cardinality(NamesOf(s) \cup {n}) = Len(s) + 1
  BY <1>1, FS_AddElement
<1>3. Cardinality(NamesOf(s) \cup {n}) <= Cardinality(DOMAIN cs)
  BY FS_Subset DEF RoomFor
<1>4. Cardinality(DOMAIN cs) \in Nat /\ Cardinality(DOMAIN cs) <= MaxQueue
  BY FS_CardinalityType DEF RoomFor
<1> QED BY <1>2, <1>3, <1>4

-----------------------------------------------------------------------------
(* One version is newer than another in an order.                          *)
LEMMA NewerIsAnOrder ==
  ASSUME NEW a \in Version, NEW b \in Version, NEW c \in Version
  PROVE  /\ ~compare_versions(a, a)
         /\ compare_versions(a, b) /\ compare_versions(b, c) => compare_versions(a, c)
BY DEF compare_versions, Version

(* Of finitely many versions there is a newest one.                        *)
LEMMA NewestExists ==
  ASSUME NEW F, IsFiniteSet(F), F # {}, \A x \in F : x.v \in Version
  PROVE  \E x \in F : \A y \in F : ~compare_versions(y.v, x.v)
<1> DEFINE Newer(x) == {y \in F : compare_versions(y.v, x.v)}
           T == {Newer(x) : x \in F}
<1>1. T \subseteq FiniteSubsetsOf(F) /\ T # {}
  <2>1. \A x \in F : Newer(x) \subseteq F /\ IsFiniteSet(Newer(x))
    BY FS_Subset
  <2>2. \A x \in F : Newer(x) \in FiniteSubsetsOf(F)
    BY <2>1 DEF FiniteSubsetsOf
  <2> QED BY <2>2
<1>2. PICK N \in T : \A M \in T : ~(<<M, N>> \in StrictSubsetOrdering(F))
  <2> HIDE DEF T
  <2> QED BY <1>1, FS_StrictSubsetOrderingWellFounded, WFMin
<1>3. PICK x \in F : N = Newer(x)
  BY <1>2
<1>4. ASSUME NEW y \in F, compare_versions(y.v, x.v)
      PROVE  FALSE
  <2>1. Newer(y) \subseteq Newer(x)
    <3>1. \A z \in F : compare_versions(z.v, y.v) => compare_versions(z.v, x.v)
      BY <1>4, NewerIsAnOrder
    <3> QED BY <3>1
  <2>2. y \in Newer(x) /\ y \notin Newer(y)
    BY <1>4, NewerIsAnOrder
  <2>3. <<Newer(y), Newer(x)>> \in StrictSubsetOrdering(F)
    <3>1. Newer(y) \in SUBSET F /\ Newer(x) \in SUBSET F /\ Newer(y) # Newer(x)
      BY <2>2
    <3> HIDE DEF Newer
    <3> QED BY <2>1, <3>1 DEF StrictSubsetOrdering
  <2>4. Newer(y) \in T
    OBVIOUS
  <2> QED BY <1>2, <1>3, <2>3, <2>4
<1> QED BY <1>4

(* What a requirement leads to is the newest version that it allows.       *)
LEMMA ResolvesToNewest ==
  ASSUME NEW n, IsFiniteSet(index[n]), \A x \in index[n] : x.v \in Version, NEW req,
         resolve_registry_package(n, req) # ""
  PROVE  \E x \in index[n] :
           /\ x.tag = resolve_registry_package(n, req) /\ version_matches(x.v, req)
           /\ \A y \in index[n] : version_matches(y.v, req) => ~compare_versions(y.v, x.v)
<1> DEFINE fit == {x \in index[n] : version_matches(x.v, req)}
           best == CHOOSE x \in fit : \A y \in fit : ~compare_versions(y.v, x.v)
<1>1. resolve_registry_package(n, req) = IF fit = {} THEN "" ELSE best.tag
  BY DEF resolve_registry_package
<1>2. fit # {}
  BY <1>1
<1>3. IsFiniteSet(fit) /\ \A x \in fit : x.v \in Version
  BY FS_Subset
<1>4. \E x \in fit : \A y \in fit : ~compare_versions(y.v, x.v)
  <2> HIDE DEF fit
  <2> QED BY <1>2, <1>3, NewestExists
<1>5. best \in fit /\ \A y \in fit : ~compare_versions(y.v, best.v)
  <2> HIDE DEF fit
  <2> QED BY <1>4
<1>6. best \in index[n] /\ version_matches(best.v, req)
  <2> HIDE DEF best
  <2> QED BY <1>5
<1>7. \A y \in index[n] : version_matches(y.v, req) => ~compare_versions(y.v, best.v)
  <2> HIDE DEF best
  <2> QED BY <1>5
<1>8. best.tag = resolve_registry_package(n, req)
  <2> HIDE DEF best, fit
  <2> QED BY <1>1, <1>2
<1> HIDE DEF best
<1> QED BY <1>6, <1>7, <1>8

(* Two requirements that are found to conflict have no version in common.  *)
LEMMA ConflictMeansNone ==
  ASSUME NEW a \in Requirement, NEW b \in Requirement, Conflicts(a, b), NEW v \in Version
  PROVE  ~(version_matches(v, a) /\ version_matches(v, b))
<1>1. a.op \in {"exact", "caret", "tilde"} /\ b.op \in {"exact", "caret", "tilde"}
  BY DEF Conflicts, ranges_compatible, Requirement
<1>2. a # b /\ (a.v[1] = b.v[1] => a.op = "exact" /\ b.op = "exact")
  BY DEF Conflicts, ranges_compatible
<1>3. version_matches(v, a) => v[1] = a.v[1] /\ (a.op = "exact" => v = a.v)
  BY <1>1 DEF version_matches, Caret
<1>4. version_matches(v, b) => v[1] = b.v[1] /\ (b.op = "exact" => v = b.v)
  BY <1>1 DEF version_matches, Caret
<1>5. a.op = "exact" /\ b.op = "exact" /\ a.v = b.v => a = b
  BY DEF Requirement
<1> QED BY <1>2, <1>3, <1>4, <1>5

-----------------------------------------------------------------------------
(* The invariant: what holds however many packages there are, and what     *)
(* holds if there are no more than the queue has room for.                 *)
ConflictOK == conflict # <<>> => Conflicts(conflict[1], conflict[2])
CommandsOK == \A c \in Commands : c.op = "add" => c.dep \in Dependencies(Names, tags)
Sound == TypeOK /\ PlaceOK /\ RecordsOK /\ TakenIsLocked /\ ConflictOK /\ CommandsOK
Whole == OwnFirst /\ Coverage /\ NeededIsThere /\ OwnRequirementsMet
Room == MaxQueue \in Nat /\ RoomFor(contents)
IInv == Sound /\ (Room => Whole)
Installing == {"next", "fetch", "approve", "expand", "save", "prune"}

(* The repositories have the tags and commits that are asked of them.      *)
LEMMA UpstreamFacts ==
  ASSUME TypeOK, NEW n \in Names
  PROVE  /\ DOMAIN heads = Names /\ DOMAIN tags = Names /\ heads[n] \in Nat \ {0}
         /\ \A c \in 1 .. heads[n] : contents[n][c].deps \in Seq(Dependencies(Names, tags))
         /\ \A t \in DOMAIN tags[n] : t \in STRING /\ CheckedOut(n, t) \in 1 .. heads[n]
         /\ IsFiniteSet(index[n])
         /\ \A x \in index[n] : x.v \in Version /\ x.tag \in DOMAIN tags[n] \ {""}
<1> DEFINE D == Dependencies(Names, tags)
<1>1. /\ DOMAIN tags = Names /\ heads \in [Names -> Nat \ {0}]
      /\ contents[n] \in Seq([deps : Seq(D), native : BOOLEAN])
      /\ heads[n] <= Len(contents[n])
      /\ \A t \in DOMAIN tags[n] : t \in STRING /\ tags[n][t] \in 0 .. heads[n]
      /\ IsFiniteSet(index[n])
      /\ \A x \in index[n] : x.v \in Version /\ x.tag \in DOMAIN tags[n] \ {""}
  BY DEF TypeOK, UpstreamOK, Names
<1> HIDE DEF D
<1>2. heads[n] \in Nat \ {0}
  BY <1>1
<1>3. ASSUME NEW c \in 1 .. heads[n]
      PROVE  contents[n][c].deps \in Seq(D)
  <2> DEFINE R == [deps : Seq(D), native : BOOLEAN]
  <2>0. contents[n] \in Seq(R) /\ heads[n] <= Len(contents[n])
    BY <1>1
  <2> HIDE DEF R
  <2>1. c \in 1 .. Len(contents[n])
    <3>1. Len(contents[n]) \in Nat
      BY <2>0
    <3> QED BY <2>0, <3>1, <1>2
  <2>2. contents[n][c] \in R
    BY <2>0, <2>1, ElementOfSeq
  <2>3. \A e \in R : e.deps \in Seq(D)
    BY DEF R
  <2> QED BY <2>2, <2>3
<1>4. \A t \in DOMAIN tags[n] : CheckedOut(n, t) \in 1 .. heads[n]
  <2>1. \A t \in DOMAIN tags[n] : tags[n][t] \in 0 .. heads[n]
    BY <1>1
  <2> QED BY <1>2, <2>1 DEF CheckedOut
<1> QED BY <1>1, <1>2, <1>3, <1>4 DEF D

(* A requirement leads to a tag of the repository, if it leads anywhere.   *)
LEMMA TagFacts ==
  ASSUME TypeOK, NEW d \in Dependencies(Names, tags), TagOf(d) # ""
  PROVE  d.name \in Names /\ TagOf(d) \in DOMAIN tags[d.name]
<1>1. d.name \in Names /\ (d.req.op = "git" => d.req.tag \in DOMAIN tags[d.name])
  BY DEF Dependencies
<1>2. CASE d.req.op = "git"
  BY <1>1, <1>2 DEF TagOf
<1>3. CASE d.req.op # "git"
  <2>1. TagOf(d) = resolve_registry_package(d.name, d.req)
    BY <1>3 DEF TagOf
  <2>2. /\ IsFiniteSet(index[d.name]) /\ \A x \in index[d.name] : x.v \in Version
        /\ \A x \in index[d.name] : x.tag \in DOMAIN tags[d.name]
    BY <1>1, UpstreamFacts
  <2>3. \E x \in index[d.name] : x.tag = resolve_registry_package(d.name, d.req)
    BY <2>1, <2>2, ResolvesToNewest
  <2> QED BY <1>1, <2>1, <2>2, <2>3
<1> QED BY <1>2, <1>3

(* vn_modules with a package more or less.                                 *)
LEMMA ModulesFacts ==
  ASSUME ModulesOK(modules, heads)
  PROVE  /\ \A n \in DOMAIN heads : \A c \in 0 .. heads[n] : ModulesOK(With(n, c), heads)
         /\ \A S : ModulesOK([m \in DOMAIN modules \ S |-> modules[m]], heads)
<1>1. ASSUME NEW n \in DOMAIN heads, NEW c \in 0 .. heads[n]
      PROVE  ModulesOK(With(n, c), heads)
  BY <1>1 DEF ModulesOK, With
<1>2. ASSUME NEW S
      PROVE  ModulesOK([m \in DOMAIN modules \ S |-> modules[m]], heads)
  BY DEF ModulesOK
<1> QED BY <1>1, <1>2

(* Where no installation is going on, the disk is all that matters.        *)
LEMMA Outside ==
  ASSUME IInv, UNCHANGED upstream,
         pc' \in {"idle", "migrate", "unlink", "edit", "begin"},
         queue' = <<>>, at' = 0, pending' = <<>>, new_lock' = <<>>, conflict' = <<>>,
         outcome' \in {"none", "failed", "added", "killed"}, unnoticed' = {}, taken' = <<>>,
         pc' # "idle" => outcome' = "none",
         pc' = "edit" => cmd'.op \in {"add", "remove"},
         cmd'.op = "add" => cmd'.dep \in Dependencies(Names, tags),
         ManifestOK(manifest', Names, tags), ManifestOK(legacy', Names, tags),
         LockOK(lock', heads), ModulesOK(modules', heads)
  PROVE  IInv'
<1>1. TypeOK'
  BY DEF IInv, Sound, TypeOK, upstream, Names, Once
<1>2. PlaceOK' /\ OwnFirst' /\ Coverage'
  BY DEF PlaceOK, OwnFirst, Coverage
<1>3. RecordsOK'
  BY DEF RecordsOK
<1>4. TakenIsLocked' /\ NeededIsThere' /\ OwnRequirementsMet'
  BY DEF Succeeded, TakenIsLocked, TakenIsThere, LockedIsThere, NeededIsThere, OwnRequirementsMet
<1>5. ConflictOK' /\ CommandsOK'
  BY DEF ConflictOK, CommandsOK, IInv, Sound, upstream, Names
<1> QED BY <1>1, <1>2, <1>3, <1>4, <1>5 DEF IInv, Sound, Whole

(* Before the lock file is saved nothing has been passed over.             *)
LEMMA NothingYet ==
  ASSUME IInv, pc \notin {"idle", "prune"}
  PROVE  unnoticed = {} /\ taken = <<>>
BY DEF IInv, Sound, PlaceOK, Succeeded

-----------------------------------------------------------------------------
(* A package leaves the manifest, or its requirement is replaced.          *)
LEMMA OnceRemove ==
  ASSUME NEW S, NEW s \in Seq(S), Once(s), NEW i \in DOMAIN s
  PROVE  RemoveAt(s, i) \in Seq(S) /\ Once(RemoveAt(s, i))
<1> DEFINE a == SubSeq(s, 1, i - 1)
           b == SubSeq(s, i + 1, Len(s))
           t == a \o b
<1>1. i \in 1 .. Len(s) /\ Len(s) \in Nat /\ DOMAIN s = 1 .. Len(s)
  OBVIOUS
<1>2. a \in Seq(S) /\ Len(a) = i - 1 /\ \A j \in 1 .. i - 1 : a[j] = s[j]
  BY <1>1, SubSeqProperties
<1>3. b \in Seq(S) /\ Len(b) = Len(s) - i /\ \A j \in 1 .. Len(s) - i : b[j] = s[j + i]
  BY <1>1, SubSeqProperties
<1> HIDE DEF a, b
<1>4. t \in Seq(S) /\ Len(t) = Len(s) - 1
  <2>1. t \in Seq(S) /\ Len(t) = Len(a) + Len(b)
    BY ONLY <1>2, <1>3, ConcatProperties
  <2> HIDE DEF t
  <2> QED BY <2>1, <1>1, <1>2, <1>3
<1>5. \A j \in 1 .. Len(s) - 1 : t[j] = IF j < i THEN s[j] ELSE s[j + 1]
  <2> TAKE j \in 1 .. Len(s) - 1
  <2>1. CASE j < i
    BY <1>1, <1>2, <1>3, <2>1, ConcatProperties
  <2>2. CASE j >= i
    <3>1. t[j] = b[j - (i - 1)]
      BY <1>1, <1>2, <1>3, <2>2, ConcatProperties
    <3>2. b[j - (i - 1)] = s[j - (i - 1) + i]
      BY <1>1, <1>3, <2>2
    <3>3. j - (i - 1) + i = j + 1
      BY <1>1
    <3> QED BY <3>1, <3>2, <3>3, <2>2, <1>1
  <2>3. j < i \/ j >= i
    BY <1>1
  <2> QED BY <2>1, <2>2, <2>3
<1>6. DOMAIN t = 1 .. Len(s) - 1
  BY <1>4
<1> HIDE DEF t
<1>7. Once(t)
  <2> SUFFICES ASSUME NEW j \in DOMAIN t, NEW k \in DOMAIN t, t[j].name = t[k].name
               PROVE  j = k
    BY DEF Once
  <2> DEFINE J == IF j < i THEN j ELSE j + 1
             K == IF k < i THEN k ELSE k + 1
  <2>1. J \in DOMAIN s /\ K \in DOMAIN s /\ t[j] = s[J] /\ t[k] = s[K]
    BY <1>1, <1>5, <1>6
  <2>2. J = K
    <3> HIDE DEF J, K
    <3> QED BY <2>1 DEF Once
  <2> QED BY <2>2, <1>1, <1>6
<1>8. RemoveAt(s, i) = t
  BY DEF RemoveAt, t, a, b
<1> QED BY <1>4, <1>7, <1>8

LEMMA OnceReplace ==
  ASSUME NEW S, NEW s \in Seq(S), Once(s), NEW i \in DOMAIN s, NEW d \in S, d.name = s[i].name
  PROVE  [s EXCEPT ![i] = d] \in Seq(S) /\ Once([s EXCEPT ![i] = d])
<1> DEFINE t == [s EXCEPT ![i] = d]
<1>1. t \in Seq(S) /\ DOMAIN t = DOMAIN s
  BY ExceptSeq
<1>2. \A j \in DOMAIN s : t[j].name = s[j].name
  OBVIOUS
<1> HIDE DEF t
<1>3. Once(t)
  BY <1>1, <1>2 DEF Once
<1> QED BY <1>1, <1>3 DEF t

(* What `vn add` and `vn remove` write is a manifest.                      *)
LEMMA EditedOK ==
  ASSUME TypeOK, \/ cmd.op = "add"
                 \/ cmd.op = "remove" /\ Place(Deps, cmd.name) # 0
  PROVE  Edited \in Seq(Dependencies(Names, tags)) /\ Once(Edited)
<1> DEFINE D == Dependencies(Names, tags)
<1>1. Deps \in Seq(D) /\ Once(Deps)
  <2>1. <<>> \in Seq(D) /\ Once(<<>>)
    BY DEF Once
  <2> QED BY <2>1 DEF Deps, TypeOK, ManifestOK
<1> HIDE DEF D
<1>2. CASE cmd.op = "remove"
  <2>1. Place(Deps, cmd.name) \in DOMAIN Deps
    BY <1>1, <1>2, PlaceFacts
  <2>2. Edited = RemoveAt(Deps, Place(Deps, cmd.name))
    BY <1>2 DEF Edited
  <2> QED BY <1>1, <2>1, <2>2, OnceRemove DEF D
<1>3. CASE cmd.op = "add"
  <2>1. cmd.dep \in D
    BY <1>3 DEF TypeOK, D
  <2>2. CASE Place(Deps, cmd.dep.name) = 0
    <3>1. cmd.dep.name \notin NamesOf(Deps)
      BY <1>1, <2>2, PlaceFacts
    <3>2. Edited = Append(Deps, cmd.dep)
      BY <1>3, <2>2 DEF Edited
    <3> QED BY <1>1, <2>1, <3>1, <3>2, OnceAppend DEF D
  <2>3. CASE Place(Deps, cmd.dep.name) # 0
    <3>1. Place(Deps, cmd.dep.name) \in DOMAIN Deps /\ Deps[Place(Deps, cmd.dep.name)].name = cmd.dep.name
      BY <1>1, <2>3, PlaceFacts
    <3>2. Edited = [Deps EXCEPT ![Place(Deps, cmd.dep.name)] = cmd.dep]
      BY <1>3, <2>3 DEF Edited
    <3> QED BY <1>1, <2>1, <3>1, <3>2, OnceReplace DEF D
  <2> QED BY <2>2, <2>3
<1> QED BY <1>2, <1>3 DEF D

(* And what there is of a manifest that was not finished is one too.       *)
LEMMA CutManifestOK ==
  ASSUME NEW new \in Seq(Dependencies(Names, tags)), Once(new), CutManifest(new)
  PROVE  ManifestOK(manifest', Names, tags)
BY OncePrefix DEF CutManifest, ManifestOK

(* What is recorded is recorded once.                                      *)
LEMMA NewLockFacts ==
  ASSUME TypeOK, RecordsOK
  PROVE  /\ Len(new_lock) \in Nat /\ Len(new_lock) <= Len(queue) /\ DOMAIN new_lock = 1 .. Len(new_lock)
         /\ DOMAIN queue = 1 .. Len(queue) /\ Len(queue) \in Nat
         /\ new_lock \in Seq(Entries(heads)) /\ Once(new_lock)
<1>1. /\ new_lock \in Seq(Entries(heads)) /\ at \in 0 .. Len(queue) /\ queue \in Seq(Dependencies(Names, tags))
      /\ Once(queue)
  BY DEF TypeOK
<1>2. Len(new_lock) \in Nat /\ DOMAIN new_lock = 1 .. Len(new_lock) /\ DOMAIN queue = 1 .. Len(queue) /\ Len(queue) \in Nat
  BY <1>1
<1>3. Len(new_lock) <= Len(queue)
  <2>1. Len(new_lock) = IF pc = "fetch" THEN at - 1 ELSE at
    BY DEF RecordsOK
  <2> QED BY <1>1, <1>2, <2>1
<1>4. \A i \in DOMAIN new_lock : new_lock[i].name = queue[i].name /\ i \in DOMAIN queue
  <2>1. \A i \in DOMAIN new_lock : new_lock[i].name = queue[i].name
    BY DEF RecordsOK, Recorded
  <2> QED BY <1>2, <1>3, <2>1
<1>5. Once(new_lock)
  BY <1>1, <1>4 DEF Once
<1> QED BY <1>1, <1>2, <1>3, <1>5

(* What there is of a lock file that was not finished is a lock file.      *)
LEMMA CutLockOK ==
  ASSUME TypeOK, RecordsOK, CutLock
  PROVE  LockOK(lock', heads)
<1> DEFINE E == Entries(heads)
<1>1. new_lock \in Seq(E) /\ Once(new_lock)
  BY NewLockFacts
<1>2. PICK k \in 0 .. Len(new_lock) :
        \/ lock' = SubSeq(new_lock, 1, k)
        \/ k < Len(new_lock) /\ lock' = SubSeq(new_lock, 1, k) \o <<[new_lock[k + 1] EXCEPT !.commit = 0]>>
  BY DEF CutLock
<1> DEFINE s == SubSeq(new_lock, 1, k)
<1>3. s \in Seq(E) /\ Once(s)
  <2> HIDE DEF E
  <2> QED BY <1>1, OncePrefix
<1>4. CASE lock' = s
  BY <1>3, <1>4 DEF LockOK
<1>5. CASE k < Len(new_lock) /\ lock' = s \o <<[new_lock[k + 1] EXCEPT !.commit = 0]>>
  <2> DEFINE e == [new_lock[k + 1] EXCEPT !.commit = 0]
  <2>1. k + 1 \in DOMAIN new_lock /\ Len(new_lock) \in Nat /\ DOMAIN new_lock = 1 .. Len(new_lock)
    BY <1>1, <1>5
  <2>2. new_lock[k + 1] \in E
    <3> HIDE DEF E
    <3> QED BY <1>1, <2>1, ElementOfSeq
  <2>3. \A x \in E : [x EXCEPT !.commit = 0] \in E /\ [x EXCEPT !.commit = 0].name = x.name
    <3> TAKE x \in E
    <3>1. x \in [name : DOMAIN heads, tag : STRING, commit : Nat] /\ x.commit <= heads[x.name]
      BY DEF Entries
    <3>2. [x EXCEPT !.commit = 0] = [name |-> x.name, tag |-> x.tag, commit |-> 0]
      BY <3>1
    <3>3. heads[x.name] \in Nat
      BY <3>1 DEF TypeOK, UpstreamOK
    <3> QED BY <3>1, <3>2, <3>3 DEF Entries
  <2>4. e \in E /\ e.name = new_lock[k + 1].name
    BY <2>2, <2>3
  <2>5. e.name \notin NamesOf(s)
    <3>1. \A i \in DOMAIN s : i \in DOMAIN new_lock /\ i # k + 1 /\ s[i] = new_lock[i]
      <4>1. Len(s) = k /\ DOMAIN s = 1 .. k
        BY <1>1, SubSeqProperties
      <4> QED BY <4>1, <2>1
    <3>2. \A i \in DOMAIN s : s[i].name # e.name
      <4> HIDE DEF s, e
      <4> QED BY <3>1, <2>1, <2>4, <1>1 DEF Once
    <3> HIDE DEF s, e
    <3> QED BY <3>2 DEF NamesOf
  <2>6. s \o <<e>> = Append(s, e)
    <3> HIDE DEF s, e, E
    <3> QED BY <1>3, <2>4, AppendIsConcat
  <2> HIDE DEF s, e, E
  <2>7. Append(s, e) \in Seq(E) /\ Once(Append(s, e))
    BY <1>3, <2>4, <2>5, OnceAppend
  <2> QED BY <1>5, <2>6, <2>7 DEF LockOK, E, e
<1> QED BY <1>2, <1>4, <1>5

(* What is in a lock file that was not finished.                           *)
LEMMA CutLockFacts ==
  ASSUME TypeOK, CutLock
  PROVE  \A j \in DOMAIN lock' : lock'[j].commit = 0 \/ \E i \in DOMAIN new_lock : lock'[j] = new_lock[i]
<1>1. new_lock \in Seq(Entries(heads))
  BY DEF TypeOK
<1>2. PICK k \in 0 .. Len(new_lock) :
        \/ lock' = SubSeq(new_lock, 1, k)
        \/ k < Len(new_lock) /\ lock' = SubSeq(new_lock, 1, k) \o <<[new_lock[k + 1] EXCEPT !.commit = 0]>>
  BY DEF CutLock
<1> DEFINE s == SubSeq(new_lock, 1, k)
<1>3. \A j \in DOMAIN s : j \in DOMAIN new_lock /\ s[j] = new_lock[j]
  BY <1>1
<1>4. CASE lock' = s
  <2> HIDE DEF s
  <2> QED BY <1>3, <1>4
<1>5. CASE k < Len(new_lock) /\ lock' = s \o <<[new_lock[k + 1] EXCEPT !.commit = 0]>>
  <2> DEFINE e == [new_lock[k + 1] EXCEPT !.commit = 0]
  <2>1. new_lock[k + 1] \in Entries(heads)
    <3>1. k + 1 \in 1 .. Len(new_lock)
      BY <1>1, <1>5
    <3> QED BY <1>1, <3>1, ElementOfSeq
  <2>2. e.commit = 0
    BY <2>1 DEF Entries
  <2>3. s \in Seq(Entries(heads))
    BY <1>1
  <2>4. lock' = s \o <<e>>
    BY <1>5
  <2> HIDE DEF s, e
  <2>5. \A j \in DOMAIN lock' : (j \in DOMAIN s /\ lock'[j] = s[j]) \/ lock'[j] = e
    BY ONLY <2>3, <2>4
  <2> QED BY ONLY <1>3, <2>2, <2>5
<1> QED BY <1>2, <1>4, <1>5

-----------------------------------------------------------------------------
(* The steps that are not taken within an installation, or that end one.   *)
LEMMA DepFacts ==
  ASSUME IInv, pc \in {"fetch", "approve", "expand"}
  PROVE  at \in DOMAIN queue /\ Dep \in Dependencies(Names, tags) /\ Dep.name \in Names /\ Dep.name \in DOMAIN heads
<1>1. at \in 1 .. Len(queue) /\ queue \in Seq(Dependencies(Names, tags))
  BY DEF IInv, Sound, TypeOK, PlaceOK
<1>2. Dep \in Dependencies(Names, tags)
  BY <1>1, ElementOfSeq DEF Dep
<1>3. DOMAIN heads = Names
  BY DEF IInv, Sound, TypeOK, UpstreamOK, Names
<1> QED BY <1>1, <1>2, <1>3 DEF Dependencies

LEMMA StartInv == IInv /\ Start => IInv'
<1> SUFFICES ASSUME IInv, Start PROVE IInv'
  OBVIOUS
<1> USE DEF IInv, Sound
<1>1. PICK c \in Commands : cmd' = c
  BY DEF Start
<1>2. queue = <<>> /\ at = 0 /\ pending = <<>> /\ new_lock = <<>> /\ conflict = <<>>
  BY DEF Start, PlaceOK
<1>3. UNCHANGED upstream /\ UNCHANGED disk /\ UNCHANGED resolution /\ pc' = "migrate" /\ outcome' = "none"
      /\ unnoticed' = {} /\ taken' = <<>>
  BY DEF Start
<1>4. cmd'.op = "add" => cmd'.dep \in Dependencies(Names, tags)
  BY <1>1 DEF CommandsOK
<1>5. ManifestOK(manifest, Names, tags) /\ ManifestOK(legacy, Names, tags) /\ LockOK(lock, heads) /\ ModulesOK(modules, heads)
  BY DEF TypeOK
<1>6. ManifestOK(manifest', Names, tags) /\ ManifestOK(legacy', Names, tags) /\ LockOK(lock', heads) /\ ModulesOK(modules', heads)
  BY <1>3, <1>5 DEF disk
<1>7. queue' = <<>> /\ at' = 0 /\ pending' = <<>> /\ new_lock' = <<>> /\ conflict' = <<>>
  BY <1>2, <1>3 DEF resolution
<1> QED BY <1>3, <1>4, <1>6, <1>7, Outside

(* A command ends, or the process is killed.                               *)
LEMMA EndsWell ==
  ASSUME IInv, UNCHANGED upstream, pc' = "idle", cmd' = [op |-> "none"],
         queue' = <<>>, at' = 0, pending' = <<>>, new_lock' = <<>>, conflict' = <<>>,
         outcome' \in {"failed", "added", "killed"}, unnoticed' = {}, taken' = <<>>,
         ManifestOK(manifest', Names, tags), ManifestOK(legacy', Names, tags),
         LockOK(lock', heads), ModulesOK(modules', heads)
  PROVE  IInv'
<1>1. cmd'.op = "none"
  OBVIOUS
<1> QED BY <1>1, Outside

LEMMA DiskOK ==
  ASSUME IInv
  PROVE  /\ ManifestOK(manifest, Names, tags) /\ ManifestOK(legacy, Names, tags)
         /\ LockOK(lock, heads) /\ ModulesOK(modules, heads)
BY DEF IInv, Sound, TypeOK

LEMMA FailInv ==
  ASSUME IInv, pc \notin {"idle", "prune"}, Fail, UNCHANGED upstream
  PROVE  IInv'
<1>1. manifest' = manifest /\ legacy' = legacy /\ lock' = lock /\ modules' = modules
  BY DEF Fail, disk
<1>2. /\ pc' = "idle" /\ outcome' = "failed" /\ cmd' = [op |-> "none"]
      /\ queue' = <<>> /\ at' = 0 /\ pending' = <<>> /\ new_lock' = <<>> /\ conflict' = <<>>
  BY DEF Fail, End
<1>3. unnoticed' = {} /\ taken' = <<>>
  BY NothingYet DEF Fail, history
<1> QED BY <1>1, <1>2, <1>3, DiskOK, EndsWell

LEMMA MigrateInv == IInv /\ (pkg_migrate_manifest \/ RemoveLegacy) => IInv'
<1> SUFFICES ASSUME IInv, pkg_migrate_manifest \/ RemoveLegacy PROVE IInv'
  OBVIOUS
<1>1. pc \in {"migrate", "unlink"} /\ UNCHANGED <<cmd, outcome, history>> /\ pc' \in {"unlink", AfterMigration}
  BY DEF pkg_migrate_manifest, RemoveLegacy, To
<1>2. /\ UNCHANGED upstream /\ UNCHANGED resolution /\ UNCHANGED <<lock, modules>>
      /\ manifest' = manifest \/ (legacy # None /\ CutManifest(legacy))
      /\ legacy' \in {legacy, None}
  BY DEF pkg_migrate_manifest, RemoveLegacy
<1>3. /\ queue = <<>> /\ at = 0 /\ pending = <<>> /\ new_lock = <<>> /\ conflict = <<>> /\ outcome = "none"
  BY <1>1 DEF IInv, Sound, PlaceOK
<1>4. AfterMigration \in {"edit", "begin"} /\ (AfterMigration = "edit" => cmd.op \in {"add", "remove"})
  BY DEF AfterMigration
<1>5. cmd.op = "add" => cmd.dep \in Dependencies(Names, tags)
  BY DEF IInv, Sound, TypeOK
<1>6. ManifestOK(manifest', Names, tags) /\ ManifestOK(legacy', Names, tags) /\ LockOK(lock', heads) /\ ModulesOK(modules', heads)
  <2>1. legacy # None => legacy \in Seq(Dependencies(Names, tags)) /\ Once(legacy)
    BY DiskOK DEF ManifestOK
  <2>2. ManifestOK(manifest', Names, tags)
    BY <1>2, <2>1, DiskOK, CutManifestOK
  <2> QED BY <1>2, <2>2, DiskOK DEF ManifestOK
<1>7. queue' = <<>> /\ at' = 0 /\ pending' = <<>> /\ new_lock' = <<>> /\ conflict' = <<>>
      /\ unnoticed' = {} /\ taken' = <<>>
  BY <1>1, <1>2, <1>3, NothingYet DEF resolution, history
<1>8. /\ pc' \in {"unlink", "edit", "begin"} /\ outcome' = "none"
      /\ pc' = "edit" => cmd'.op \in {"add", "remove"}
      /\ cmd'.op = "add" => cmd'.dep \in Dependencies(Names, tags)
  BY <1>1, <1>3, <1>4, <1>5
<1> QED BY <1>2, <1>6, <1>7, <1>8, Outside

LEMMA AddInv == IInv /\ pkg_add => IInv'
<1> SUFFICES ASSUME IInv, pkg_add PROVE IInv'
  OBVIOUS
<1>1. pc = "edit" /\ cmd.op = "add" /\ UNCHANGED upstream
  BY DEF pkg_add
<1>2. CASE Fail
  BY <1>1, <1>2, FailInv
<1>3. CASE CutManifest(Edited) /\ End("added") /\ UNCHANGED <<legacy, lock, modules, history>>
  <2>1. Edited \in Seq(Dependencies(Names, tags)) /\ Once(Edited)
    BY <1>1, EditedOK DEF IInv, Sound
  <2>2. ManifestOK(manifest', Names, tags)
    BY <1>3, <2>1, CutManifestOK
  <2>3. /\ pc' = "idle" /\ outcome' = "added" /\ cmd' = [op |-> "none"]
        /\ queue' = <<>> /\ at' = 0 /\ pending' = <<>> /\ new_lock' = <<>> /\ conflict' = <<>>
    BY <1>3 DEF End
  <2>4. legacy' = legacy /\ lock' = lock /\ modules' = modules /\ unnoticed' = {} /\ taken' = <<>>
    BY <1>1, <1>3, NothingYet DEF history
  <2> QED BY <1>1, <2>2, <2>3, <2>4, DiskOK, EndsWell
<1> QED BY <1>2, <1>3 DEF pkg_add

LEMMA RemoveInv == IInv /\ pkg_remove => IInv'
<1> SUFFICES ASSUME IInv, pkg_remove PROVE IInv'
  OBVIOUS
<1>1. pc = "edit" /\ cmd.op = "remove" /\ UNCHANGED upstream
  BY DEF pkg_remove
<1>2. CASE Fail
  BY <1>1, <1>2, FailInv
<1>3. CASE /\ Place(Deps, cmd.name) # 0 /\ CutManifest(Edited) /\ To("begin")
           /\ UNCHANGED <<legacy, lock, modules, resolution>>
  <2>1. Edited \in Seq(Dependencies(Names, tags)) /\ Once(Edited)
    BY <1>1, <1>3, EditedOK DEF IInv, Sound
  <2>2. ManifestOK(manifest', Names, tags)
    BY <1>3, <2>1, CutManifestOK
  <2>3. /\ legacy' = legacy /\ lock' = lock /\ modules' = modules /\ UNCHANGED resolution
        /\ pc' = "begin" /\ cmd' = cmd /\ outcome' = outcome /\ unnoticed' = {} /\ taken' = <<>>
    BY <1>1, <1>3, NothingYet DEF To, history
  <2>4. queue = <<>> /\ at = 0 /\ pending = <<>> /\ new_lock = <<>> /\ conflict = <<>> /\ outcome = "none"
    BY <1>1 DEF IInv, Sound, PlaceOK
  <2>5. queue' = <<>> /\ at' = 0 /\ pending' = <<>> /\ new_lock' = <<>> /\ conflict' = <<>>
    BY <2>3, <2>4 DEF resolution
  <2>6. cmd'.op # "add" /\ outcome' = "none"
    BY <1>1, <2>3, <2>4
  <2> QED BY <1>1, <2>2, <2>3, <2>5, <2>6, DiskOK, Outside
<1> QED BY <1>2, <1>3 DEF pkg_remove

(* The commit that a tag leads to is one that the repository has.          *)
LEMMA CommitFacts ==
  ASSUME IInv, pc = "fetch", TagOf(Dep) # ""
  PROVE  /\ CheckedOut(Dep.name, TagOf(Dep)) \in 1 .. heads[Dep.name]
         /\ TagOf(Dep) \in STRING
<1>1. TypeOK
  BY DEF IInv, Sound
<1>2. Dep \in Dependencies(Names, tags) /\ Dep.name \in Names
  BY DepFacts
<1>3. TagOf(Dep) \in DOMAIN tags[Dep.name]
  BY <1>1, <1>2, TagFacts
<1> QED BY <1>1, <1>2, <1>3, UpstreamFacts

LEMMA WrongDigestInv == IInv /\ WrongDigest => IInv'
<1> SUFFICES ASSUME IInv, WrongDigest PROVE IInv'
  OBVIOUS
<1>1. /\ pc = "fetch" /\ TagOf(Dep) # "" /\ modules' = With(Dep.name, CheckedOut(Dep.name, TagOf(Dep)))
      /\ manifest' = manifest /\ legacy' = legacy /\ lock' = lock /\ UNCHANGED upstream
  BY DEF WrongDigest
<1>2. CheckedOut(Dep.name, TagOf(Dep)) \in 1 .. heads[Dep.name]
  BY <1>1, CommitFacts
<1>3. Dep.name \in DOMAIN heads
  BY <1>1, DepFacts
<1>4. heads[Dep.name] \in Nat
  BY <1>3 DEF IInv, Sound, TypeOK, UpstreamOK
<1>5. ModulesOK(modules', heads)
  <2>1. CheckedOut(Dep.name, TagOf(Dep)) \in 0 .. heads[Dep.name]
    BY <1>2, <1>4
  <2> QED BY ONLY <1>1, <1>3, <2>1, DiskOK, ModulesFacts, IInv
<1>6. /\ pc' = "idle" /\ outcome' = "failed" /\ cmd' = [op |-> "none"]
      /\ queue' = <<>> /\ at' = 0 /\ pending' = <<>> /\ new_lock' = <<>> /\ conflict' = <<>>
  BY DEF WrongDigest, End
<1>7. unnoticed' = {} /\ taken' = <<>>
  BY <1>1, NothingYet DEF WrongDigest, history
<1> QED BY <1>1, <1>5, <1>6, <1>7, DiskOK, EndsWell

(* A package is there only in part.                                        *)
LEMMA TornOK ==
  ASSUME IInv, pc \in {"fetch", "approve", "expand"}
  PROVE  ModulesOK(With(Dep.name, 0), heads)
<1>1. Dep.name \in DOMAIN heads
  BY DepFacts
<1>2. heads[Dep.name] \in Nat
  BY <1>1 DEF IInv, Sound, TypeOK, UpstreamOK
<1> QED BY <1>1, <1>2, DiskOK, ModulesFacts

LEMMA FailedUnpackingInv ==
  ASSUME IInv, pc = "fetch", UNCHANGED upstream, FailedUnpacking
  PROVE  IInv'
<1>1. ModulesOK(modules', heads) /\ UNCHANGED <<manifest, legacy, lock, history>>
  BY TornOK DEF FailedUnpacking
<1>2. /\ pc' = "idle" /\ outcome' = "failed" /\ cmd' = [op |-> "none"]
      /\ queue' = <<>> /\ at' = 0 /\ pending' = <<>> /\ new_lock' = <<>> /\ conflict' = <<>>
  BY DEF FailedUnpacking, End
<1>3. unnoticed' = {} /\ taken' = <<>>
  BY <1>1, NothingYet DEF history
<1> QED BY <1>1, <1>2, <1>3, DiskOK, EndsWell

(* Some of the packages that are not used are removed, or a part of them.  *)
LEMMA PrunedOK ==
  ASSUME IInv, NEW stay \in SUBSET Unused, NEW torn \in SUBSET stay
  PROVE  /\ ModulesOK(Pruned(stay, torn), heads) /\ DOMAIN Pruned(stay, torn) = (DOMAIN modules \ Unused) \cup stay
         /\ \A m \in DOMAIN modules \ Unused : Pruned(stay, torn)[m] = modules[m]
<1>1. ModulesOK(modules, heads) /\ stay \subseteq DOMAIN modules /\ torn \subseteq Unused
  BY DiskOK DEF Unused
<1>2. \A m \in DOMAIN modules : heads[m] \in Nat
  BY <1>1 DEF IInv, Sound, TypeOK, UpstreamOK, ModulesOK
<1>3. DOMAIN Pruned(stay, torn) = (DOMAIN modules \ Unused) \cup stay
  BY DEF Pruned
<1>4. \A m \in DOMAIN modules \ Unused : Pruned(stay, torn)[m] = modules[m]
  BY <1>1 DEF Pruned
<1>5. \A m \in DOMAIN Pruned(stay, torn) : Pruned(stay, torn)[m] \in 0 .. heads[m]
  BY <1>1, <1>2, <1>3 DEF Pruned, ModulesOK
<1>6. Pruned(stay, torn) = [m \in DOMAIN Pruned(stay, torn) |-> Pruned(stay, torn)[m]]
  BY DEF Pruned
<1>7. DOMAIN Pruned(stay, torn) \subseteq DOMAIN heads
  BY <1>1, <1>3 DEF ModulesOK
<1> QED BY <1>3, <1>4, <1>5, <1>6, <1>7 DEF ModulesOK

(* What a killed process leaves is what a process may find.                *)
LEMMA CrashInv == IInv /\ Crash => IInv'
<1> SUFFICES ASSUME IInv, Crash PROVE IInv'
  OBVIOUS
<1>1. /\ pc' = "idle" /\ outcome' = "killed" /\ cmd' = [op |-> "none"] /\ UNCHANGED upstream
      /\ queue' = <<>> /\ at' = 0 /\ pending' = <<>> /\ new_lock' = <<>> /\ conflict' = <<>>
      /\ unnoticed' = {} /\ taken' = <<>>
  BY DEF Crash, IInv, Sound, PlaceOK
<1>2. TypeOK /\ RecordsOK /\ PlaceOK
  BY DEF IInv, Sound
<1>3. Killed
  BY DEF Crash
<1>4. /\ ManifestOK(manifest', Names, tags) /\ ManifestOK(legacy', Names, tags)
      /\ LockOK(lock', heads) /\ ModulesOK(modules', heads)
  <2>2. CASE pc = "migrate" /\ legacy # None
    <3>1. CutManifest(legacy) /\ UNCHANGED <<legacy, lock, modules>>
      BY <1>3, <2>2 DEF Killed
    <3>2. legacy \in Seq(Dependencies(Names, tags)) /\ Once(legacy)
      BY <2>2, DiskOK DEF ManifestOK
    <3> QED BY <3>1, <3>2, DiskOK, CutManifestOK
  <2>3. CASE pc = "edit" /\ (cmd.op = "add" \/ Place(Deps, cmd.name) # 0)
    <3>1. CutManifest(Edited) /\ UNCHANGED <<legacy, lock, modules>>
      BY <1>3, <2>3 DEF Killed
    <3>2. cmd.op \in {"add", "remove"}
      BY <1>2, <2>3 DEF PlaceOK
    <3>3. cmd.op = "add" \/ (cmd.op = "remove" /\ Place(Deps, cmd.name) # 0)
      BY <2>3, <3>2
    <3>4. Edited \in Seq(Dependencies(Names, tags)) /\ Once(Edited)
      BY <1>2, <3>3, EditedOK
    <3> QED BY <3>1, <3>4, DiskOK, CutManifestOK
  <2>4. CASE pc = "fetch" \/ (pc = "approve" /\ Content.native)
    <3>1. modules' \in {Without(Dep.name), With(Dep.name, 0), modules} /\ UNCHANGED <<manifest, legacy, lock>>
      BY <1>3, <2>4 DEF Killed, Removing
    <3>2. ModulesOK(Without(Dep.name), heads)
      BY DiskOK, ModulesFacts DEF Without
    <3> QED BY <2>4, <3>1, <3>2, DiskOK, TornOK
  <2>5. CASE pc = "save" /\ Modified
    <3>1. CutLock /\ UNCHANGED <<manifest, legacy, modules>>
      BY <1>3, <2>5 DEF Killed
    <3> QED BY <1>2, <3>1, DiskOK, CutLockOK
  <2>6. CASE pc = "prune" /\ Unused # {}
    <3>1. PICK stay \in SUBSET Unused : \E torn \in SUBSET stay : modules' = Pruned(stay, torn)
      BY <1>3, <2>6 DEF Killed
    <3>2. UNCHANGED <<manifest, legacy, lock>>
      BY <1>3, <2>6 DEF Killed
    <3> QED BY <3>1, <3>2, DiskOK, PrunedOK
  <2>7. CASE UNCHANGED disk
    BY <2>7, DiskOK DEF disk
  <2> QED BY <1>3, <2>2, <2>3, <2>4, <2>5, <2>6, <2>7 DEF Killed
<1> QED BY <1>1, <1>4, EndsWell

-----------------------------------------------------------------------------
(* The steps of an installation.                                           *)
LEMMA Inside ==
  ASSUME IInv, pc # "idle", UNCHANGED <<upstream, outcome>>,
         TypeOK', PlaceOK', RecordsOK', ConflictOK', Room => OwnFirst' /\ Coverage'
  PROVE  IInv'
<1>1. outcome' = "none"
  BY DEF IInv, Sound, PlaceOK
<1>2. TakenIsLocked' /\ NeededIsThere' /\ OwnRequirementsMet'
  BY <1>1 DEF Succeeded, TakenIsLocked, TakenIsThere, LockedIsThere, NeededIsThere, OwnRequirementsMet
<1>3. CommandsOK' /\ (Room' <=> Room)
  BY DEF CommandsOK, IInv, Sound, Room, RoomFor, upstream, Names
<1> QED BY <1>2, <1>3 DEF IInv, Sound, Whole

LEMMA TypeKept ==
  ASSUME TypeOK, UNCHANGED <<upstream, manifest, legacy, cmd, taken>>, unnoticed' \in {unnoticed, {"save"}},
         LockOK(lock', heads), ModulesOK(modules', heads),
         queue' \in Seq(Dependencies(Names, tags)), Once(queue'), pending' \in Seq(Dependencies(Names, tags)),
         new_lock' \in Seq(Entries(heads)), at' \in 0 .. Len(queue'),
         conflict' = <<>> \/ conflict' \in Requirement \X Requirement
  PROVE  TypeOK'
BY DEF TypeOK, upstream, Names, Once

LEMMA BeginInv == IInv /\ BeginInstall => IInv'
<1> SUFFICES ASSUME IInv, BeginInstall PROVE IInv'
  OBVIOUS
<1>1. CASE manifest = None \/ (~HasLock /\ cmd.op = "frozen")
  <2>1. pc = "begin" /\ Fail /\ UNCHANGED upstream
    BY <1>1 DEF BeginInstall
  <2> QED BY <2>1, FailInv
<1>2. CASE ~(manifest = None \/ (~HasLock /\ cmd.op = "frozen"))
  <2>1. /\ pc = "begin" /\ pc' = "next" /\ pending' = manifest /\ manifest # None
        /\ UNCHANGED <<upstream, disk, queue, at, new_lock, conflict, cmd, outcome, unnoticed, taken>>
    BY <1>2 DEF BeginInstall, To, history
  <2>2. queue = <<>> /\ at = 0 /\ new_lock = <<>> /\ conflict = <<>>
    BY <2>1 DEF IInv, Sound, PlaceOK
  <2>3. manifest \in Seq(Dependencies(Names, tags)) /\ Once(manifest)
    BY <2>1, DiskOK DEF ManifestOK
  <2>4. manifest' = manifest /\ legacy' = legacy /\ lock' = lock /\ modules' = modules
    BY <2>1 DEF disk
  <2>5. queue' = <<>> /\ at' = 0 /\ new_lock' = <<>> /\ conflict' = <<>> /\ Len(<<>>) = 0 /\ DOMAIN <<>> = {}
    BY <2>1, <2>2
  <2>6. TypeOK'
    <3>1. queue' \in Seq(Dependencies(Names, tags)) /\ Once(queue') /\ new_lock' \in Seq(Entries(heads)) /\ at' \in 0 .. Len(queue')
      BY <2>5 DEF Once
    <3> QED BY <2>1, <2>3, <2>4, <2>5, <3>1, DiskOK, TypeKept DEF IInv, Sound
  <2>7. PlaceOK'
    BY <2>1, <2>4 DEF IInv, Sound, PlaceOK, Succeeded
  <2>8. RecordsOK'
    BY <2>1, <2>5 DEF RecordsOK
  <2>9. OwnFirst'
    <3>1. Len(manifest) \in Nat /\ (Len(manifest) <= 0 => manifest = <<>>) /\ DOMAIN manifest = 1 .. Len(manifest)
      BY <2>3
    <3> QED BY <2>1, <2>4, <2>5, <3>1 DEF OwnFirst
  <2>10. Coverage'
    BY <2>1, <2>4, <2>5 DEF Coverage, Wanted, NamesOf
  <2>11. ConflictOK'
    BY <2>5 DEF ConflictOK
  <2> QED BY <2>1, <2>6, <2>7, <2>8, <2>9, <2>10, <2>11, Inside
<1> QED BY <1>1, <1>2

(* A request is put into the queue, or its package is there already.       *)
LEMMA PushFacts ==
  ASSUME IInv, queue_push_from
  PROVE  /\ Head(pending) \in Dependencies(Names, tags) /\ Tail(pending) \in Seq(Dependencies(Names, tags))
         /\ queue' \in Seq(Dependencies(Names, tags)) /\ Once(queue')
         /\ NamesOf(pending) = NamesOf(Tail(pending)) \cup {Head(pending).name}
         /\ Len(pending) \in Nat \ {0} /\ Len(Tail(pending)) = Len(pending) - 1
         /\ \A i \in DOMAIN Tail(pending) : Tail(pending)[i] = pending[i + 1]
         /\ Len(queue) \in Nat /\ Len(queue') \in Nat /\ Len(queue) <= Len(queue')
         /\ DOMAIN queue \subseteq DOMAIN queue' /\ \A i \in DOMAIN queue : queue'[i] = queue[i]
         /\ Room => /\ NamesOf(queue') = NamesOf(queue) \cup {Head(pending).name}
                    /\ Head(pending).name \notin NamesOf(queue) => queue' = Append(queue, Head(pending))
<1> DEFINE D == Dependencies(Names, tags)
           dep == Head(pending)
<1>1. queue \in Seq(D) /\ Once(queue) /\ pending \in Seq(D) /\ pending # <<>>
  BY DEF IInv, Sound, TypeOK, queue_push_from
<1>2. dep \in D /\ Tail(pending) \in Seq(D) /\ Len(pending) \in Nat \ {0} /\ Len(Tail(pending)) = Len(pending) - 1
  <2> HIDE DEF D
  <2> QED BY <1>1, HeadTailProperties, EmptySeq
<1>3. \A i \in DOMAIN Tail(pending) : Tail(pending)[i] = pending[i + 1]
  <2> HIDE DEF D
  <2> QED BY <1>1
<1>4. NamesOf(pending) = NamesOf(Tail(pending)) \cup {dep.name}
  <2> HIDE DEF D
  <2>1. DOMAIN pending = 1 .. Len(pending) /\ DOMAIN Tail(pending) = 1 .. Len(pending) - 1 /\ dep = pending[1]
    BY <1>1, <1>2
  <2>2. \A i \in DOMAIN pending : i = 1 \/ (i - 1 \in DOMAIN Tail(pending) /\ Tail(pending)[i - 1] = pending[i])
    <3> TAKE i \in DOMAIN pending
    <3>1. i = 1 \/ i - 1 \in DOMAIN Tail(pending)
      BY <1>2, <2>1
    <3>2. i - 1 + 1 = i
      BY <1>2, <2>1
    <3> QED BY <1>3, <3>1, <3>2
  <2>3. \A i \in DOMAIN Tail(pending) : i + 1 \in DOMAIN pending
    BY <1>2, <2>1
  <2>4. 1 \in DOMAIN pending
    BY <1>2, <2>1
  <2>5. NamesOf(pending) \subseteq NamesOf(Tail(pending)) \cup {dep.name}
    BY <2>1, <2>2 DEF NamesOf
  <2>6. NamesOf(Tail(pending)) \cup {dep.name} \subseteq NamesOf(pending)
    BY <1>3, <2>1, <2>3, <2>4 DEF NamesOf
  <2> QED BY <2>5, <2>6
<1>5. queue' = Queued(dep)
  BY DEF queue_push_from
<1>6. Place(queue, dep.name) = 0 <=> dep.name \notin NamesOf(queue)
  <2> HIDE DEF D
  <2> QED BY <1>1, PlaceFacts
<1>7. Len(queue) \in Nat /\ DOMAIN queue = 1 .. Len(queue)
  <2> HIDE DEF D
  <2> QED BY <1>1
<1>8. CASE dep.name \in NamesOf(queue)
  <2>1. queue' = queue
    BY <1>5, <1>6, <1>8 DEF Queued
  <2> HIDE DEF D, dep
  <2>2. NamesOf(queue') = NamesOf(queue) \cup {dep.name}
    BY <2>1, <1>8
  <2>3. Once(queue') /\ queue' \in Seq(D) /\ Len(queue') \in Nat /\ Len(queue) <= Len(queue')
    BY <1>1, <1>7, <2>1
  <2>4. DOMAIN queue \subseteq DOMAIN queue' /\ \A i \in DOMAIN queue : queue'[i] = queue[i]
    BY <2>1
  <2> QED BY <1>2, <1>3, <1>4, <1>7, <1>8, <2>2, <2>3, <2>4 DEF D, dep
<1>9. CASE dep.name \notin NamesOf(queue) /\ Len(queue) < MaxQueue
  <2>3. queue' = Append(queue, dep)
    BY <1>5, <1>6, <1>9 DEF Queued
  <2> HIDE DEF D, dep
  <2>4. /\ queue' \in Seq(D) /\ Once(queue') /\ NamesOf(queue') = NamesOf(queue) \cup {dep.name}
    BY <1>1, <1>2, <1>9, <2>3, OnceAppend
  <2>5. Len(queue') = Len(queue) + 1 /\ DOMAIN queue' = 1 .. Len(queue) + 1 /\ \A i \in DOMAIN queue : queue'[i] = queue[i]
    BY <1>1, <1>2, <2>3
  <2>6. DOMAIN queue \subseteq DOMAIN queue' /\ Len(queue') \in Nat /\ Len(queue) <= Len(queue')
    BY <1>7, <2>5
  <2> QED BY <1>2, <1>3, <1>4, <1>7, <2>3, <2>4, <2>5, <2>6 DEF D, dep
<1>10. CASE dep.name \notin NamesOf(queue) /\ ~(Len(queue) < MaxQueue)
  <2>1. NamesOf(queue) \subseteq DOMAIN contents /\ dep.name \in DOMAIN contents
    <3>1. \A d \in D : d.name \in DOMAIN contents
      BY DEF Dependencies, Names
    <3> HIDE DEF D
    <3>2. \A i \in DOMAIN queue : queue[i] \in D
      BY <1>1, <1>7, ElementOfSeq
    <3> QED BY <1>2, <3>1, <3>2 DEF NamesOf
  <2>2. ~Room
    <3> HIDE DEF D, dep
    <3> QED BY <1>1, <1>10, <2>1, QueueHasRoom DEF Room
  <2>3. queue' = queue
    BY <1>5, <1>10 DEF Queued
  <2> HIDE DEF D, dep
  <2>4. Once(queue') /\ queue' \in Seq(D) /\ Len(queue') \in Nat /\ Len(queue) <= Len(queue')
    BY <1>1, <1>7, <2>3
  <2>5. DOMAIN queue \subseteq DOMAIN queue' /\ \A i \in DOMAIN queue : queue'[i] = queue[i]
    BY <2>3
  <2> QED BY <1>2, <1>3, <1>4, <1>7, <2>2, <2>4, <2>5 DEF D, dep
<1> QED BY <1>8, <1>9, <1>10

(* As long as the queue is as long as before it keeps what it begins with. *)
LEMMA RecordsKept ==
  ASSUME IInv, pc # "prune", pc' # "prune", pc' = "fetch" <=> pc = "fetch",
         UNCHANGED <<upstream, modules, lock, new_lock, cmd, at>>, \A i \in DOMAIN queue : queue'[i] = queue[i]
  PROVE  RecordsOK' /\ \A i \in DOMAIN new_lock : NeededBy(i)' = NeededBy(i)
<1>1. \A i \in DOMAIN new_lock : i \in DOMAIN queue
  BY NewLockFacts DEF IInv, Sound
<1>2. index' = index /\ contents' = contents /\ tags' = tags /\ heads' = heads
  BY DEF upstream
<1>3. RecordsOK
  BY DEF IInv, Sound
<1>4. Len(new_lock)' = IF pc' = "fetch" THEN at' - 1 ELSE at'
  BY <1>3 DEF RecordsOK
<1>5. HasLock' = HasLock
  BY DEF HasLock
<1>6. ASSUME NEW i \in DOMAIN new_lock
      PROVE  Recorded(i)'
  <2>1. queue'[i] = queue[i]
    BY <1>1
  <2>2. resolve_registry_package(queue[i].name, queue[i].req)' = resolve_registry_package(queue[i].name, queue[i].req)
    BY <1>2, <2>1 DEF resolve_registry_package
  <2>3. Recorded(i)
    BY <1>3 DEF RecordsOK
  <2> QED BY <1>5, <2>1, <2>2, <2>3 DEF Recorded
<1>7. RecordsOK'
  BY <1>4, <1>6 DEF RecordsOK
<1>8. \A i \in DOMAIN new_lock : NeededBy(i)' = NeededBy(i)
  BY <1>1, <1>2 DEF NeededBy
<1> QED BY <1>7, <1>8

LEMMA PushInv == IInv /\ queue_push_from => IInv'
<1> SUFFICES ASSUME IInv, queue_push_from PROVE IInv'
  OBVIOUS
<1> DEFINE dep == Head(pending)
<1>1. /\ pc = "next" /\ pending # <<>> /\ pending' = Tail(pending)
      /\ UNCHANGED <<upstream, disk, pc, cmd, at, new_lock, outcome, unnoticed, taken, count>>
  BY DEF queue_push_from, history
<1>2. manifest' = manifest /\ legacy' = legacy /\ lock' = lock /\ modules' = modules
  BY <1>1 DEF disk
<1>3. /\ TypeOK /\ PlaceOK /\ RecordsOK /\ ConflictOK
  BY DEF IInv, Sound
<1>4. conflict' \in {conflict, <<queue[Place(queue, dep.name)].req, dep.req>>}
      /\ (conflict' # conflict => Place(queue, dep.name) # 0 /\ Conflicts(queue[Place(queue, dep.name)].req, dep.req))
  BY DEF queue_push_from
<1>5. TypeOK'
  <2>1. at \in 0 .. Len(queue')
    BY <1>3, PushFacts DEF TypeOK
  <2>2. conflict' = <<>> \/ conflict' \in Requirement \X Requirement
    <3>1. \A d \in Dependencies(Names, tags) : d.req \in Requirement
      BY DEF Dependencies
    <3>2. Place(queue, dep.name) # 0 => Place(queue, dep.name) \in DOMAIN queue
      BY <1>3, PlaceFacts DEF TypeOK
    <3>3. \A i \in DOMAIN queue : queue[i] \in Dependencies(Names, tags)
      BY <1>3, ElementOfSeq DEF TypeOK
    <3>4. dep \in Dependencies(Names, tags)
      BY PushFacts
    <3>5. conflict = <<>> \/ conflict \in Requirement \X Requirement
      BY <1>3 DEF TypeOK
    <3> QED BY <1>4, <3>1, <3>2, <3>3, <3>4, <3>5
  <2>3. new_lock' \in Seq(Entries(heads)) /\ at' \in 0 .. Len(queue')
    BY <1>1, <1>3, <2>1 DEF TypeOK
  <2>4. /\ queue' \in Seq(Dependencies(Names, tags)) /\ Once(queue') /\ pending' \in Seq(Dependencies(Names, tags))
    BY <1>1, PushFacts
  <2>5. LockOK(lock', heads) /\ ModulesOK(modules', heads)
    BY <1>2, DiskOK
  <2> QED BY <1>1, <1>2, <1>3, <2>2, <2>3, <2>4, <2>5, TypeKept
<1>6. PlaceOK'
  BY <1>1, <1>2, <1>3 DEF PlaceOK, Succeeded
<1>7. RecordsOK' /\ \A i \in DOMAIN new_lock : NeededBy(i)' = NeededBy(i)
  BY <1>1, <1>2, PushFacts, RecordsKept
<1>8. Room => OwnFirst'
  <2> SUFFICES ASSUME Room PROVE OwnFirst'
    OBVIOUS
  <2>0. OwnFirst /\ Coverage
    BY DEF IInv, Whole
  <2>1. manifest # None /\ manifest \in Seq(Dependencies(Names, tags)) /\ Once(manifest)
    BY <1>1, <1>3, <2>0, DiskOK DEF PlaceOK, ManifestOK
  <2>2. Len(manifest) \in Nat /\ DOMAIN manifest = 1 .. Len(manifest)
    BY <2>1
  <2>3. queue \in Seq(Dependencies(Names, tags)) /\ DOMAIN queue = 1 .. Len(queue)
    BY <1>3, <2>0 DEF TypeOK
  <2>4. CASE Len(queue) < Len(manifest)
    <3>1. /\ at = 0 /\ Len(manifest) = Len(queue) + Len(pending)
          /\ \A i \in DOMAIN queue : queue[i] = manifest[i]
          /\ \A i \in DOMAIN pending : pending[i] = manifest[Len(queue) + i]
      BY <1>1, <1>3, <2>0, <2>4 DEF OwnFirst
    <3>2. DOMAIN pending = 1 .. Len(pending) /\ Len(pending) \in Nat \ {0} /\ dep = pending[1]
      BY <1>1, <1>3, <2>0, PushFacts DEF TypeOK
    <3>3. dep = manifest[Len(queue) + 1]
      BY <3>1, <3>2
    <3>4. dep.name \notin NamesOf(queue)
      <4>1. ASSUME NEW i \in DOMAIN queue, queue[i].name = dep.name
            PROVE  FALSE
        <5>1. i \in DOMAIN manifest /\ Len(queue) + 1 \in DOMAIN manifest /\ i # Len(queue) + 1
          BY <2>2, <2>3, <2>4, PushFacts
        <5>2. manifest[i].name = manifest[Len(queue) + 1].name
          BY <3>1, <3>3, <4>1
        <5> QED BY <2>1, <5>1, <5>2 DEF Once
      <4> QED BY <4>1 DEF NamesOf
    <3>5. queue' = Append(queue, dep)
      BY <3>4, PushFacts
    <3>6. Len(queue') = Len(queue) + 1 /\ DOMAIN queue' = 1 .. Len(queue) + 1 /\ queue'[Len(queue) + 1] = dep
          /\ \A i \in DOMAIN queue : queue'[i] = queue[i]
      <4> HIDE DEF dep
      <4> QED BY <2>3, <3>5
    <3>7. \A i \in DOMAIN queue' : queue'[i] = manifest[i]
      <4> TAKE i \in DOMAIN queue'
      <4>1. i \in DOMAIN queue \/ i = Len(queue) + 1
        BY <2>3, <3>6, PushFacts
      <4> QED BY <3>1, <3>3, <3>6, <4>1
    <3>8. /\ Len(pending') = Len(pending) - 1 /\ DOMAIN pending' = 1 .. Len(pending) - 1
          /\ \A i \in DOMAIN pending' : pending'[i] = manifest[Len(queue) + 1 + i]
      <4>1. pending' \in Seq(Dependencies(Names, tags)) /\ Len(pending') = Len(pending) - 1
        BY <1>1, PushFacts
      <4>2. DOMAIN pending' = 1 .. Len(pending) - 1
        BY <4>1
      <4>3. ASSUME NEW i \in DOMAIN pending'
            PROVE  pending'[i] = manifest[Len(queue) + 1 + i]
        <5>1. pending'[i] = pending[i + 1]
          BY <1>1, PushFacts
        <5>2. i + 1 \in DOMAIN pending
          BY <3>2, <4>2
        <5>3. Len(queue) + (i + 1) = Len(queue) + 1 + i
          BY <4>2, <3>2, PushFacts
        <5> QED BY <3>1, <5>1, <5>2, <5>3
      <4> QED BY <4>1, <4>2, <4>3
    <3>9. Len(pending') = 0 => pending' = <<>>
      <4>1. pending' \in Seq(Dependencies(Names, tags))
        BY <1>1, PushFacts
      <4> QED BY <4>1
    <3>10. Len(manifest) = Len(queue') + Len(pending')
      BY <2>2, <3>1, <3>2, <3>6, <3>8, PushFacts
    <3>11. at' = 0
      BY <1>1, <3>1
    <3>12. CASE Len(queue') < Len(manifest)
      <4>1. \A i \in DOMAIN pending' : pending'[i] = manifest[Len(queue') + i]
        BY <3>6, <3>8
      <4> QED BY <1>2, <3>7, <3>10, <3>11, <3>12, <4>1 DEF OwnFirst
    <3>13. CASE ~(Len(queue') < Len(manifest))
      <4>1. Len(pending') = 0 /\ DOMAIN manifest = DOMAIN queue'
        BY <2>2, <3>2, <3>6, <3>8, <3>10, <3>13, PushFacts
      <4> QED BY <1>2, <3>7, <3>9, <3>13, <4>1 DEF OwnFirst
    <3> QED BY <3>12, <3>13
  <2>5. CASE ~(Len(queue) < Len(manifest))
    <3>1. /\ \A i \in DOMAIN manifest : queue[i] = manifest[i]
          /\ at = 0 => pending = <<>>
      BY <1>1, <1>3, <2>0, <2>5 DEF OwnFirst
    <3>2. at # 0
      BY <1>1, <3>1
    <3>3. \A i \in DOMAIN manifest : i \in DOMAIN queue
      BY <2>2, <2>3, <2>5, PushFacts
    <3>4. \A i \in DOMAIN manifest : queue'[i] = manifest[i]
      BY <3>1, <3>3, PushFacts
    <3>5. ~(Len(queue') < Len(manifest))
      BY <2>2, <2>5, PushFacts
    <3> QED BY <1>1, <1>2, <3>2, <3>4, <3>5 DEF OwnFirst
  <2> QED BY <2>4, <2>5
<1>9. Room => Coverage'
  <2> SUFFICES ASSUME Room PROVE Coverage'
    OBVIOUS
  <2>0. OwnFirst /\ Coverage
    BY DEF IInv, Whole
  <2>1. Wanted' = Wanted
    BY <1>1, PushFacts DEF Wanted, NamesOf
  <2>2. \A i \in DOMAIN new_lock : queue'[i].name = queue[i].name
    <3>1. \A i \in DOMAIN new_lock : i \in DOMAIN queue
      BY <1>3, <2>0, NewLockFacts
    <3> QED BY <3>1, PushFacts
  <2>3. \A C : ClosedSoFar(C)' <=> ClosedSoFar(C)
    BY <1>1, <1>7, <2>2 DEF ClosedSoFar
  <2>4. /\ NamesOf(manifest) \subseteq Wanted
        /\ \A i \in DOMAIN new_lock : (i = at /\ pc \in {"approve", "expand"}) \/ NeededBy(i) \subseteq Wanted
        /\ \A C \in SUBSET Names : NamesOf(manifest) \subseteq C /\ ClosedSoFar(C) => Wanted \subseteq C
    BY <1>1, <1>3, <2>0 DEF Coverage
  <2>5. Names' = Names /\ NamesOf(manifest)' = NamesOf(manifest)
    BY <1>1, <1>2 DEF Names, upstream, NamesOf
  <2> QED BY <1>1, <1>7, <2>1, <2>3, <2>4, <2>5 DEF Coverage
<1>10. ConflictOK'
  <2>1. CASE conflict' = conflict
    BY <1>3, <2>1 DEF ConflictOK
  <2>2. CASE conflict' # conflict
    BY <1>4, <2>2 DEF ConflictOK
  <2> QED BY <2>1, <2>2
<1> QED BY <1>1, <1>5, <1>6, <1>7, <1>8, <1>9, <1>10, Inside

LEMMA NextDepInv == IInv /\ NextDep => IInv'
<1> SUFFICES ASSUME IInv, NextDep PROVE IInv'
  OBVIOUS
<1>1. pc = "next" /\ pending = <<>> /\ UNCHANGED upstream
  BY DEF NextDep
<1>2. TypeOK /\ PlaceOK /\ RecordsOK /\ ConflictOK
  BY DEF IInv, Sound
<1>3. at \in 0 .. Len(queue) /\ Len(queue) \in Nat /\ Len(new_lock) = at /\ queue \in Seq(Dependencies(Names, tags))
  <2>1. queue \in Seq(Dependencies(Names, tags)) /\ at \in 0 .. Len(queue)
    BY <1>2 DEF TypeOK
  <2>2. Len(queue) \in Nat
    BY <2>1
  <2>3. Len(new_lock) = at
    BY <1>1, <1>2 DEF RecordsOK
  <2> QED BY <2>1, <2>2, <2>3
<1>4. CASE Fail
  BY <1>1, <1>4, FailInv
<1> DEFINE Goes == \/ at < Len(queue) /\ at' = at + 1 /\ pc' = "fetch"
                   \/ at = Len(queue) /\ at' = at /\ pc' = "save"
           Same == UNCHANGED <<disk, cmd, outcome, unnoticed, taken, queue, pending, new_lock, conflict>>
<1>5. CASE Goes /\ Same
  <2>1. manifest' = manifest /\ legacy' = legacy /\ lock' = lock /\ modules' = modules
    BY <1>5 DEF disk
  <2>2. at' \in 0 .. Len(queue) /\ Len(new_lock) = IF pc' = "fetch" THEN at' - 1 ELSE at'
    BY <1>3, <1>5
  <2>3. TypeOK'
    <3>1. /\ queue \in Seq(Dependencies(Names, tags)) /\ Once(queue) /\ pending \in Seq(Dependencies(Names, tags))
          /\ new_lock \in Seq(Entries(heads)) /\ (conflict = <<>> \/ conflict \in Requirement \X Requirement)
      BY <1>2 DEF TypeOK
    <3> QED BY <1>1, <1>2, <1>5, <2>1, <2>2, <3>1, DiskOK, TypeKept
  <2>4. PlaceOK'
    BY <1>1, <1>2, <1>3, <1>5, <2>1 DEF PlaceOK, Succeeded
  <2>5. RecordsOK'
    <3>1. \A i \in DOMAIN new_lock : Recorded(i)' = Recorded(i)
      BY <1>1, <1>5, <2>1 DEF Recorded, HasLock, resolve_registry_package, upstream
    <3>2. Len(new_lock)' = IF pc' = "fetch" THEN at' - 1 ELSE at'
      BY <1>5, <2>2
    <3>3. pc' # "prune" /\ new_lock' = new_lock
      BY <1>5
    <3> QED BY <1>2, <3>1, <3>2, <3>3 DEF RecordsOK
  <2>6. Room => OwnFirst'
    <3> SUFFICES ASSUME Room PROVE OwnFirst'
      OBVIOUS
    <3>0. OwnFirst /\ Coverage
      BY DEF IInv, Whole
    <3>1. manifest \in Seq(Dependencies(Names, tags))
      BY <1>1, <1>2, <3>0, DiskOK DEF PlaceOK, ManifestOK
    <3>2. ~(Len(queue) < Len(manifest))
      <4>1. Len(manifest) \in Nat /\ Len(pending) = 0
        BY <1>1, <3>1
      <4>2. Len(queue) < Len(manifest) => Len(manifest) = Len(queue) + Len(pending)
        BY <1>1, <1>2, <3>0 DEF OwnFirst
      <4> QED BY <1>3, <4>1, <4>2
    <3>3. \A i \in DOMAIN manifest : queue[i] = manifest[i]
      BY <1>1, <1>2, <3>0, <3>2 DEF OwnFirst
    <3>4. pending' = <<>>
      BY <1>1, <1>5
    <3> QED BY <1>5, <2>1, <3>2, <3>3, <3>4 DEF OwnFirst
  <2>7. Room => Coverage'
    <3> SUFFICES ASSUME Room PROVE Coverage'
      OBVIOUS
    <3>0. OwnFirst /\ Coverage
      BY DEF IInv, Whole
    <3>1. \A i \in DOMAIN new_lock : NeededBy(i)' = NeededBy(i)
      BY <1>1, <1>5 DEF NeededBy, upstream
    <3>2. Wanted' = Wanted /\ \A C : ClosedSoFar(C)' <=> ClosedSoFar(C)
      BY <1>5, <3>1 DEF Wanted, ClosedSoFar, NamesOf
    <3>3. /\ NamesOf(manifest) \subseteq Wanted
          /\ \A i \in DOMAIN new_lock : NeededBy(i) \subseteq Wanted
          /\ \A C \in SUBSET Names : NamesOf(manifest) \subseteq C /\ ClosedSoFar(C) => Wanted \subseteq C
      BY <1>1, <1>2, <3>0 DEF Coverage
    <3>4. Names' = Names /\ NamesOf(manifest)' = NamesOf(manifest) /\ new_lock' = new_lock
      BY <1>1, <1>5, <2>1 DEF Names, upstream, NamesOf
    <3> QED BY <3>1, <3>2, <3>3, <3>4 DEF Coverage
  <2>8. ConflictOK'
    BY <1>2, <1>5 DEF ConflictOK
  <2> QED BY <1>1, <1>5, <2>3, <2>4, <2>5, <2>6, <2>7, <2>8, Inside
<1>6. Fail \/ (Goes /\ Same)
  <2>1. CASE conflict # <<>>
    BY <2>1 DEF NextDep
  <2>2. CASE conflict = <<>> /\ at < Len(queue)
    BY <2>2 DEF NextDep, To, history
  <2>3. CASE conflict = <<>> /\ ~(at < Len(queue))
    <3>1. at = Len(queue)
      BY <1>3, <2>3
    <3>2. To("save") /\ UNCHANGED <<disk, resolution>>
      BY <2>3 DEF NextDep
    <3> QED BY <3>1, <3>2 DEF To, resolution, history
  <2> QED BY <2>1, <2>2, <2>3
<1> QED BY <1>4, <1>5, <1>6

(* A package that is taken is recorded as it is taken.                     *)
AsAsked(e) ==
  /\ e.commit > 0
  /\ HasLock => \A j \in DOMAIN lock : lock[j].name = e.name => lock[j].commit = e.commit
  /\ cmd.op = "update" /\ Dep.req.op # "git" => e.tag = resolve_registry_package(Dep.name, Dep.req) /\ e.tag # ""
LEMMA FetchedInv ==
  ASSUME IInv, pc = "fetch", UNCHANGED upstream, NEW e, e \in Entries(heads), Fetched(e), e.name = Dep.name, AsAsked(e)
  PROVE  IInv'
<1>1. /\ modules' = With(e.name, e.commit) /\ new_lock' = Append(new_lock, e) /\ pc' = "approve"
      /\ UNCHANGED <<manifest, legacy, lock, queue, at, pending, conflict, cmd, outcome, unnoticed, taken>>
  BY DEF Fetched, To, history
<1>2. TypeOK /\ PlaceOK /\ RecordsOK /\ ConflictOK
  BY DEF IInv, Sound
<1>3. /\ at \in DOMAIN queue /\ Dep = queue[at] /\ Dep.name \in DOMAIN heads /\ Once(queue)
      /\ Len(new_lock) = at - 1 /\ at \in Nat \ {0} /\ new_lock \in Seq(Entries(heads)) /\ pending = <<>>
  <2>1. queue \in Seq(Dependencies(Names, tags)) /\ Once(queue) /\ new_lock \in Seq(Entries(heads))
    BY <1>2 DEF TypeOK
  <2>2. at \in DOMAIN queue /\ Dep = queue[at] /\ Dep.name \in DOMAIN heads
    BY DepFacts DEF Dep
  <2>3. Len(new_lock) = at - 1 /\ pending = <<>>
    BY <1>2 DEF RecordsOK, PlaceOK
  <2>4. at \in Nat \ {0}
    <3>1. DOMAIN queue = 1 .. Len(queue) /\ Len(queue) \in Nat
      BY <2>1
    <3> QED BY <2>2, <3>1
  <2> QED BY <2>1, <2>2, <2>3, <2>4
<1>4. /\ new_lock' \in Seq(Entries(heads)) /\ Len(new_lock') = at /\ DOMAIN new_lock' = 1 .. at
      /\ DOMAIN new_lock = 1 .. at - 1
      /\ \A i \in DOMAIN new_lock : new_lock'[i] = new_lock[i]
      /\ new_lock'[at] = e
  <2>1. new_lock' \in Seq(Entries(heads)) /\ Len(new_lock') = at - 1 + 1
    BY <1>1, <1>3, AppendProperties
  <2>2. at - 1 + 1 = at
    BY <1>3
  <2>3. DOMAIN new_lock = 1 .. at - 1 /\ \A i \in DOMAIN new_lock : new_lock'[i] = new_lock[i]
    BY <1>1, <1>3
  <2>4. new_lock'[at] = e
    BY <1>1, <1>3
  <2>5. DOMAIN new_lock' = 1 .. at
    BY <2>1, <2>2
  <2> QED BY <2>1, <2>2, <2>3, <2>4, <2>5
<1>5. \A i \in DOMAIN new_lock' : i = at \/ (i \in DOMAIN new_lock /\ i # at)
  BY <1>3, <1>4
<1>6. \A i \in DOMAIN new_lock : i \in DOMAIN queue /\ i # at /\ queue[i].name # Dep.name
  <2>1. \A i \in DOMAIN new_lock : i \in DOMAIN queue /\ i # at
    BY <1>2, <1>3, <1>4, NewLockFacts
  <2> QED BY <1>3, <2>1 DEF Once
<1>7. ModulesOK(modules', heads)
  <2>1. e.commit \in 0 .. heads[e.name] /\ e.name \in DOMAIN heads
    <3>1. e.commit \in Nat /\ e.commit <= heads[e.name] /\ e.name \in DOMAIN heads
      BY DEF Entries
    <3>2. heads[e.name] \in Nat
      BY <1>2, <3>1 DEF TypeOK, UpstreamOK
    <3> QED BY <3>1, <3>2
  <2> QED BY <1>1, <2>1, DiskOK, ModulesFacts
<1>8. TypeOK'
  <2>1. /\ queue \in Seq(Dependencies(Names, tags)) /\ Once(queue) /\ pending \in Seq(Dependencies(Names, tags))
        /\ at \in 0 .. Len(queue) /\ (conflict = <<>> \/ conflict \in Requirement \X Requirement)
    BY <1>2 DEF TypeOK
  <2>2. LockOK(lock', heads)
    BY <1>1, DiskOK
  <2> QED BY <1>1, <1>2, <1>4, <1>7, <2>1, <2>2, TypeKept
<1>9. PlaceOK'
  BY <1>1, <1>2 DEF PlaceOK, Succeeded
<1>10. RecordsOK'
  <2>1. modules' = [m \in DOMAIN modules \cup {e.name} |-> IF m = e.name THEN e.commit ELSE modules[m]]
    BY <1>1 DEF With
  <2>2. HasLock' = HasLock /\ index' = index
    BY <1>1 DEF HasLock, upstream
  <2>3. ASSUME NEW i \in DOMAIN new_lock
        PROVE  Recorded(i)'
    <3>1. Recorded(i) /\ new_lock'[i] = new_lock[i] /\ queue' = queue /\ lock' = lock /\ cmd' = cmd
      BY <1>1, <1>2, <1>4 DEF RecordsOK
    <3>2. new_lock[i].name # e.name
      BY <1>6, <3>1 DEF Recorded
    <3>3. new_lock[i].name \in DOMAIN modules' /\ modules'[new_lock[i].name] = new_lock[i].commit
      BY <2>1, <3>1, <3>2 DEF Recorded
    <3>4. resolve_registry_package(queue[i].name, queue[i].req)' = resolve_registry_package(queue[i].name, queue[i].req)
      BY <2>2, <3>1 DEF resolve_registry_package
    <3> QED BY <2>2, <3>1, <3>3, <3>4 DEF Recorded
  <2>4. Recorded(at)'
    <3>1. new_lock'[at] = e /\ queue' = queue /\ at' = at /\ lock' = lock /\ cmd' = cmd
      BY <1>1, <1>4
    <3>2. e.name \in DOMAIN modules' /\ modules'[e.name] = e.commit
      BY <2>1
    <3>3. resolve_registry_package(queue[at].name, queue[at].req)' = resolve_registry_package(Dep.name, Dep.req)
      BY <1>3, <2>2, <3>1 DEF resolve_registry_package
    <3> QED BY <1>3, <2>2, <3>1, <3>2, <3>3 DEF Recorded, AsAsked
  <2>5. \A i \in DOMAIN new_lock' : Recorded(i)'
    BY <1>1, <1>5, <2>3, <2>4
  <2> QED BY <1>1, <1>4, <2>5 DEF RecordsOK
<1>11. Room => OwnFirst'
  BY <1>1, <1>3 DEF OwnFirst, IInv, Whole
<1>12. Room => Coverage'
  <2> SUFFICES ASSUME Room PROVE Coverage'
    OBVIOUS
  <2>0. OwnFirst /\ Coverage
    BY DEF IInv, Whole
  <2>1. Wanted' = Wanted /\ Names' = Names /\ NamesOf(manifest)' = NamesOf(manifest)
    BY <1>1 DEF Wanted, Names, NamesOf, upstream
  <2>2. \A i \in DOMAIN new_lock : NeededBy(i)' = NeededBy(i)
    BY <1>1, <1>4 DEF NeededBy, upstream
  <2>3. \A C : ClosedSoFar(C)' => ClosedSoFar(C)
    BY <1>1, <1>4, <1>5, <2>2 DEF ClosedSoFar
  <2>4. /\ NamesOf(manifest) \subseteq Wanted
        /\ \A i \in DOMAIN new_lock : NeededBy(i) \subseteq Wanted
        /\ \A C \in SUBSET Names : NamesOf(manifest) \subseteq C /\ ClosedSoFar(C) => Wanted \subseteq C
    BY <1>2, <2>0 DEF Coverage
  <2>5. \A i \in DOMAIN new_lock' : (i = at' /\ pc' \in {"approve", "expand"}) \/ NeededBy(i)' \subseteq Wanted'
    BY <1>1, <1>5, <2>1, <2>2, <2>4
  <2>6. \A C \in SUBSET Names' : NamesOf(manifest)' \subseteq C /\ ClosedSoFar(C)' => Wanted' \subseteq C
    BY <2>1, <2>3, <2>4
  <2> QED BY <2>1, <2>4, <2>5, <2>6 DEF Coverage
<1>13. ConflictOK'
  BY <1>1, <1>2 DEF ConflictOK
<1> QED BY <1>1, <1>8, <1>9, <1>10, <1>11, <1>12, <1>13, Inside

LEMMA RestoreInv == IInv /\ restore_locked_dep => IInv'
<1> SUFFICES ASSUME IInv, restore_locked_dep PROVE IInv'
  OBVIOUS
<1> DEFINE k == LockIndex(Dep.name)
           e == lock[k]
<1>1. pc = "fetch" /\ k # 0 /\ UNCHANGED upstream
      /\ (Fail \/ FailedUnpacking \/ (e.commit # 0 /\ Fetched(e)))
  BY DEF restore_locked_dep
<1>2. CASE Fail \/ FailedUnpacking
  BY <1>1, <1>2, FailInv, FailedUnpackingInv
<1>3. CASE e.commit # 0 /\ Fetched(e)
  <2>1. HasLock /\ k = Place(lock, Dep.name)
    BY <1>1 DEF LockIndex
  <2>2. lock \in Seq(Entries(heads)) /\ Once(lock)
    BY <2>1, DiskOK DEF HasLock, LockOK
  <2>3. k \in DOMAIN lock /\ e.name = Dep.name /\ \A j \in DOMAIN lock : lock[j].name = Dep.name => j = k
    BY <1>1, <2>1, <2>2, PlaceFacts
  <2>4. e \in Entries(heads)
    BY <2>2, <2>3, ElementOfSeq
  <2>5. e.commit > 0
    BY <1>3, <2>4 DEF Entries
  <2>6. cmd.op # "update"
    BY <2>1 DEF HasLock
  <2> HIDE DEF k
  <2>7. \A j \in DOMAIN lock : lock[j].name = e.name => lock[j].commit = e.commit
    BY <2>3
  <2>8. AsAsked(e)
    BY <2>5, <2>6, <2>7 DEF AsAsked
  <2> HIDE DEF e
  <2> QED BY <1>1, <1>3, <2>3, <2>4, <2>8, FetchedInv
<1> QED BY <1>1, <1>2, <1>3

LEMMA DownloadInv == IInv /\ download_and_extract_git => IInv'
<1> SUFFICES ASSUME IInv, download_and_extract_git PROVE IInv'
  OBVIOUS
<1> DEFINE e == [name |-> Dep.name, tag |-> TagOf(Dep), commit |-> CheckedOut(Dep.name, TagOf(Dep))]
<1>1. pc = "fetch" /\ LockIndex(Dep.name) = 0 /\ UNCHANGED upstream
      /\ (Fail \/ FailedUnpacking \/ (TagOf(Dep) # "" /\ Fetched(e)))
  BY DEF download_and_extract_git
<1>2. CASE Fail \/ FailedUnpacking
  BY <1>1, <1>2, FailInv, FailedUnpackingInv
<1>3. CASE TagOf(Dep) # "" /\ Fetched(e)
  <2>1. CheckedOut(Dep.name, TagOf(Dep)) \in 1 .. heads[Dep.name] /\ TagOf(Dep) \in STRING
    BY <1>1, <1>3, CommitFacts
  <2>2. Dep.name \in DOMAIN heads /\ heads[Dep.name] \in Nat
    <3>1. Dep.name \in DOMAIN heads
      BY <1>1, DepFacts
    <3> QED BY <3>1 DEF IInv, Sound, TypeOK, UpstreamOK
  <2>3. e \in Entries(heads) /\ e.name = Dep.name /\ e.commit > 0 /\ e.tag = TagOf(Dep)
    BY <2>1, <2>2 DEF Entries
  <2>4. HasLock => \A j \in DOMAIN lock : lock[j].name # Dep.name
    <3> SUFFICES ASSUME HasLock PROVE \A j \in DOMAIN lock : lock[j].name # Dep.name
      OBVIOUS
    <3>1. Place(lock, Dep.name) = 0
      BY <1>1 DEF LockIndex
    <3>2. lock \in Seq(Entries(heads)) /\ Once(lock)
      BY DiskOK DEF HasLock, LockOK
    <3>3. \A j \in DOMAIN lock : j # 0
      BY <3>2
    <3> QED BY <3>1, <3>2, <3>3, PlaceFacts
  <2>5. Dep.req.op # "git" => TagOf(Dep) = resolve_registry_package(Dep.name, Dep.req)
    BY DEF TagOf
  <2> HIDE DEF e
  <2>6. AsAsked(e)
    BY <2>3, <2>4, <2>5, <1>3 DEF AsAsked
  <2> QED BY <1>1, <1>3, <2>3, <2>6, FetchedInv
<1> QED BY <1>1, <1>2, <1>3

LEMMA ConsentInv == IInv /\ constellation_consent => IInv'
<1> SUFFICES ASSUME IInv, constellation_consent PROVE IInv'
  OBVIOUS
<1>1. pc = "approve" /\ UNCHANGED upstream
  BY DEF constellation_consent
<1>2. CASE Removing(Dep.name) /\ End("failed") /\ UNCHANGED <<manifest, legacy, lock, history>>
  <2>1. ModulesOK(modules', heads)
    <3>1. ModulesOK(Without(Dep.name), heads)
      BY DiskOK, ModulesFacts DEF Without
    <3> QED BY <1>1, <1>2, <3>1, DiskOK, TornOK DEF Removing
  <2>2. /\ pc' = "idle" /\ outcome' = "failed" /\ cmd' = [op |-> "none"]
        /\ queue' = <<>> /\ at' = 0 /\ pending' = <<>> /\ new_lock' = <<>> /\ conflict' = <<>>
    BY <1>2 DEF End
  <2>3. unnoticed' = {} /\ taken' = <<>>
    BY <1>1, <1>2, NothingYet DEF history
  <2> QED BY <1>1, <1>2, <2>1, <2>2, <2>3, DiskOK, EndsWell
<1>3. CASE To("expand") /\ UNCHANGED <<disk, resolution>>
  <2>1. /\ pc' = "expand"
        /\ UNCHANGED <<manifest, legacy, lock, modules, queue, at, pending, new_lock, conflict, cmd, outcome>>
        /\ UNCHANGED <<unnoticed, taken>>
    BY <1>3 DEF To, disk, resolution, history
  <2>2. TypeOK /\ PlaceOK /\ RecordsOK /\ ConflictOK
    BY DEF IInv, Sound
  <2>3. TypeOK'
    BY <1>1, <2>1, <2>2 DEF TypeOK, upstream, Names, Once
  <2>4. PlaceOK'
    BY <1>1, <2>1, <2>2 DEF PlaceOK, Succeeded
  <2>5. RecordsOK' /\ \A i \in DOMAIN new_lock : NeededBy(i)' = NeededBy(i)
    BY <1>1, <2>1, RecordsKept
  <2>6. (Room => OwnFirst') /\ ConflictOK'
    BY <1>1, <2>1, <2>2 DEF OwnFirst, ConflictOK, IInv, Whole
  <2>7. Room => Coverage'
    <3> SUFFICES ASSUME Room PROVE Coverage'
      OBVIOUS
    <3>0. OwnFirst /\ Coverage
      BY DEF IInv, Whole
    <3>1. \A C : ClosedSoFar(C)' <=> ClosedSoFar(C)
      BY <2>1, <2>5 DEF ClosedSoFar
    <3>2. Wanted' = Wanted /\ Names' = Names /\ NamesOf(manifest)' = NamesOf(manifest)
      BY <1>1, <2>1 DEF Wanted, Names, NamesOf, upstream
    <3> QED BY <1>1, <2>1, <2>2, <3>0, <2>5, <3>1, <3>2 DEF Coverage
  <2> QED BY <1>1, <2>1, <2>3, <2>4, <2>5, <2>6, <2>7, Inside
<1> QED BY <1>2, <1>3 DEF constellation_consent

(* What the package that was taken asks for is asked for.                  *)
LEMMA ExpandInv == IInv /\ Expand => IInv'
<1> SUFFICES ASSUME IInv, Expand PROVE IInv'
  OBVIOUS
<1>1. /\ pc = "expand" /\ pc' = "next" /\ pending' = Content.deps
      /\ UNCHANGED <<upstream, disk, queue, at, new_lock, conflict, cmd, outcome, unnoticed, taken>>
  BY DEF Expand, To, history
<1>2. manifest' = manifest /\ legacy' = legacy /\ lock' = lock /\ modules' = modules
  BY <1>1 DEF disk
<1>3. TypeOK /\ PlaceOK /\ RecordsOK /\ ConflictOK
  BY DEF IInv, Sound
<1>4. /\ at \in DOMAIN new_lock /\ Recorded(at) /\ new_lock[at] \in Entries(heads) /\ at \in DOMAIN queue /\ Dep.name \in Names
  <2>1. Len(new_lock) = at /\ at > 0
    BY <1>1, <1>3 DEF RecordsOK, PlaceOK
  <2>2. at \in Nat /\ DOMAIN new_lock = 1 .. Len(new_lock) /\ new_lock \in Seq(Entries(heads))
    BY <1>3, <2>1, NewLockFacts
  <2>3. at \in 1 .. Len(new_lock)
    BY <2>1, <2>2
  <2>4. Recorded(at) /\ new_lock[at] \in Entries(heads)
    BY <1>3, <2>2, <2>3, ElementOfSeq DEF RecordsOK
  <2> QED BY <1>1, <2>2, <2>3, <2>4, DepFacts
<1>5. modules[Dep.name] = new_lock[at].commit /\ new_lock[at].commit \in 1 .. heads[Dep.name]
  <2>1. new_lock[at].name = Dep.name /\ modules[Dep.name] = new_lock[at].commit /\ new_lock[at].commit > 0
    BY <1>4 DEF Recorded, Dep
  <2>2. heads[Dep.name] \in Nat
    BY <1>3, <1>4, UpstreamFacts
  <2> QED BY <1>4, <2>1, <2>2 DEF Entries
<1>6. pending' \in Seq(Dependencies(Names, tags)) /\ NamesOf(pending') = NeededBy(at)
  <2>1. Content = contents[Dep.name][new_lock[at].commit]
    BY <1>5 DEF Content
  <2>2. contents[Dep.name][new_lock[at].commit].deps \in Seq(Dependencies(Names, tags))
    BY <1>3, <1>4, <1>5, UpstreamFacts
  <2> QED BY <1>1, <2>1, <2>2 DEF NeededBy, Dep
<1>7. TypeOK'
  <2>1. /\ queue \in Seq(Dependencies(Names, tags)) /\ Once(queue) /\ new_lock \in Seq(Entries(heads))
        /\ at \in 0 .. Len(queue) /\ (conflict = <<>> \/ conflict \in Requirement \X Requirement)
    BY <1>3 DEF TypeOK
  <2> QED BY <1>1, <1>2, <1>3, <1>6, <2>1, DiskOK, TypeKept
<1>8. PlaceOK'
  BY <1>1, <1>2, <1>3 DEF PlaceOK, Succeeded
<1>9. RecordsOK' /\ \A i \in DOMAIN new_lock : NeededBy(i)' = NeededBy(i)
  BY <1>1, <1>2, RecordsKept
<1>10. at # 0
  BY <1>1, <1>3 DEF PlaceOK
<1>11. (Room => OwnFirst') /\ ConflictOK'
  BY <1>1, <1>2, <1>3, <1>10 DEF OwnFirst, ConflictOK, IInv, Whole
<1>12. Room => Coverage'
  <2> SUFFICES ASSUME Room PROVE Coverage'
    OBVIOUS
  <2>0. OwnFirst /\ Coverage
    BY DEF IInv, Whole
  <2>1. pending = <<>> /\ NamesOf(pending) = {}
    BY <1>1, <1>3, <2>0 DEF PlaceOK, NamesOf
  <2>2. Wanted' = Wanted \cup NeededBy(at)
    BY <1>1, <1>6, <2>1 DEF Wanted, NamesOf
  <2>3. \A C : ClosedSoFar(C)' <=> ClosedSoFar(C)
    BY <1>1, <1>9 DEF ClosedSoFar
  <2>4. /\ NamesOf(manifest) \subseteq Wanted
        /\ \A i \in DOMAIN new_lock : i = at \/ NeededBy(i) \subseteq Wanted
        /\ \A C \in SUBSET Names : NamesOf(manifest) \subseteq C /\ ClosedSoFar(C) => Wanted \subseteq C
    BY <1>1, <1>3, <2>0 DEF Coverage
  <2>5. queue[at].name \in Wanted
    BY <1>4 DEF Wanted, NamesOf
  <2>6. \A C \in SUBSET Names : NamesOf(manifest) \subseteq C /\ ClosedSoFar(C) => NeededBy(at) \subseteq C
    BY <1>4, <2>4, <2>5 DEF ClosedSoFar
  <2>7. Names' = Names /\ NamesOf(manifest)' = NamesOf(manifest)
    BY <1>1, <1>2 DEF Names, NamesOf, upstream
  <2>8. \A i \in DOMAIN new_lock' : NeededBy(i)' \subseteq Wanted'
    BY <1>1, <1>9, <2>2, <2>4
  <2>9. \A C \in SUBSET Names' : NamesOf(manifest)' \subseteq C /\ ClosedSoFar(C)' => Wanted' \subseteq C
    BY <2>2, <2>3, <2>4, <2>6, <2>7
  <2> QED BY <2>2, <2>4, <2>7, <2>8, <2>9 DEF Coverage
<1> QED BY <1>1, <1>7, <1>8, <1>9, <1>11, <1>12, Inside

(* What is in the lock file now is what was recorded, if that was written; *)
(* if not, it does not disagree with it.                                   *)
LEMMA SavedFacts ==
  ASSUME IInv, lock_save
  PROVE  /\ LockOK(lock', heads)
         /\ unnoticed' \in {unnoticed, {"save"}}
         /\ \A i \in DOMAIN new_lock :
              HasLock' => \A j \in DOMAIN lock' :
                            lock'[j].name = new_lock[i].name => lock'[j].commit \in {new_lock[i].commit, 0}
         /\ "save" \notin unnoticed' =>
              /\ lock' \in Seq(Entries(heads)) /\ Once(lock') /\ Len(lock') = Len(new_lock)
              /\ \A i \in DOMAIN lock' : lock'[i].name = new_lock[i].name /\ lock'[i].commit = new_lock[i].commit
              /\ cmd.op = "update" => lock' = new_lock
<1>1. TypeOK /\ RecordsOK /\ pc = "save" /\ cmd' = cmd
  BY DEF IInv, Sound, lock_save
<1>2. new_lock \in Seq(Entries(heads)) /\ Once(new_lock)
  BY <1>1, NewLockFacts
<1>3. \A i, k \in DOMAIN new_lock : new_lock[k].name = new_lock[i].name => new_lock[k].commit = new_lock[i].commit
  BY <1>2 DEF Once
<1>4. CASE lock' = new_lock /\ UNCHANGED unnoticed
  <2>1. LockOK(lock', heads) /\ Len(lock') = Len(new_lock)
    BY <1>2, <1>4 DEF LockOK
  <2> QED BY <1>2, <1>3, <1>4, <2>1
<1>5. ASSUME lock' = lock
      PROVE  /\ LockOK(lock', heads)
             /\ \A i \in DOMAIN new_lock :
                  HasLock' => \A j \in DOMAIN lock' :
                                lock'[j].name = new_lock[i].name => lock'[j].commit \in {new_lock[i].commit, 0}
  <2>1. \A i \in DOMAIN new_lock : Recorded(i)
    BY <1>1 DEF RecordsOK
  <2>2. HasLock' = HasLock
    BY <1>1, <1>5 DEF HasLock
  <2> QED BY <1>1, <1>5, <2>1, <2>2, DiskOK DEF Recorded
<1>6. CASE ~Modified
  <2>1. lock' = lock /\ UNCHANGED unnoticed
    BY <1>6 DEF lock_save
  <2>2. HasLock /\ Len(new_lock) = Len(lock)
        /\ \A i \in DOMAIN lock : lock[i].name = new_lock[i].name /\ lock[i].commit = new_lock[i].commit
    BY <1>6 DEF Modified
  <2>3. lock \in Seq(Entries(heads)) /\ Once(lock) /\ cmd.op # "update"
    BY <2>2, DiskOK DEF HasLock, LockOK
  <2>4. Once(lock')
    BY <2>1, <2>3 DEF Once
  <2> QED BY <1>5, <2>1, <2>2, <2>3, <2>4
<1>7. CASE UNCHANGED lock /\ unnoticed' = {"save"}
  BY <1>5, <1>7
<1>8. CASE CutLock /\ unnoticed' = {"save"}
  <2>1. LockOK(lock', heads)
    BY <1>1, <1>8, CutLockOK
  <2>2. \A j \in DOMAIN lock' : lock'[j].commit = 0 \/ \E i \in DOMAIN new_lock : lock'[j] = new_lock[i]
    BY <1>1, <1>8, CutLockFacts
  <2> QED BY <1>3, <1>8, <2>1, <2>2
<1> QED BY <1>4, <1>6, <1>7, <1>8 DEF lock_save

LEMMA SaveInv == IInv /\ lock_save => IInv'
<1> SUFFICES ASSUME IInv, lock_save PROVE IInv'
  OBVIOUS
<1>1. /\ pc = "save" /\ pc' = "prune" /\ UNCHANGED <<upstream, manifest, legacy, modules, cmd, outcome, taken>>
      /\ UNCHANGED <<queue, at, pending, new_lock, conflict>>
  BY DEF lock_save, resolution
<1>2. TypeOK /\ PlaceOK /\ RecordsOK /\ ConflictOK
  BY DEF IInv, Sound
<1>3. TypeOK'
  <2>1. /\ queue \in Seq(Dependencies(Names, tags)) /\ Once(queue) /\ new_lock \in Seq(Entries(heads))
        /\ pending \in Seq(Dependencies(Names, tags))
        /\ at \in 0 .. Len(queue) /\ (conflict = <<>> \/ conflict \in Requirement \X Requirement)
    BY <1>2 DEF TypeOK
  <2>2. LockOK(lock', heads) /\ ModulesOK(modules', heads)
    BY <1>1, SavedFacts, DiskOK
  <2> QED BY <1>1, <1>2, <2>1, <2>2, SavedFacts, TypeKept
<1>4. PlaceOK'
  BY <1>1, <1>2 DEF PlaceOK, Succeeded
<1>5. RecordsOK'
  <2>1. Len(new_lock)' = IF pc' = "fetch" THEN at' - 1 ELSE at'
    BY <1>1, <1>2 DEF RecordsOK
  <2>2. ASSUME NEW i \in DOMAIN new_lock
        PROVE  Recorded(i)'
    <3>1. Recorded(i) /\ index' = index /\ queue' = queue /\ new_lock' = new_lock /\ cmd' = cmd /\ modules' = modules
      BY <1>1, <1>2 DEF RecordsOK, upstream
    <3>2. resolve_registry_package(queue[i].name, queue[i].req)' = resolve_registry_package(queue[i].name, queue[i].req)
      BY <3>1 DEF resolve_registry_package
    <3>3. HasLock' => \A j \in DOMAIN lock' :
                        lock'[j].name = new_lock[i].name => lock'[j].commit \in {new_lock[i].commit, 0}
      BY SavedFacts
    <3> QED BY <1>1, <3>1, <3>2, <3>3 DEF Recorded
  <2>3. "save" \notin unnoticed' =>
          /\ lock' \in Seq(Entries(heads')) /\ Once(lock)' /\ Len(lock') = Len(new_lock')
          /\ \A i \in DOMAIN lock' : lock'[i].name = new_lock'[i].name /\ lock'[i].commit = new_lock'[i].commit
          /\ cmd'.op = "update" => lock' = new_lock'
    <3>1. heads' = heads /\ new_lock' = new_lock /\ cmd' = cmd
      BY <1>1 DEF upstream
    <3>2. Once(lock)' <=> Once(lock')
      BY DEF Once
    <3> QED BY <3>1, <3>2, SavedFacts
  <2> QED BY <1>1, <2>1, <2>2, <2>3 DEF RecordsOK
<1>6. (Room => OwnFirst') /\ ConflictOK'
  BY <1>1, <1>2 DEF OwnFirst, ConflictOK, IInv, Whole
<1>7. Room => Coverage'
  <2> SUFFICES ASSUME Room PROVE Coverage'
    OBVIOUS
  <2>0. OwnFirst /\ Coverage
    BY DEF IInv, Whole
  <2>1. \A i \in DOMAIN new_lock : NeededBy(i)' = NeededBy(i)
    BY <1>1 DEF NeededBy, upstream
  <2>2. \A C : ClosedSoFar(C)' <=> ClosedSoFar(C)
    BY <1>1, <2>1 DEF ClosedSoFar
  <2>3. Wanted' = Wanted /\ Names' = Names /\ NamesOf(manifest)' = NamesOf(manifest)
    BY <1>1 DEF Wanted, Names, NamesOf, upstream
  <2> QED BY <1>1, <1>2, <2>0, <2>1, <2>2, <2>3 DEF Coverage
<1> QED BY <1>1, <1>3, <1>4, <1>5, <1>6, <1>7, Inside

(* An installation that ends well leaves what it took.                     *)
LEMMA PruneFacts ==
  ASSUME IInv, Prune
  PROVE  /\ new_lock \in Seq(Entries(heads)) /\ Once(new_lock) /\ DOMAIN new_lock = DOMAIN queue
         /\ \A i \in DOMAIN new_lock :
              /\ new_lock[i].name = queue[i].name /\ new_lock[i].commit > 0 /\ Recorded(i)
              /\ new_lock[i].name \in DOMAIN modules' /\ modules'[new_lock[i].name] = new_lock[i].commit
         /\ NamesOf(new_lock) = Wanted /\ NamesOf(new_lock) \subseteq Names
         /\ ModulesOK(modules', heads) /\ unnoticed' \in {unnoticed, unnoticed \cup {"prune"}}
         /\ "prune" \notin unnoticed' => DOMAIN modules' = NamesOf(new_lock)
<1>1. PICK stay \in SUBSET Unused :
        /\ \E torn \in SUBSET stay : modules' = Pruned(stay, torn)
        /\ unnoticed' = unnoticed \cup IF stay = {} THEN {} ELSE {"prune"}
  BY DEF Prune
<1>2. pc = "prune" /\ TypeOK /\ PlaceOK /\ RecordsOK
  BY DEF IInv, Sound, Prune
<1>3. pending = <<>> /\ at = Len(queue) /\ Len(new_lock) = at /\ \A i \in DOMAIN new_lock : Recorded(i)
  BY <1>2 DEF PlaceOK, RecordsOK
<1>4. new_lock \in Seq(Entries(heads)) /\ Once(new_lock) /\ DOMAIN new_lock = DOMAIN queue
  BY <1>2, <1>3, NewLockFacts
<1>5. \A i \in DOMAIN new_lock :
        /\ new_lock[i].name = queue[i].name /\ new_lock[i].commit > 0 /\ new_lock[i].name \in DOMAIN modules
        /\ modules[new_lock[i].name] = new_lock[i].commit
  BY <1>3 DEF Recorded
<1>6. NamesOf(new_lock) = NamesOf(queue) /\ NamesOf(pending) = {} /\ NamesOf(new_lock) \subseteq DOMAIN modules
  BY <1>3, <1>4, <1>5 DEF NamesOf
<1>7. Unused = DOMAIN modules \ NamesOf(new_lock)
  BY DEF Unused, NamesOf
<1>8. /\ ModulesOK(modules', heads) /\ DOMAIN modules' = (DOMAIN modules \ Unused) \cup stay
      /\ \A m \in DOMAIN modules \ Unused : modules'[m] = modules[m]
  <2>1. PICK torn \in SUBSET stay : modules' = Pruned(stay, torn)
    BY <1>1
  <2>2. /\ ModulesOK(Pruned(stay, torn), heads) /\ DOMAIN Pruned(stay, torn) = (DOMAIN modules \ Unused) \cup stay
        /\ \A m \in DOMAIN modules \ Unused : Pruned(stay, torn)[m] = modules[m]
    BY PrunedOK
  <2> QED BY <2>1, <2>2
<1>9. DOMAIN modules \ Unused = NamesOf(new_lock)
  BY <1>6, <1>7
<1>10. \A i \in DOMAIN new_lock : new_lock[i].name \in DOMAIN modules' /\ modules'[new_lock[i].name] = new_lock[i].commit
  <2>1. \A i \in DOMAIN new_lock : new_lock[i].name \in NamesOf(new_lock)
    BY DEF NamesOf
  <2> QED BY <1>5, <1>8, <1>9, <2>1
<1>11. NamesOf(new_lock) \subseteq Names
  <2>1. DOMAIN modules \subseteq DOMAIN heads /\ DOMAIN heads = Names
    BY <1>2 DEF TypeOK, ModulesOK, UpstreamOK, Names
  <2> QED BY <1>6, <2>1
<1>12. "prune" \notin unnoticed' => stay = {}
  BY <1>1
<1>13. unnoticed' \in {unnoticed, unnoticed \cup {"prune"}}
  BY <1>1
<1> QED BY <1>3, <1>4, <1>5, <1>6, <1>8, <1>9, <1>10, <1>11, <1>12, <1>13 DEF Wanted

LEMMA NeededIsTaken ==
  ASSUME IInv, Room, Prune
  PROVE  NamesOf(new_lock) = Needed(NamesOf(manifest))'
<1>1. pc = "prune" /\ contents' = contents /\ manifest' = manifest
  BY DEF Prune, upstream
<1>2. /\ NamesOf(manifest) \subseteq Wanted
      /\ \A i \in DOMAIN new_lock : NeededBy(i) \subseteq Wanted
      /\ \A C \in SUBSET Names : NamesOf(manifest) \subseteq C /\ ClosedSoFar(C) => Wanted \subseteq C
  BY <1>1 DEF IInv, Whole, Coverage
<1>3. Names' = Names /\ NamesOf(manifest)' = NamesOf(manifest)
  BY <1>1 DEF Names, NamesOf
<1>4. ASSUME NEW i \in DOMAIN new_lock, NEW n, n = new_lock[i].name
      PROVE  DepsOf(n)' = NeededBy(i)
  <2>1. n = queue[i].name /\ modules'[n] = new_lock[i].commit /\ n \in DOMAIN modules' /\ new_lock[i].commit > 0
    BY <1>4, PruneFacts
  <2>2. modules'[n] # 0
    <3>1. new_lock[i] \in Entries(heads)
      BY PruneFacts, ElementOfSeq
    <3>2. new_lock[i].commit \in Nat
      BY <3>1 DEF Entries
    <3> QED BY <2>1, <3>2
  <2>3. DepsOf(n)' = NamesOf(contents[n][modules'[n]].deps)
    BY <1>1, <2>1, <2>2 DEF DepsOf, NamesOf
  <2>4. DepsOf(n)' = NamesOf(contents[n][new_lock[i].commit].deps)
    BY <2>1, <2>3
  <2> QED BY <2>1, <2>4 DEF NeededBy
<1>5. ASSUME NEW C \in SUBSET Names, Closed(C)'
      PROVE  ClosedSoFar(C)
  <2> SUFFICES ASSUME NEW i \in DOMAIN new_lock, queue[i].name \in C PROVE NeededBy(i) \subseteq C
    BY DEF ClosedSoFar
  <2>1. PICK n \in C : n = new_lock[i].name
    BY PruneFacts
  <2>2. DepsOf(n)' \subseteq C
    BY <1>5 DEF Closed
  <2> QED BY <1>4, <2>1, <2>2
<1>6. ASSUME NEW L, L = NamesOf(new_lock)
      PROVE  L = Needed(NamesOf(manifest))'
  <2>1. Needed(NamesOf(manifest))' = {n \in Names : \A C \in SUBSET Names : NamesOf(manifest) \subseteq C /\ Closed(C)' => n \in C}
    BY <1>3 DEF Needed
  <2>2. L = Wanted /\ L \subseteq Names
    BY <1>6, PruneFacts
  <2>3. ASSUME NEW n \in L
        PROVE  DepsOf(n)' \subseteq L
    <3>1. PICK i \in DOMAIN new_lock : n = new_lock[i].name
      BY <1>6 DEF NamesOf
    <3> QED BY <1>2, <1>4, <2>2, <3>1
  <2>4. Closed(L)'
    BY <2>3 DEF Closed
  <2>5. L \subseteq Needed(NamesOf(manifest))'
    BY <1>2, <1>5, <2>1, <2>2
  <2>6. Needed(NamesOf(manifest))' \subseteq L
    BY <1>2, <2>1, <2>2, <2>4
  <2> QED BY <2>5, <2>6
<1> QED BY <1>6

LEMMA PruneInv == IInv /\ Prune => IInv'
<1> SUFFICES ASSUME IInv, Prune PROVE IInv'
  OBVIOUS
<1>1. /\ pc = "prune" /\ pc' = "idle" /\ cmd' = [op |-> "none"] /\ UNCHANGED <<upstream, manifest, legacy, lock>>
      /\ outcome' = IF cmd.op = "update" THEN "updated" ELSE "installed"
      /\ queue' = <<>> /\ at' = 0 /\ pending' = <<>> /\ new_lock' = <<>> /\ conflict' = <<>>
      /\ taken' = new_lock
  BY DEF Prune, End
<1>2. TypeOK /\ PlaceOK /\ RecordsOK
  BY DEF IInv, Sound
<1>3. TypeOK'
  <2>1. ModulesOK(modules', heads) /\ taken' \in Seq(Entries(heads))
    BY <1>1, PruneFacts
  <2>2. Once(queue)' /\ Len(<<>>) = 0 /\ cmd'.op # "add"
    BY <1>1 DEF Once
  <2>3. unnoticed' \subseteq {"save", "prune"}
    BY <1>2, PruneFacts DEF TypeOK
  <2> QED BY <1>1, <1>2, <2>1, <2>2, <2>3 DEF TypeOK, upstream, Names
<1>4. PlaceOK' /\ OwnFirst' /\ Coverage' /\ ConflictOK'
  BY <1>1 DEF PlaceOK, OwnFirst, Coverage, ConflictOK, Succeeded
<1>5. RecordsOK'
  BY <1>1 DEF RecordsOK
<1>6. NamesOf(taken)' = NamesOf(new_lock)
  BY <1>1 DEF NamesOf
<1>7. TakenIsThere'
  <2>1. Once(taken)'
    BY <1>1, PruneFacts DEF Once
  <2>2. \A i \in DOMAIN new_lock : /\ new_lock[i].commit > 0 /\ new_lock[i].name \in DOMAIN modules'
                                  /\ modules'[new_lock[i].name] = new_lock[i].commit
    BY PruneFacts
  <2>3. "prune" \notin unnoticed' => DOMAIN modules' = NamesOf(taken)'
    BY <1>6, PruneFacts
  <2> QED BY <1>1, <2>1, <2>2, <2>3 DEF TakenIsThere
<1>8. LockedIsThere'
  <2>1. "save" \notin unnoticed' => SameEntries' /\ (outcome' = "updated" => lock' = taken')
    <3> SUFFICES ASSUME "save" \notin unnoticed' PROVE SameEntries' /\ (outcome' = "updated" => lock' = taken')
      OBVIOUS
    <3>1. "save" \notin unnoticed
      BY PruneFacts
    <3>2. /\ lock \in Seq(Entries(heads)) /\ Len(lock) = Len(new_lock)
          /\ \A i \in DOMAIN lock : lock[i].name = new_lock[i].name /\ lock[i].commit = new_lock[i].commit
          /\ cmd.op = "update" => lock = new_lock
      BY <1>1, <1>2, <3>1 DEF RecordsOK
    <3>3. DOMAIN lock = DOMAIN new_lock
      BY <3>2, PruneFacts
    <3>4. SameEntries'
      BY <1>1, <3>2, <3>3 DEF SameEntries
    <3> QED BY <1>1, <3>2, <3>4
  <2>2. ASSUME outcome' = "installed", lock' # None, NEW i \in DOMAIN taken', NEW j \in DOMAIN lock',
               lock'[j].name = taken'[i].name
        PROVE  lock'[j].commit \in {taken'[i].commit, 0}
    <3>1. HasLock
      BY <1>1, <2>2 DEF HasLock
    <3>2. Recorded(i)
      BY <1>1, PruneFacts
    <3> QED BY <1>1, <2>2, <3>1, <3>2 DEF Recorded
  <2> QED BY <2>1, <2>2 DEF LockedIsThere
<1>9. Room => NeededIsThere'
  BY <1>6, NeededIsTaken DEF NeededIsThere
<1>10. Room => OwnRequirementsMet'
  <2> SUFFICES ASSUME Room, cmd.op = "update", NEW i \in DOMAIN manifest, manifest[i].req.op # "git"
               PROVE  \E x \in index[manifest[i].name], k \in DOMAIN new_lock :
                        /\ new_lock[k].name = manifest[i].name /\ x.tag = new_lock[k].tag
                        /\ version_matches(x.v, manifest[i].req)
                        /\ \A y \in index[manifest[i].name] :
                             version_matches(y.v, manifest[i].req) => ~compare_versions(y.v, x.v)
    <3>1. index' = index /\ manifest' = manifest /\ taken' = new_lock /\ (outcome' = "updated" => cmd.op = "update")
      BY <1>1 DEF upstream
    <3> QED BY <3>1 DEF OwnRequirementsMet, NewestAllowed
  <2>1. manifest \in Seq(Dependencies(Names, tags)) /\ queue \in Seq(Dependencies(Names, tags))
    BY <1>1, <1>2, DiskOK DEF PlaceOK, ManifestOK, TypeOK
  <2>2. Len(manifest) \in Nat /\ DOMAIN manifest = 1 .. Len(manifest) /\ DOMAIN queue = 1 .. Len(queue) /\ Len(queue) \in Nat
    BY <2>1
  <2>3. ~(Len(queue) < Len(manifest))
    <3>1. Len(pending) = 0
      <4>1. pending = <<>>
        BY <1>1, <1>2 DEF PlaceOK
      <4> QED BY <4>1
    <3>2. Len(queue) < Len(manifest) => Len(manifest) = Len(queue) + Len(pending)
      BY <1>1 DEF OwnFirst, IInv, Whole
    <3>3. Len(manifest) \in Nat /\ Len(queue) \in Nat
      BY <2>2
    <3> QED BY <3>1, <3>2, <3>3
  <2>4. queue[i] = manifest[i] /\ i \in DOMAIN queue
    BY <1>1, <2>2, <2>3 DEF OwnFirst, IInv, Whole
  <2>5. i \in DOMAIN new_lock /\ new_lock[i].name = manifest[i].name /\ Recorded(i)
    BY <2>4, PruneFacts
  <2>6. new_lock[i].tag = resolve_registry_package(manifest[i].name, manifest[i].req) /\ new_lock[i].tag # ""
    <3>1. cmd.op = "update" /\ queue[i].req.op # "git" =>
            new_lock[i].tag = resolve_registry_package(queue[i].name, queue[i].req) /\ new_lock[i].tag # ""
      BY ONLY <2>5 DEF Recorded
    <3>2. queue[i].req.op # "git"
      BY ONLY <2>4, manifest[i].req.op # "git"
    <3>3. new_lock[i].tag = resolve_registry_package(queue[i].name, queue[i].req) /\ new_lock[i].tag # ""
      BY ONLY <3>1, <3>2, cmd.op = "update"
    <3> QED BY ONLY <2>4, <3>3
  <2>7. manifest[i].name \in Names
    <3>1. manifest[i] \in Dependencies(Names, tags)
      BY <2>1, <2>2, ElementOfSeq
    <3> QED BY <3>1 DEF Dependencies
  <2>8. IsFiniteSet(index[manifest[i].name]) /\ \A x \in index[manifest[i].name] : x.v \in Version
    BY <1>2, <2>7, UpstreamFacts
  <2>9. \E x \in index[manifest[i].name] :
          /\ x.tag = new_lock[i].tag /\ version_matches(x.v, manifest[i].req)
          /\ \A y \in index[manifest[i].name] :
               version_matches(y.v, manifest[i].req) => ~compare_versions(y.v, x.v)
    BY <2>6, <2>8, ResolvesToNewest
  <2> QED BY <2>5, <2>9
<1>11. CommandsOK' /\ (Room' <=> Room)
  BY <1>1 DEF CommandsOK, IInv, Sound, Room, RoomFor, upstream, Names
<1> QED BY <1>3, <1>4, <1>5, <1>7, <1>8, <1>9, <1>10, <1>11 DEF IInv, Sound, Whole, TakenIsLocked

(* A push changes no commit that somebody has, and no version.             *)
LEMMA PushedInv == IInv /\ Push => IInv'
<1> SUFFICES ASSUME IInv, Push PROVE IInv'
  OBVIOUS
<1>1. /\ index' = index /\ contents' = contents
      /\ UNCHANGED <<manifest, legacy, lock, modules, pc, cmd, queue, at, pending, new_lock, conflict, outcome, unnoticed, taken>>
  BY DEF Push, disk, resolution, history
<1>2. TypeOK /\ PlaceOK /\ RecordsOK /\ TakenIsLocked /\ ConflictOK
  BY DEF IInv, Sound
<1>3. PICK n \in DOMAIN heads :
        /\ heads[n] < Len(contents[n])
        /\ heads' = [heads EXCEPT ![n] = @ + 1]
        /\ \E t \in DOMAIN tags[n] : tags' = [tags EXCEPT ![n][t] = heads[n] + 1]
  BY DEF Push
<1>4. PICK t \in DOMAIN tags[n] : tags' = [tags EXCEPT ![n][t] = heads[n] + 1]
  BY <1>3
<1>5. /\ DOMAIN tags = Names /\ heads \in [Names -> Nat \ {0}] /\ n \in Names /\ DOMAIN heads = Names
      /\ Names' = Names
  BY <1>1, <1>2 DEF TypeOK, UpstreamOK, Names
<1>6. /\ heads' \in [Names -> Nat \ {0}] /\ \A m \in Names : heads[m] \in Nat /\ heads[m] <= heads'[m]
      /\ heads'[n] = heads[n] + 1 /\ \A m \in Names : m # n => heads'[m] = heads[m]
  BY <1>3, <1>5
<1>7. DOMAIN tags' = Names /\ \A m \in Names : DOMAIN tags'[m] = DOMAIN tags[m]
  BY <1>4, <1>5
<1>8. \A m \in Names : \A u \in DOMAIN tags[m] : tags'[m][u] = IF m = n /\ u = t THEN heads[n] + 1 ELSE tags[m][u]
  BY <1>4, <1>5
<1>9. Dependencies(Names, tags') = Dependencies(Names, tags)
  <2>1. \A d \in [name : Names, req : Requirement] : DOMAIN tags'[d.name] = DOMAIN tags[d.name]
    BY <1>7
  <2> QED BY <2>1 DEF Dependencies
<1>10. Entries(heads) \subseteq Entries(heads')
  <2> SUFFICES ASSUME NEW e \in Entries(heads) PROVE e \in Entries(heads')
    OBVIOUS
  <2>1. e \in [name : Names, tag : STRING, commit : Nat] /\ e.commit <= heads[e.name]
    BY <1>5 DEF Entries
  <2>2. e.name \in Names /\ e.commit \in Nat
    BY <2>1
  <2>3. e.commit <= heads'[e.name]
    <3>1. heads[e.name] \in Nat /\ heads'[e.name] \in Nat /\ heads[e.name] <= heads'[e.name]
      BY <1>6, <2>2
    <3> QED BY <2>1, <2>2, <3>1
  <2>4. DOMAIN heads' = Names
    BY <1>6
  <2> QED BY <2>1, <2>3, <2>4 DEF Entries
<1>11. \A s : s \in Seq(Entries(heads)) => s \in Seq(Entries(heads'))
  BY <1>10, SeqMonotonic
<1>12. UpstreamOK(index, contents, tags', heads')
  <2>1. ASSUME NEW m \in Names
        PROVE  /\ contents[m] \in Seq([deps : Seq(Dependencies(Names, tags)), native : BOOLEAN])
               /\ heads'[m] <= Len(contents[m])
               /\ \A u \in DOMAIN tags'[m] : u \in STRING /\ tags'[m][u] \in 0 .. heads'[m]
               /\ IsFiniteSet(index[m])
               /\ \A x \in index[m] : x.v \in Version /\ x.tag \in DOMAIN tags'[m] \ {""}
    <3>1. /\ contents[m] \in Seq([deps : Seq(Dependencies(Names, tags)), native : BOOLEAN])
          /\ heads[m] <= Len(contents[m])
          /\ \A u \in DOMAIN tags[m] : u \in STRING /\ tags[m][u] \in 0 .. heads[m]
          /\ IsFiniteSet(index[m])
          /\ \A x \in index[m] : x.v \in Version /\ x.tag \in DOMAIN tags[m] \ {""}
      BY <1>2 DEF TypeOK, UpstreamOK, Names
    <3>2. Len(contents[m]) \in Nat
      <4> DEFINE R == [deps : Seq(Dependencies(Names, tags)), native : BOOLEAN]
      <4>1. contents[m] \in Seq(R)
        BY <3>1
      <4> HIDE DEF R
      <4> QED BY <4>1
    <3>3. heads'[m] <= Len(contents[m])
      <4>1. heads[m] <= Len(contents[m])
        BY <3>1
      <4>2. CASE m = n
        BY ONLY <1>3, <1>6, <3>2, <4>2, n \in Names
      <4>3. CASE m # n
        BY <1>6, <4>1, <4>3
      <4> QED BY <4>2, <4>3
    <3>4. \A u \in DOMAIN tags'[m] : u \in STRING /\ tags'[m][u] \in 0 .. heads'[m]
      <4> TAKE u \in DOMAIN tags'[m]
      <4>1. u \in DOMAIN tags[m]
        BY <1>7
      <4>2. u \in STRING
        BY <3>1, <4>1
      <4>7. tags[m][u] \in 0 .. heads[m]
        BY <3>1, <4>1
      <4>3. heads[m] \in Nat /\ heads'[m] \in Nat /\ heads[m] <= heads'[m] /\ (m = n => heads'[m] = heads[n] + 1)
        BY <1>6
      <4>4. tags'[m][u] = IF m = n /\ u = t THEN heads[n] + 1 ELSE tags[m][u]
        BY <1>8, <4>1
      <4>5. CASE m = n /\ u = t
        <5>1. tags'[m][u] = heads'[m]
          BY <4>3, <4>4, <4>5
        <5>2. heads'[m] \in 0 .. heads'[m]
          BY <4>3
        <5>3. tags'[m][u] \in 0 .. heads'[m]
          BY ONLY <5>1, <5>2
        <5> QED BY <4>2, <5>3
      <4>6. CASE ~(m = n /\ u = t)
        <5>1. tags'[m][u] = tags[m][u]
          BY <4>4, <4>6
        <5>2. tags[m][u] \in 0 .. heads'[m]
          BY ONLY <4>3, <4>7
        <5>3. tags'[m][u] \in 0 .. heads'[m]
          BY ONLY <5>1, <5>2
        <5> QED BY <4>2, <5>3
      <4> QED BY <4>5, <4>6
    <3>5. \A x \in index[m] : x.v \in Version /\ x.tag \in DOMAIN tags'[m] \ {""}
      BY <3>1, <1>7
    <3> QED BY <3>1, <3>3, <3>4, <3>5
  <2>2. Names = DOMAIN contents
    BY DEF Names
  <2> QED BY <1>6, <1>7, <1>9, <2>1, <2>2 DEF UpstreamOK
<1>13. LockOK(lock, heads') /\ ModulesOK(modules, heads')
  <2>1. LockOK(lock, heads')
    BY <1>11, DiskOK DEF LockOK
  <2>2. ModulesOK(modules, heads')
    <3>1. /\ DOMAIN modules \subseteq Names /\ modules = [m \in DOMAIN modules |-> modules[m]]
          /\ \A m \in DOMAIN modules : modules[m] \in 0 .. heads[m]
      BY <1>5, DiskOK DEF ModulesOK
    <3>2. DOMAIN heads' = Names
      BY <1>6
    <3>3. ASSUME NEW m \in DOMAIN modules
          PROVE  modules[m] \in 0 .. heads'[m]
      <4>1. modules[m] \in 0 .. heads[m] /\ heads[m] \in Nat /\ heads'[m] \in Nat /\ heads[m] <= heads'[m]
        BY <1>6, <3>1
      <4> QED BY <4>1
    <3> QED BY <3>1, <3>2, <3>3 DEF ModulesOK
  <2> QED BY <2>1, <2>2
<1>14. TypeOK'
  <2>1. ManifestOK(manifest, Names, tags') /\ ManifestOK(legacy, Names, tags')
    BY <1>9, DiskOK DEF ManifestOK
  <2>2. /\ queue \in Seq(Dependencies(Names, tags')) /\ Once(queue) /\ pending \in Seq(Dependencies(Names, tags'))
        /\ new_lock \in Seq(Entries(heads')) /\ taken \in Seq(Entries(heads')) /\ at \in 0 .. Len(queue)
        /\ unnoticed \subseteq {"save", "prune"}
        /\ conflict = <<>> \/ conflict \in Requirement \X Requirement
        /\ cmd.op = "add" => cmd.dep \in Dependencies(Names, tags')
    BY <1>2, <1>9, <1>11 DEF TypeOK
  <2>3. TypeOK' <=> /\ UpstreamOK(index, contents, tags', heads')
                    /\ ManifestOK(manifest, Names, tags') /\ ManifestOK(legacy, Names, tags')
                    /\ LockOK(lock, heads') /\ ModulesOK(modules, heads')
                    /\ queue \in Seq(Dependencies(Names, tags')) /\ Once(queue) /\ pending \in Seq(Dependencies(Names, tags'))
                    /\ new_lock \in Seq(Entries(heads')) /\ taken \in Seq(Entries(heads')) /\ at \in 0 .. Len(queue)
                    /\ unnoticed \subseteq {"save", "prune"}
                    /\ conflict = <<>> \/ conflict \in Requirement \X Requirement
                    /\ cmd.op = "add" => cmd.dep \in Dependencies(Names, tags')
    BY <1>1, <1>5 DEF TypeOK, Names
  <2> QED BY <1>12, <1>13, <2>1, <2>2, <2>3
<1>15. PlaceOK' /\ ConflictOK' /\ TakenIsLocked' /\ (Room => OwnFirst' /\ NeededIsThere' /\ OwnRequirementsMet')
  <2>1. PlaceOK' /\ ConflictOK' /\ (Room => OwnFirst')
    BY <1>1, <1>2 DEF PlaceOK, OwnFirst, ConflictOK, IInv, Whole, Succeeded
  <2>2. TakenIsLocked' /\ (Room => NeededIsThere')
    <3>1. \A x : DepsOf(x)' = DepsOf(x)
      BY <1>1 DEF DepsOf, NamesOf
    <3>2. \A C : Closed(C)' <=> Closed(C)
      BY <3>1 DEF Closed
    <3>3. Needed(NamesOf(manifest))' = Needed(NamesOf(manifest))
      BY <1>1, <1>5, <3>2 DEF Needed, NamesOf
    <3>4. NamesOf(taken)' = NamesOf(taken)
      BY <1>1 DEF NamesOf
    <3>5. TakenIsThere'
      BY <1>1, <1>2, <3>4 DEF TakenIsLocked, Succeeded, TakenIsThere, Once
    <3>6. LockedIsThere'
      BY <1>1, <1>2 DEF TakenIsLocked, Succeeded, LockedIsThere, SameEntries
    <3> QED BY <1>1, <3>3, <3>4, <3>5, <3>6 DEF TakenIsLocked, Succeeded, NeededIsThere, IInv, Whole
  <2>3. Room => OwnRequirementsMet'
    BY <1>1 DEF OwnRequirementsMet, NewestAllowed, IInv, Whole
  <2> QED BY <2>1, <2>2, <2>3
<1>16. RecordsOK'
  <2>1. \A i : Recorded(i)' <=> Recorded(i)
    BY <1>1 DEF Recorded, HasLock, resolve_registry_package
  <2>2. pc = "prune" /\ "save" \notin unnoticed => lock \in Seq(Entries(heads'))
    BY <1>2, <1>11 DEF RecordsOK
  <2> QED BY <1>1, <1>2, <2>1, <2>2 DEF RecordsOK, Once
<1>17. Room => Coverage'
  <2> SUFFICES ASSUME Room PROVE Coverage'
    OBVIOUS
  <2>0. OwnFirst /\ Coverage
    BY DEF IInv, Whole
  <2>1. Wanted' = Wanted /\ NamesOf(manifest)' = NamesOf(manifest)
    BY <1>1 DEF Wanted, NamesOf
  <2>2. \A i : NeededBy(i)' = NeededBy(i)
    BY <1>1 DEF NeededBy, NamesOf
  <2>3. \A C : ClosedSoFar(C)' <=> ClosedSoFar(C)
    BY <1>1, <2>2 DEF ClosedSoFar
  <2> QED BY <1>1, <1>2, <2>0, <1>5, <2>1, <2>2, <2>3 DEF Coverage
<1>18. CommandsOK' /\ (Room' <=> Room)
  BY <1>1, <1>5, <1>9 DEF CommandsOK, IInv, Sound, Room, RoomFor
<1> QED BY <1>14, <1>15, <1>16, <1>17, <1>18 DEF IInv, Sound, Whole

-----------------------------------------------------------------------------
LEMMA InitInv == Init => Sound /\ Whole
<1> SUFFICES ASSUME Init PROVE Sound /\ Whole
  OBVIOUS
<1>1. PICK w \in Worlds : /\ index = w.index /\ contents = w.contents /\ tags = w.tags /\ heads = w.heads
                          /\ manifest = w.manifest /\ legacy = w.legacy /\ lock = w.lock
  BY DEF Init
<1>2. /\ modules = << >> /\ pc = "idle" /\ cmd = [op |-> "none"] /\ outcome = "none"
      /\ queue = <<>> /\ at = 0 /\ pending = <<>> /\ new_lock = <<>> /\ conflict = <<>>
      /\ unnoticed = {} /\ taken = <<>>
  BY DEF Init
<1>3. TypeOK
  <2>1. /\ UpstreamOK(index, contents, tags, heads)
        /\ ManifestOK(manifest, Names, tags) /\ ManifestOK(legacy, Names, tags) /\ LockOK(lock, heads)
    BY <1>1, WorldsAssumption DEF Names
  <2>2. ModulesOK(modules, heads)
    BY <1>2 DEF ModulesOK
  <2>3. Once(queue) /\ Len(<<>>) = 0 /\ cmd.op # "add"
    BY <1>2 DEF Once
  <2> QED BY <1>2, <2>1, <2>2, <2>3 DEF TypeOK
<1>4. PlaceOK /\ RecordsOK /\ OwnFirst /\ Coverage /\ TakenIsLocked /\ NeededIsThere /\ OwnRequirementsMet /\ ConflictOK
  <2>1. PlaceOK /\ OwnFirst /\ Coverage /\ ConflictOK
    BY <1>2 DEF PlaceOK, OwnFirst, Coverage, ConflictOK
  <2>2. RecordsOK
    BY <1>2 DEF RecordsOK
  <2>3. TakenIsLocked /\ NeededIsThere /\ OwnRequirementsMet
    BY <1>2 DEF Succeeded, TakenIsLocked, TakenIsThere, LockedIsThere, NeededIsThere, OwnRequirementsMet
  <2> QED BY <2>1, <2>2, <2>3
<1>5. CommandsOK
  BY <1>1, WorldsAssumption DEF CommandsOK, Names
<1> QED BY <1>3, <1>4, <1>5 DEF Sound, Whole

LEMMA StepInv == IInv /\ [Next]_vars => IInv'
<1> SUFFICES ASSUME IInv, [Next]_vars PROVE IInv'
  OBVIOUS
<1>1. CASE Start
  BY <1>1, StartInv
<1>2. CASE pkg_migrate_manifest \/ RemoveLegacy
  BY <1>2, MigrateInv
<1>3. CASE pkg_add
  BY <1>3, AddInv
<1>4. CASE pkg_remove
  BY <1>4, RemoveInv
<1>5. CASE BeginInstall
  BY <1>5, BeginInv
<1>6. CASE queue_push_from
  BY <1>6, PushInv
<1>7. CASE NextDep
  BY <1>7, NextDepInv
<1>8. CASE restore_locked_dep
  BY <1>8, RestoreInv
<1>9. CASE download_and_extract_git
  BY <1>9, DownloadInv
<1>10. CASE WrongDigest
  BY <1>10, WrongDigestInv
<1>11. CASE constellation_consent
  BY <1>11, ConsentInv
<1>12. CASE Expand
  BY <1>12, ExpandInv
<1>13. CASE lock_save
  BY <1>13, SaveInv
<1>14. CASE Prune
  BY <1>14, PruneInv
<1>15. CASE Crash
  BY <1>15, CrashInv
<1>16. CASE Push
  BY <1>16, PushedInv
<1>17. CASE UNCHANGED vars
  <2>1. /\ UNCHANGED <<index, contents, tags, heads, manifest, legacy, lock, modules, pc, cmd>>
        /\ UNCHANGED <<queue, at, pending, new_lock, conflict, outcome, unnoticed, taken>>
    BY <1>17 DEF vars, upstream, disk, resolution, history
  <2>2. TypeOK' /\ PlaceOK' /\ ConflictOK' /\ (Room => OwnFirst')
    BY <2>1 DEF IInv, Sound, Whole, TypeOK, PlaceOK, OwnFirst, ConflictOK, Names, Once, Succeeded
  <2>3. RecordsOK'
    <3>1. \A i : Recorded(i)' <=> Recorded(i)
      BY <2>1 DEF Recorded, HasLock, resolve_registry_package
    <3> QED BY <2>1, <3>1 DEF RecordsOK, IInv, Sound, Once
  <2>4. Names' = Names /\ NamesOf(manifest)' = NamesOf(manifest) /\ NamesOf(taken)' = NamesOf(taken)
    BY <2>1 DEF Names, NamesOf
  <2>5. Room => Coverage'
    <3>1. Wanted' = Wanted /\ \A i : NeededBy(i)' = NeededBy(i)
      BY <2>1 DEF Wanted, NamesOf, NeededBy
    <3>2. \A C : ClosedSoFar(C)' <=> ClosedSoFar(C)
      BY <2>1, <3>1 DEF ClosedSoFar
    <3> QED BY <2>1, <2>4, <3>1, <3>2 DEF Coverage, IInv, Whole
  <2>6. TakenIsLocked' /\ (Room => NeededIsThere')
    <3>1. \A n : DepsOf(n)' = DepsOf(n)
      BY <2>1 DEF DepsOf, NamesOf
    <3>2. \A C : Closed(C)' <=> Closed(C)
      BY <3>1 DEF Closed
    <3>3. Needed(NamesOf(manifest))' = Needed(NamesOf(manifest))
      BY <2>4, <3>2 DEF Needed
    <3>4. TakenIsThere'
      BY <2>1, <2>4 DEF TakenIsLocked, Succeeded, TakenIsThere, Once, IInv, Sound
    <3>5. LockedIsThere'
      BY <2>1 DEF TakenIsLocked, Succeeded, LockedIsThere, SameEntries, IInv, Sound
    <3> QED BY <2>1, <2>4, <3>3, <3>4, <3>5 DEF TakenIsLocked, Succeeded, NeededIsThere, IInv, Whole
  <2>7. Room => OwnRequirementsMet'
    BY <2>1 DEF OwnRequirementsMet, NewestAllowed, IInv, Whole
  <2>8. CommandsOK' /\ (Room' <=> Room)
    BY <2>1, <2>4 DEF CommandsOK, Room, RoomFor, IInv, Sound
  <2> QED BY <2>2, <2>3, <2>5, <2>6, <2>7, <2>8 DEF IInv, Sound, Whole
<1> QED BY <1>1, <1>2, <1>3, <1>4, <1>5, <1>6, <1>7, <1>8, <1>9, <1>10, <1>11, <1>12, <1>13, <1>14, <1>15, <1>16, <1>17
        DEF Next

LEMMA SpecInv == Spec => []IInv
<1>1. Init => IInv
  BY InitInv DEF IInv
<1>2. IInv /\ [Next]_vars => IInv'
  BY StepInv
<1> QED BY <1>1, <1>2, PTL DEF Spec

(* If there was room at first, there is.                                   *)
LEMMA RoomStays == EnoughRoom => (Spec => []Room)
<1>1. EnoughRoom /\ Init => Room
  BY DEF Init, EnoughRoom, Room
<1>2. Room /\ [Next]_vars => Room'
  <2> SUFFICES ASSUME Room, [Next]_vars PROVE Room'
    OBVIOUS
  <2>1. contents' = contents
    <3>1. CASE Start \/ pkg_migrate_manifest \/ RemoveLegacy \/ pkg_add \/ pkg_remove
      BY <3>1 DEF Start, pkg_migrate_manifest, RemoveLegacy, pkg_add, pkg_remove, upstream
    <3>2. CASE BeginInstall \/ queue_push_from \/ NextDep \/ restore_locked_dep \/ download_and_extract_git
      BY <3>2 DEF BeginInstall, queue_push_from, NextDep, restore_locked_dep, download_and_extract_git, upstream
    <3>3. CASE WrongDigest \/ constellation_consent \/ Expand \/ lock_save \/ Prune \/ Crash \/ Push
      BY <3>3 DEF WrongDigest, constellation_consent, Expand, lock_save, Prune, Crash, Push, upstream
    <3>4. CASE UNCHANGED vars
      BY <3>4 DEF vars, upstream
    <3> QED BY <3>1, <3>2, <3>3, <3>4 DEF Next
  <2> QED BY <2>1 DEF Room, RoomFor
<1> QED BY <1>1, <1>2, PTL DEF Spec

(* What an install that reports success took is in vn_modules, whole and   *)
(* once, and nothing else is unless it could not be removed; the lock file *)
(* says just that unless it could not be saved, and if not, it says        *)
(* nothing else of it unless this was an update.  This whatever failed or  *)
(* was killed before it, and however many packages there are.              *)
THEOREM InstallsAreAsLocked == Spec => []TakenIsLocked
<1>1. IInv => TakenIsLocked
  BY DEF IInv, Sound
<1> QED BY <1>1, SpecInv, PTL

(* And what it took is what the project needs, no more and no less, in any *)
(* repositories that together hold no more packages than the queue does.   *)
THEOREM InstallsAreWhole == EnoughRoom => (Spec => []PackagesInv)
<1>1. IInv /\ Room => PackagesInv
  BY DEF IInv, Sound, Whole, PackagesInv, SuccessIsWhole
<1> QED BY <1>1, SpecInv, RoomStays, PTL

(* Nothing is refused for a conflict that a version could have resolved.   *)
THEOREM RefusedForAReason == Spec => []ConflictsAreReal
<1>1. IInv => ConflictsAreReal
  <2> SUFFICES ASSUME IInv, conflict # <<>>, NEW v \in Versions
               PROVE  ~(version_matches(v, conflict[1]) /\ version_matches(v, conflict[2]))
    BY DEF ConflictsAreReal
  <2>1. conflict \in Requirement \X Requirement /\ Conflicts(conflict[1], conflict[2])
    BY DEF IInv, Sound, TypeOK, ConflictOK
  <2>2. conflict[1] \in Requirement /\ conflict[2] \in Requirement
    BY <2>1
  <2>3. v \in Version
    BY CommandsAssumption
  <2> QED BY <2>1, <2>2, <2>3, ConflictMeansNone
<1> QED BY <1>1, SpecInv, PTL

(* What an update takes for the project's own requirements are the newest  *)
(* versions that they allow, whether or not the lock file could be saved.  *)
THEOREM OwnComeFirst == EnoughRoom => (Spec => []OwnRequirementsMet)
<1>1. IInv /\ Room => OwnRequirementsMet
  BY DEF IInv, Whole
<1> QED BY <1>1, SpecInv, RoomStays, PTL

(* Only an update moves a package that is in the lock file.                *)
THEOREM OnlyUpdatesMove == Spec => LockPins
<1> DEFINE Pins == \A i \in DOMAIN lock, j \in DOMAIN lock' :
                     lock[i].name = lock'[j].name => lock'[j].commit \in {lock[i].commit, 0}
<1>1. IInv /\ [Next]_vars => (lock # None /\ lock' # None /\ cmd.op # "update" => Pins)
  <2> SUFFICES ASSUME IInv, [Next]_vars, lock # None, lock' # None, cmd.op # "update"
               PROVE  Pins
    OBVIOUS
  <2>1. HasLock /\ lock \in Seq(Entries(heads)) /\ Once(lock)
    BY DiskOK DEF HasLock, LockOK
  <2>2. CASE lock' = lock
    <3>1. \A i, j \in DOMAIN lock : lock[i].name = lock[j].name => lock[j].commit \in {lock[i].commit, 0}
      BY <2>1 DEF Once
    <3> QED BY <2>2, <3>1
  <2>3. pc # "prune" =>
          \A i \in DOMAIN lock, j \in DOMAIN new_lock :
            lock[i].name = new_lock[j].name => new_lock[j].commit = lock[i].commit
    <3> SUFFICES ASSUME pc # "prune", NEW i \in DOMAIN lock, NEW j \in DOMAIN new_lock, lock[i].name = new_lock[j].name
                 PROVE  new_lock[j].commit = lock[i].commit
      OBVIOUS
    <3>1. Recorded(j)
      BY DEF IInv, Sound, RecordsOK
    <3> QED BY <2>1, <3>1 DEF Recorded
  <2>4. CASE pc # "prune" /\ lock' = new_lock
    BY <2>3, <2>4
  <2>5. CASE pc # "prune" /\ CutLock
    <3>1. \A j \in DOMAIN lock' : lock'[j].commit = 0 \/ \E i \in DOMAIN new_lock : lock'[j] = new_lock[i]
      BY <2>5, CutLockFacts DEF IInv, Sound
    <3> QED BY <2>3, <2>5, <3>1
  <2>6. lock' = lock \/ (pc # "prune" /\ (lock' = new_lock \/ CutLock))
    <3>1. CASE Crash
      <4>1. Killed
        BY <3>1 DEF Crash
      <4> QED BY <4>1 DEF Killed, disk
    <3>2. CASE lock_save
      BY <3>2 DEF lock_save
    <3>3. CASE Start \/ Push
      BY <3>3 DEF Start, Push, disk
    <3>4. CASE pkg_migrate_manifest \/ RemoveLegacy \/ pkg_add
      BY <3>4 DEF pkg_migrate_manifest, RemoveLegacy, pkg_add, Fail, disk
    <3>5. CASE pkg_remove \/ BeginInstall
      BY <3>5 DEF pkg_remove, BeginInstall, Fail, disk
    <3>6. CASE queue_push_from \/ NextDep
      BY <3>6 DEF queue_push_from, NextDep, Fail, disk
    <3>7. CASE restore_locked_dep \/ download_and_extract_git
      BY <3>7 DEF restore_locked_dep, download_and_extract_git, Fail, FailedUnpacking, Fetched, disk
    <3>8. CASE WrongDigest \/ constellation_consent
      BY <3>8 DEF WrongDigest, constellation_consent, disk
    <3>9. CASE Expand \/ Prune
      BY <3>9 DEF Expand, Prune, disk
    <3>10. CASE UNCHANGED vars
      BY <3>10 DEF vars, disk
    <3> QED BY <3>1, <3>2, <3>3, <3>4, <3>5, <3>6, <3>7, <3>8, <3>9, <3>10 DEF Next
  <2> QED BY <2>2, <2>4, <2>5, <2>6
<1>2. IInv /\ [Next]_vars =>
        [lock # None /\ lock' # None /\ cmd.op # "update" =>
           \A i \in DOMAIN lock, j \in DOMAIN lock' :
             lock[i].name = lock'[j].name => lock'[j].commit \in {lock[i].commit, 0}]_vars
  BY <1>1
<1> QED BY <1>2, SpecInv, PTL DEF Spec, LockPins

-----------------------------------------------------------------------------
(* A sequence, whatever it is of.                                          *)
IsSequence(s) == s \in Seq({s[i] : i \in DOMAIN s})

(* Documents, each in one place.                                           *)
OneCopy(ds) ==
  /\ \A k \in DOMAIN ds : DOMAIN ds[k] = {"uri", "text"}
  /\ \A k, l \in DOMAIN ds : ds[k].uri = ds[l].uri => k = l

(* What the server will have of a file once it read the first n messages   *)
(* is this text, if it has any.                                            *)
IsText(m, u) == m.kind \in {"didOpen", "didChange"} /\ m.uri = u
Knows(ms, n, ds, u, text) ==
  /\ \A i \in 1 .. n : IsText(ms[i], u) /\ (\A j \in i + 1 .. n : ~IsText(ms[j], u)) => ms[i].text = text
  /\ (\A i \in 1 .. n : ~IsText(ms[i], u)) => \A k \in DOMAIN ds : ds[k].uri = u => ds[k].text = text

(* What will be underlined in a file once the editor read its messages.    *)
IsAbout(m, u) == m.kind = "diagnostics" /\ m.uri = u
Shows(ms, u, shown, found) ==
  /\ \A i \in DOMAIN ms : IsAbout(ms[i], u) /\ (\A j \in DOMAIN ms : j > i => ~IsAbout(ms[j], u)) => ms[i].found = found
  /\ (\A i \in DOMAIN ms : ~IsAbout(ms[i], u)) => shown = found

IsAnswer(m) == m.kind \in {"edits", "refused", "nothing"}
IsRename(m) == m.kind = "rename"

SessionShape ==
  /\ IsSequence(inbox) /\ IsSequence(outbox) /\ IsSequence(docs) /\ OneCopy(docs)
  /\ DOMAIN editor = Uris /\ \A u \in Uris : DOMAIN editor[u] = {"open", "text", "shown"}
  /\ \A a, b \in asked : a = b

ServerKnows == \A u \in Uris : editor[u].open => Knows(inbox, Len(inbox), docs, u, editor[u].text)

ScreenFollows ==
  \A u \in Uris : editor[u].open /\ (\A i \in DOMAIN inbox : ~IsText(inbox[i], u)) =>
    Shows(outbox, u, editor[u].shown, Diagnostics(editor[u].text))

OnePending ==
  /\ \A i, j \in DOMAIN inbox : IsRename(inbox[i]) /\ IsRename(inbox[j]) => i = j
  /\ \A i, j \in DOMAIN outbox : IsAnswer(outbox[i]) /\ IsAnswer(outbox[j]) => i = j
  /\ \A i \in DOMAIN inbox, j \in DOMAIN outbox : ~(IsRename(inbox[i]) /\ IsAnswer(outbox[j]))
  /\ \A j \in DOMAIN outbox : IsAnswer(outbox[j]) => asked # {}

RenamesAreAsked ==
  \A i \in DOMAIN inbox : IsRename(inbox[i]) =>
    \E a \in asked : /\ a.uri = inbox[i].uri /\ a.name = inbox[i].name /\ a.new = inbox[i].new
                     /\ Knows(inbox, i - 1, docs, a.uri, a.text)

EditsAreAnswers ==
  \A i \in DOMAIN outbox : outbox[i].kind = "edits" =>
    \E a \in asked : /\ a.uri = outbox[i].uri /\ MayRename(a.text, a.name, a.new)
                     /\ outbox[i].text = Renamed(a.text, a.name, a.new)

SessionInv ==
  SessionShape /\ ServerKnows /\ ScreenFollows /\ OnePending /\ RenamesAreAsked /\ EditsAreAnswers

-----------------------------------------------------------------------------
LEMMA SequenceFacts ==
  ASSUME NEW s, IsSequence(s), NEW m
  PROVE  /\ Len(s) \in Nat /\ DOMAIN s = 1 .. Len(s)
         /\ IsSequence(Append(s, m)) /\ Len(Append(s, m)) = Len(s) + 1
         /\ \A i \in 1 .. Len(s) : Append(s, m)[i] = s[i]
         /\ Append(s, m)[Len(s) + 1] = m
         /\ s # <<>> => /\ IsSequence(Tail(s)) /\ Len(s) >= 1 /\ Len(Tail(s)) = Len(s) - 1
                        /\ Head(s) = s[1]
                        /\ \A i \in 1 .. Len(s) - 1 : Tail(s)[i] = s[i + 1]
<1> DEFINE R == {s[i] : i \in DOMAIN s}
<1>1. s \in Seq(R)
  BY DEF IsSequence
<1>2. Len(s) \in Nat /\ DOMAIN s = 1 .. Len(s)
  BY <1>1
<1>3. /\ Append(s, m) \in Seq(R \cup {m}) /\ Len(Append(s, m)) = Len(s) + 1
      /\ \A i \in 1 .. Len(s) : Append(s, m)[i] = s[i]
      /\ Append(s, m)[Len(s) + 1] = m
  BY <1>1
<1>4. IsSequence(Append(s, m))
  <2> DEFINE t == Append(s, m)
  <2>1. t \in Seq(R \cup {m})
    BY <1>3
  <2> HIDE DEF t
  <2>2. t \in Seq({t[i] : i \in DOMAIN t})
    BY <2>1
  <2> QED BY <2>2 DEF IsSequence, t
<1>5. ASSUME s # <<>>
      PROVE  /\ IsSequence(Tail(s)) /\ Len(s) >= 1 /\ Len(Tail(s)) = Len(s) - 1
             /\ Head(s) = s[1]
             /\ \A i \in 1 .. Len(s) - 1 : Tail(s)[i] = s[i + 1]
  <2>1. Len(s) >= 1
    BY <1>1, <1>2, <1>5
  <2>2. /\ Tail(s) \in Seq(R) /\ Len(Tail(s)) = Len(s) - 1 /\ Head(s) = s[1]
        /\ \A i \in 1 .. Len(s) - 1 : Tail(s)[i] = s[i + 1]
    BY <1>1, <1>5, <2>1, HeadTailProperties
  <2> DEFINE t == Tail(s)
  <2>3. t \in Seq(R)
    BY <2>2
  <2> HIDE DEF t
  <2>4. t \in Seq({t[i] : i \in DOMAIN t})
    BY <2>3
  <2>5. IsSequence(Tail(s))
    BY <2>4 DEF IsSequence, t
  <2> QED BY <2>1, <2>2, <2>5
<1> QED BY <1>2, <1>3, <1>4, <1>5

LEMMA DocPlace ==
  ASSUME NEW ds, IsSequence(ds), OneCopy(ds), NEW u
  PROVE  /\ DocAt(ds, u) \in 0 .. Len(ds)
         /\ DocAt(ds, u) # 0 => ds[DocAt(ds, u)].uri = u
         /\ DocAt(ds, u) = 0 => \A k \in DOMAIN ds : ds[k].uri # u
<1> DEFINE I == {k \in 1 .. Len(ds) : ds[k].uri = u}
<1>1. Len(ds) \in Nat /\ DOMAIN ds = 1 .. Len(ds)
  BY SequenceFacts
<1>2. DocAt(ds, u) = IF I # {} THEN Min(I) ELSE 0
  BY DEF DocAt, SelectInSeq
<1>3. ASSUME NEW k \in I
      PROVE  Min(I) = k
  <2>1. \A j \in I : j = k
    BY <1>1 DEF OneCopy
  <2>2. \E x \in I : \A y \in I : x <= y
    BY <1>1, <2>1
  <2>3. Min(I) \in I
    BY <2>2 DEF Min
  <2> QED BY <2>1, <2>3
<1>4. CASE I = {}
  BY <1>1, <1>2, <1>4
<1>5. CASE I # {}
  <2>1. PICK k \in I : TRUE
    BY <1>5
  <2>2. DocAt(ds, u) = k
    BY <1>2, <1>3, <1>5, <2>1
  <2> QED BY <1>1, <2>1, <2>2
<1> QED BY <1>4, <1>5

(* A document that is told of has the new text if the server keeps it; the *)
(* others stay.                                                            *)
LEMMA DocUpdated ==
  ASSUME NEW ds, IsSequence(ds), OneCopy(ds), NEW u, NEW text
  PROVE  LET new == update_doc(ds, u, text)
         IN /\ IsSequence(new) /\ OneCopy(new)
            /\ \A k \in DOMAIN new : new[k].uri = u => new[k].text = text
            /\ \A k \in DOMAIN new : new[k].uri # u => k \in DOMAIN ds /\ new[k] = ds[k]
<1> DEFINE p == DocAt(ds, u)
           d == [uri |-> u, text |-> text]
<1>1. Len(ds) \in Nat /\ DOMAIN ds = 1 .. Len(ds) /\ p \in 0 .. Len(ds)
  BY SequenceFacts, DocPlace
<1>2. CASE p # 0
  <2> DEFINE new == [ds EXCEPT ![p].text = text]
  <2>1. update_doc(ds, u, text) = new
    BY <1>2 DEF update_doc
  <2>2. p \in DOMAIN ds /\ ds[p].uri = u
    BY <1>1, <1>2, DocPlace
  <2>3. DOMAIN new = DOMAIN ds /\ \A k \in DOMAIN ds : k # p => new[k] = ds[k]
    OBVIOUS
  <2>4. new[p] = [ds[p] EXCEPT !.text = text]
    BY <2>2
  <2>5. ds \in Seq({ds[i] : i \in DOMAIN ds})
    BY DEF IsSequence
  <2>6. new \in Seq({new[i] : i \in DOMAIN new})
    <3>1. DOMAIN new = 1 .. Len(ds)
      BY <1>1, <2>3
    <3> DEFINE S == {new[i] : i \in DOMAIN new}
    <3>2. new = [i \in DOMAIN new |-> new[i]]
      OBVIOUS
    <3>3. \A i \in 1 .. Len(ds) : new[i] \in S
      BY <3>1
    <3> HIDE DEF new, S
    <3>4. new \in [1 .. Len(ds) -> S]
      BY <3>1, <3>2, <3>3
    <3>5. new \in Seq(S)
      BY <1>1, <3>4, SeqDef
    <3> QED BY <3>5 DEF S
  <2>7. DOMAIN new[p] = {"uri", "text"} /\ new[p].uri = u
    BY <2>2, <2>4 DEF OneCopy
  <2>8. new[p].text = text
    BY <2>2, <2>4 DEF OneCopy
  <2>9. \A k \in DOMAIN ds : ds[k].uri = u => k = p
    BY <2>2 DEF OneCopy
  <2>10. \A k \in DOMAIN new : new[k].uri = ds[k].uri
    BY <2>2, <2>3, <2>7
  <2> HIDE DEF new
  <2> QED BY <2>1, <2>2, <2>3, <2>6, <2>7, <2>8, <2>9, <2>10 DEF IsSequence, OneCopy
<1>3. CASE p = 0 /\ Len(ds) < MaxDocs
  <2>1. update_doc(ds, u, text) = Append(ds, d)
    BY <1>3 DEF update_doc
  <2>2. \A k \in DOMAIN ds : ds[k].uri # u
    BY <1>3, DocPlace
  <2> DEFINE new == Append(ds, d)
  <2>3. /\ IsSequence(new) /\ Len(new) = Len(ds) + 1 /\ DOMAIN new = 1 .. Len(ds) + 1
        /\ \A k \in 1 .. Len(ds) : new[k] = ds[k]
        /\ new[Len(ds) + 1] = d
    BY <1>1, SequenceFacts
  <2> HIDE DEF new
  <2>4. \A k \in DOMAIN new : (k \in DOMAIN ds /\ new[k] = ds[k]) \/ (k = Len(ds) + 1 /\ new[k] = d)
    BY <1>1, <2>3
  <2>5. OneCopy(new)
    BY <2>2, <2>4 DEF OneCopy
  <2> QED BY <2>1, <2>2, <2>3, <2>4, <2>5 DEF new
<1>4. CASE p = 0 /\ ~(Len(ds) < MaxDocs)
  <2>1. update_doc(ds, u, text) = ds
    BY <1>4 DEF update_doc
  <2> QED BY <1>4, <2>1, DocPlace
<1> QED BY <1>2, <1>3, <1>4

(* What is read first does not depend on what comes behind.                *)
LEMMA KnowsSame ==
  ASSUME NEW ms, NEW new, NEW n \in Nat, NEW ds, NEW u, NEW text,
         \A i \in 1 .. n : new[i] = ms[i], Knows(ms, n, ds, u, text)
  PROVE  Knows(new, n, ds, u, text)
BY DEF Knows

(* After one more message the server knows its text, or what it knew.      *)
LEMMA KnowsMore ==
  ASSUME NEW ms, NEW n \in Nat, NEW ds, NEW u, NEW text,
         IF IsText(ms[n + 1], u) THEN ms[n + 1].text = text ELSE Knows(ms, n, ds, u, text)
  PROVE  Knows(ms, n + 1, ds, u, text)
<1>1. \A i : i \in 1 .. n + 1 <=> i \in 1 .. n \/ i = n + 1
  OBVIOUS
<1>2. CASE IsText(ms[n + 1], u)
  <2>1. ASSUME NEW i \in 1 .. n + 1, \A j \in i + 1 .. n + 1 : ~IsText(ms[j], u)
        PROVE  i = n + 1
    BY <1>2, <2>1
  <2>2. ~(\A i \in 1 .. n + 1 : ~IsText(ms[i], u))
    BY <1>1, <1>2
  <2> QED BY <1>2, <2>1, <2>2 DEF Knows
<1>3. CASE ~IsText(ms[n + 1], u)
  <2>1. ASSUME NEW i \in 1 .. n + 1, IsText(ms[i], u), \A j \in i + 1 .. n + 1 : ~IsText(ms[j], u)
        PROVE  ms[i].text = text
    <3>1. i \in 1 .. n
      BY <1>1, <1>3, <2>1
    <3>2. \A j \in i + 1 .. n : ~IsText(ms[j], u)
      BY <2>1, <3>1
    <3> QED BY <1>3, <2>1, <3>1, <3>2 DEF Knows
  <2>2. (\A i \in 1 .. n + 1 : ~IsText(ms[i], u)) => \A k \in DOMAIN ds : ds[k].uri = u => ds[k].text = text
    BY <1>1, <1>3 DEF Knows
  <2> QED BY <2>1, <2>2 DEF Knows
<1> QED BY <1>2, <1>3

(* And when the first is read, the document is what it said.               *)
LEMMA KnowsRead ==
  ASSUME NEW ms, IsSequence(ms), NEW n \in Nat, n <= Len(ms), n >= 1, NEW ds, IsSequence(ds), OneCopy(ds),
         NEW u, NEW text, NEW after, Knows(ms, n, ds, u, text),
         after = IF ms[1].kind \in {"didOpen", "didChange"} THEN update_doc(ds, ms[1].uri, ms[1].text) ELSE ds
  PROVE  Knows(Tail(ms), n - 1, after, u, text)
<1> DEFINE t == Tail(ms)
<1>1. Len(ms) \in Nat /\ \A i \in 1 .. Len(ms) - 1 : t[i] = ms[i + 1]
  <2>1. Len(ms) \in Nat /\ DOMAIN ms = 1 .. Len(ms)
    BY SequenceFacts
  <2>2. ms # <<>>
    BY <2>1
  <2> QED BY <2>2, SequenceFacts
<1>2. \A i \in 1 .. n - 1 : i + 1 \in 1 .. n /\ t[i] = ms[i + 1]
  BY <1>1
<1> HIDE DEF t
<1>3. ASSUME NEW i \in 1 .. n - 1, IsText(t[i], u), \A j \in i + 1 .. n - 1 : ~IsText(t[j], u)
      PROVE  t[i].text = text
  <2>1. IsText(ms[i + 1], u)
    BY <1>2, <1>3
  <2>2. ASSUME NEW j \in i + 2 .. n
        PROVE  ~IsText(ms[j], u)
    <3>1. j - 1 \in i + 1 .. n - 1 /\ j - 1 \in 1 .. n - 1 /\ (j - 1) + 1 = j
      OBVIOUS
    <3> QED BY <1>2, <1>3, <3>1
  <2>3. (i + 1) + 1 = i + 2 /\ i + 1 \in 1 .. n
    OBVIOUS
  <2>4. ms[i + 1].text = text
    BY <2>1, <2>2, <2>3 DEF Knows
  <2> QED BY <1>2, <2>4
<1>4. ASSUME \A i \in 1 .. n - 1 : ~IsText(t[i], u), NEW k \in DOMAIN after, after[k].uri = u
      PROVE  after[k].text = text
  <2>1. ASSUME NEW j \in 2 .. n
        PROVE  ~IsText(ms[j], u)
    <3>1. j - 1 \in 1 .. n - 1 /\ (j - 1) + 1 = j
      OBVIOUS
    <3> QED BY <1>2, <1>4, <3>1
  <2>2. CASE IsText(ms[1], u)
    <3>1. ms[1].text = text
      BY <2>1, <2>2 DEF Knows
    <3>2. after = update_doc(ds, u, text)
      BY <2>2, <3>1 DEF IsText
    <3> QED BY <1>4, <3>2, DocUpdated
  <2>3. CASE ~IsText(ms[1], u)
    <3>1. \A i \in 1 .. n : ~IsText(ms[i], u)
      <4>1. \A i \in 1 .. n : i = 1 \/ i \in 2 .. n
        OBVIOUS
      <4> QED BY <2>1, <2>3, <4>1
    <3>2. \A l \in DOMAIN ds : ds[l].uri = u => ds[l].text = text
      BY <3>1 DEF Knows
    <3>3. k \in DOMAIN ds /\ after[k] = ds[k]
      <4>1. CASE ms[1].kind \in {"didOpen", "didChange"}
        <5>1. ms[1].uri # u
          BY <2>3, <4>1 DEF IsText
        <5>2. after = update_doc(ds, ms[1].uri, ms[1].text)
          BY <4>1
        <5> QED BY <1>4, <5>1, <5>2, DocUpdated
      <4>2. CASE ~(ms[1].kind \in {"didOpen", "didChange"})
        BY <4>2
      <4> QED BY <4>1, <4>2
    <3> QED BY <1>4, <3>2, <3>3
  <2> QED BY <2>2, <2>3
<1> QED BY <1>3, <1>4 DEF Knows, t

LEMMA KnowsSent ==
  ASSUME NEW ms, IsSequence(ms), NEW m, NEW ds, NEW u, NEW text,
         IF IsText(m, u) THEN m.text = text ELSE Knows(ms, Len(ms), ds, u, text)
  PROVE  Knows(Append(ms, m), Len(Append(ms, m)), ds, u, text)
<1> DEFINE new == Append(ms, m)
<1>1. /\ Len(ms) \in Nat /\ Len(new) = Len(ms) + 1 /\ new[Len(ms) + 1] = m
      /\ \A i \in 1 .. Len(ms) : new[i] = ms[i]
  BY SequenceFacts
<1> HIDE DEF new
<1>2. ~IsText(m, u) => Knows(new, Len(ms), ds, u, text)
  BY <1>1, KnowsSame
<1>3. Knows(new, Len(ms) + 1, ds, u, text)
  BY <1>1, <1>2, KnowsMore
<1> QED BY <1>1, <1>3 DEF new

(* The screen follows what was published last, and nothing else.           *)
LEMMA ShowsPublished ==
  ASSUME NEW ms, IsSequence(ms), NEW m, NEW u, NEW shown, NEW found,
         IF IsAbout(m, u) THEN m.found = found ELSE Shows(ms, u, shown, found)
  PROVE  Shows(Append(ms, m), u, shown, found)
<1> DEFINE new == Append(ms, m)
           n == Len(ms)
<1>1. /\ n \in Nat /\ DOMAIN ms = 1 .. n /\ Len(new) = n + 1 /\ DOMAIN new = 1 .. n + 1 /\ new[n + 1] = m
      /\ \A i \in 1 .. n : new[i] = ms[i]
  BY SequenceFacts
<1> HIDE DEF new, n
<1>2. \A i : i \in 1 .. n + 1 <=> i \in 1 .. n \/ i = n + 1
  BY <1>1
<1>3. n + 1 \in DOMAIN new /\ \A i \in 1 .. n : n + 1 > i
  BY <1>1
<1>4. CASE IsAbout(m, u)
  <2>1. ASSUME NEW i \in DOMAIN new, \A j \in DOMAIN new : j > i => ~IsAbout(new[j], u)
        PROVE  new[i].found = found
    <3>1. i = n + 1
      BY <1>1, <1>2, <1>3, <1>4, <2>1
    <3> QED BY <1>1, <1>4, <3>1
  <2>2. ~(\A i \in DOMAIN new : ~IsAbout(new[i], u))
    BY <1>1, <1>3, <1>4
  <2> QED BY <2>1, <2>2 DEF Shows, new
<1>5. CASE ~IsAbout(m, u)
  <2>1. ASSUME NEW i \in DOMAIN new, IsAbout(new[i], u), \A j \in DOMAIN new : j > i => ~IsAbout(new[j], u)
        PROVE  new[i].found = found
    <3>1. i \in DOMAIN ms /\ new[i] = ms[i]
      BY <1>1, <1>2, <1>5, <2>1
    <3>2. \A j \in DOMAIN ms : j > i => ~IsAbout(ms[j], u)
      BY <1>1, <1>2, <2>1
    <3> QED BY <1>5, <2>1, <3>1, <3>2 DEF Shows
  <2>2. ASSUME \A i \in DOMAIN new : ~IsAbout(new[i], u)
        PROVE  shown = found
    <3>1. \A i \in DOMAIN ms : ~IsAbout(ms[i], u)
      BY <1>1, <1>2, <2>2
    <3> QED BY <1>5, <3>1 DEF Shows
  <2> QED BY <2>1, <2>2 DEF Shows, new
<1> QED BY <1>4, <1>5

LEMMA ShowsRead ==
  ASSUME NEW ms, IsSequence(ms), ms # <<>>, NEW u, NEW shown, NEW found, Shows(ms, u, shown, found), NEW after,
         after = IF IsAbout(ms[1], u) THEN ms[1].found ELSE shown
  PROVE  Shows(Tail(ms), u, after, found)
<1> DEFINE t == Tail(ms)
           n == Len(ms)
<1>1. /\ n \in Nat /\ n >= 1 /\ DOMAIN ms = 1 .. n /\ DOMAIN t = 1 .. n - 1
      /\ \A i \in 1 .. n - 1 : t[i] = ms[i + 1]
  <2>1. /\ n \in Nat /\ n >= 1 /\ DOMAIN ms = 1 .. n /\ IsSequence(t) /\ Len(t) = n - 1
        /\ \A i \in 1 .. n - 1 : t[i] = ms[i + 1]
    BY SequenceFacts
  <2>2. DOMAIN t = 1 .. Len(t)
    BY <2>1, SequenceFacts
  <2> QED BY <2>1, <2>2
<1> HIDE DEF t, n
<1>2. \A j \in 2 .. n : j - 1 \in 1 .. n - 1 /\ t[j - 1] = ms[j]
  <2>1. \A j \in 2 .. n : j - 1 \in 1 .. n - 1 /\ (j - 1) + 1 = j
    BY <1>1
  <2> QED BY <1>1, <2>1
<1>3. \A j \in 1 .. n : j = 1 \/ j \in 2 .. n
  BY <1>1
<1>4. ASSUME NEW i \in DOMAIN t, IsAbout(t[i], u), \A j \in DOMAIN t : j > i => ~IsAbout(t[j], u)
      PROVE  t[i].found = found
  <2>1. i + 1 \in DOMAIN ms /\ t[i] = ms[i + 1]
    BY <1>1
  <2>2. ASSUME NEW j \in DOMAIN ms, j > i + 1
        PROVE  ~IsAbout(ms[j], u)
    <3>1. j \in 2 .. n /\ j - 1 > i
      BY <1>1, <2>2
    <3> QED BY <1>1, <1>2, <1>4, <3>1
  <2> QED BY <1>4, <2>1, <2>2 DEF Shows
<1>5. ASSUME \A i \in DOMAIN t : ~IsAbout(t[i], u)
      PROVE  after = found
  <2>1. \A j \in 2 .. n : ~IsAbout(ms[j], u)
    BY <1>1, <1>2, <1>5
  <2>2. CASE IsAbout(ms[1], u)
    <3>1. \A j \in DOMAIN ms : j > 1 => ~IsAbout(ms[j], u)
      BY <1>1, <1>3, <2>1
    <3>2. 1 \in DOMAIN ms
      BY <1>1
    <3> QED BY <2>2, <3>1, <3>2 DEF Shows
  <2>3. CASE ~IsAbout(ms[1], u)
    <3>1. \A j \in DOMAIN ms : ~IsAbout(ms[j], u)
      BY <1>1, <1>3, <2>1, <2>3
    <3> QED BY <2>3, <3>1 DEF Shows
  <2> QED BY <2>2, <2>3
<1> QED BY <1>4, <1>5 DEF Shows, t

-----------------------------------------------------------------------------
LEMMA SessionStarts == SessionInit => SessionInv
<1> SUFFICES ASSUME SessionInit PROVE SessionInv
  OBVIOUS
<1> USE DEF SessionInit
<1>1. \A s : s = <<>> => IsSequence(s) /\ DOMAIN s = {}
  BY DEF IsSequence
<1>2. SessionShape
  BY <1>1 DEF SessionShape, OneCopy, NotOpen
<1>3. \A u \in Uris : ~editor[u].open
  BY DEF NotOpen
<1> QED BY <1>1, <1>2, <1>3 DEF SessionInv, ServerKnows, ScreenFollows, OnePending, RenamesAreAsked, EditsAreAnswers

(* One more message of the editor, after which a file is as it was or as   *)
(* the message says.                                                       *)
LEMMA Sent ==
  ASSUME SessionInv, NEW m, inbox' = Append(inbox, m), docs' = docs,
         DOMAIN editor' = Uris, \A u \in Uris : DOMAIN editor'[u] = {"open", "text", "shown"},
         \A u \in Uris : editor'[u].open =>
           IF IsText(m, u) THEN m.text = editor'[u].text
           ELSE editor[u].open /\ editor'[u].text = editor[u].text /\ editor'[u].shown = editor[u].shown
  PROVE  /\ IsSequence(inbox') /\ ServerKnows'
         /\ outbox' = outbox => ScreenFollows'
         /\ \A i \in DOMAIN inbox' : (i \in DOMAIN inbox /\ inbox'[i] = inbox[i])
                                       \/ (i = Len(inbox) + 1 /\ inbox'[i] = m)
         /\ asked' = asked /\ ~IsRename(m) => RenamesAreAsked'
<1> USE DEF SessionInv
<1>1. /\ IsSequence(inbox) /\ Len(inbox) \in Nat /\ DOMAIN inbox = 1 .. Len(inbox)
      /\ IsSequence(inbox') /\ DOMAIN inbox' = 1 .. Len(inbox) + 1 /\ inbox'[Len(inbox) + 1] = m
      /\ \A i \in DOMAIN inbox : i \in DOMAIN inbox' /\ inbox'[i] = inbox[i]
  <2>1. IsSequence(inbox)
    BY DEF SessionShape
  <2>2. IsSequence(inbox') /\ Len(inbox') = Len(inbox) + 1
    BY <2>1, SequenceFacts
  <2> QED BY <2>1, <2>2, SequenceFacts
<1>2. \A i \in DOMAIN inbox' : (i \in DOMAIN inbox /\ inbox'[i] = inbox[i]) \/ (i = Len(inbox) + 1 /\ inbox'[i] = m)
  BY <1>1
<1>3. ServerKnows'
  <2> SUFFICES ASSUME NEW u \in Uris, editor'[u].open
               PROVE  Knows(inbox', Len(inbox'), docs', u, editor'[u].text)
    BY DEF ServerKnows
  <2>1. ~IsText(m, u) => Knows(inbox, Len(inbox), docs, u, editor'[u].text)
    BY DEF ServerKnows
  <2>2. Knows(Append(inbox, m), Len(Append(inbox, m)), docs, u, editor'[u].text)
    BY <1>1, <2>1, KnowsSent
  <2> QED BY <2>2
<1>4. ASSUME outbox' = outbox
      PROVE  ScreenFollows'
  <2> SUFFICES ASSUME NEW u \in Uris, editor'[u].open, \A i \in DOMAIN inbox' : ~IsText(inbox'[i], u)
               PROVE  Shows(outbox', u, editor'[u].shown, Diagnostics(editor'[u].text))
    BY DEF ScreenFollows
  <2>1. ~IsText(m, u) /\ \A i \in DOMAIN inbox : ~IsText(inbox[i], u)
    BY <1>1
  <2> QED BY <1>4, <2>1 DEF ScreenFollows
<1>5. ASSUME asked' = asked, ~IsRename(m)
      PROVE  RenamesAreAsked'
  <2> SUFFICES ASSUME NEW i \in DOMAIN inbox', IsRename(inbox'[i])
               PROVE  \E a \in asked : /\ a.uri = inbox'[i].uri /\ a.name = inbox'[i].name /\ a.new = inbox'[i].new
                                       /\ Knows(inbox', i - 1, docs', a.uri, a.text)
    BY <1>5 DEF RenamesAreAsked
  <2>1. i \in DOMAIN inbox /\ inbox'[i] = inbox[i]
    BY <1>2, <1>5
  <2>2. PICK a \in asked : /\ a.uri = inbox[i].uri /\ a.name = inbox[i].name /\ a.new = inbox[i].new
                           /\ Knows(inbox, i - 1, docs, a.uri, a.text)
    BY <2>1 DEF RenamesAreAsked
  <2>3. i - 1 \in Nat /\ \A j \in 1 .. i - 1 : inbox'[j] = inbox[j]
    BY <1>1, <2>1
  <2> DEFINE n == i - 1
  <2>4. n \in Nat /\ (\A j \in 1 .. n : inbox'[j] = inbox[j]) /\ Knows(inbox, n, docs, a.uri, a.text)
    BY <2>2, <2>3
  <2> HIDE DEF n
  <2>5. Knows(inbox', n, docs, a.uri, a.text)
    BY <2>4, KnowsSame
  <2> QED BY <2>1, <2>2, <2>5 DEF n
<1> QED BY <1>1, <1>2, <1>3, <1>4, <1>5

(* What is left to show of a message that asks for nothing.                *)
LEMMA SentOther ==
  ASSUME SessionInv, NEW m, ~IsRename(m), inbox' = Append(inbox, m),
         docs' = docs, outbox' = outbox, asked' = asked,
         DOMAIN editor' = Uris, \A u \in Uris : DOMAIN editor'[u] = {"open", "text", "shown"},
         \A u \in Uris : editor'[u].open =>
           IF IsText(m, u) THEN m.text = editor'[u].text
           ELSE editor[u].open /\ editor'[u].text = editor[u].text /\ editor'[u].shown = editor[u].shown
  PROVE  SessionInv'
<1>1. /\ IsSequence(inbox') /\ ServerKnows' /\ ScreenFollows' /\ RenamesAreAsked'
      /\ \A i \in DOMAIN inbox' : (i \in DOMAIN inbox /\ inbox'[i] = inbox[i])
                                    \/ (i = Len(inbox) + 1 /\ inbox'[i] = m)
  BY Sent
<1>2. \A i \in DOMAIN inbox' : IsRename(inbox'[i]) => i \in DOMAIN inbox /\ IsRename(inbox[i])
  BY <1>1
<1>3. OnePending'
  BY <1>2 DEF SessionInv, OnePending
<1> QED BY <1>1, <1>3 DEF SessionInv, SessionShape, OneCopy, EditsAreAnswers

LEMMA EditorSends ==
  ASSUME SessionInv, NEW u \in Uris, Open(u) \/ Type(u) \/ Save(u) \/ Close(u)
  PROVE  SessionInv'
<1>1. DOMAIN editor = Uris /\ \A v \in Uris : DOMAIN editor[v] = {"open", "text", "shown"}
  BY DEF SessionInv, SessionShape
<1>2. CASE Open(u)
  <2> DEFINE m == [kind |-> "didOpen", uri |-> u, text |-> files[u]]
             e == [open |-> TRUE, text |-> files[u], shown |-> <<>>]
  <2>1. /\ inbox' = Append(inbox, m) /\ docs' = docs /\ outbox' = outbox /\ asked' = asked
        /\ editor' = [editor EXCEPT ![u] = e]
    BY <1>2 DEF Open, Send
  <2>2. \A v \in Uris : editor'[v] = IF v = u THEN e ELSE editor[v]
    BY <1>1, <2>1
  <2>3. ~IsRename(m) /\ \A v \in Uris : IsText(m, v) <=> v = u
    BY DEF IsRename, IsText
  <2>4. DOMAIN editor' = Uris /\ \A v \in Uris : DOMAIN editor'[v] = {"open", "text", "shown"}
    BY <1>1, <2>1, <2>2
  <2> QED BY <2>1, <2>2, <2>3, <2>4, SentOther
<1>3. CASE Type(u)
  <2>1. PICK text \in TypedTexts :
          /\ editor[u].open /\ Send([kind |-> "didChange", uri |-> u, text |-> text])
          /\ docs' = docs /\ outbox' = outbox /\ asked' = asked
          /\ editor' = [editor EXCEPT ![u].text = text]
    BY <1>3 DEF Type
  <2> DEFINE m == [kind |-> "didChange", uri |-> u, text |-> text]
  <2>2. inbox' = Append(inbox, m)
    BY <2>1 DEF Send
  <2>3. /\ \A v \in Uris : v # u => editor'[v] = editor[v]
        /\ DOMAIN editor'[u] = {"open", "text", "shown"} /\ editor'[u].text = text
    BY <1>1, <2>1
  <2>4. ~IsRename(m) /\ \A v \in Uris : IsText(m, v) <=> v = u
    BY DEF IsRename, IsText
  <2>5. DOMAIN editor' = Uris /\ \A v \in Uris : DOMAIN editor'[v] = {"open", "text", "shown"}
    BY <1>1, <2>1, <2>3
  <2> QED BY <2>1, <2>2, <2>3, <2>4, <2>5, SentOther
<1>4. CASE Save(u)
  <2> DEFINE m == [kind |-> "didSave", uri |-> u]
  <2>1. /\ inbox' = Append(inbox, m) /\ docs' = docs /\ outbox' = outbox /\ asked' = asked
        /\ editor' = editor
    BY <1>4 DEF Save, Send
  <2>2. ~IsRename(m) /\ \A v \in Uris : ~IsText(m, v)
    BY DEF IsRename, IsText
  <2> QED BY <1>1, <2>1, <2>2, SentOther
<1>5. CASE Close(u)
  <2> DEFINE m == [kind |-> "didClose", uri |-> u]
  <2>1. /\ inbox' = Append(inbox, m) /\ docs' = docs /\ outbox' = outbox /\ asked' = asked
        /\ editor' = [editor EXCEPT ![u] = NotOpen]
    BY <1>5 DEF Close, Send
  <2>2. \A v \in Uris : editor'[v] = IF v = u THEN NotOpen ELSE editor[v]
    BY <1>1, <2>1
  <2>3. ~IsRename(m) /\ \A v \in Uris : ~IsText(m, v)
    BY DEF IsRename, IsText
  <2>4. ~NotOpen.open /\ DOMAIN NotOpen = {"open", "text", "shown"}
    BY DEF NotOpen
  <2>5. DOMAIN editor' = Uris /\ \A v \in Uris : DOMAIN editor'[v] = {"open", "text", "shown"}
    BY <1>1, <2>1, <2>2, <2>4
  <2>6. \A v \in Uris : editor'[v].open => v # u /\ editor'[v] = editor[v]
    BY <2>2, <2>4
  <2> QED BY <2>1, <2>3, <2>5, <2>6, SentOther
<1> QED BY <1>2, <1>3, <1>4, <1>5

LEMMA EditorAsks ==
  ASSUME SessionInv, NEW u \in Uris, AskRename(u)
  PROVE  SessionInv'
<1> USE DEF SessionInv
<1>1. PICK name \in Words(editor[u].text), new \in NewNames :
        /\ editor[u].open /\ asked = {} /\ Send([kind |-> "rename", uri |-> u, name |-> name, new |-> new])
        /\ asked' = {[uri |-> u, text |-> editor[u].text, name |-> name, new |-> new]}
        /\ editor' = editor /\ docs' = docs /\ outbox' = outbox
  BY DEF AskRename
<1> DEFINE m == [kind |-> "rename", uri |-> u, name |-> name, new |-> new]
           a == [uri |-> u, text |-> editor[u].text, name |-> name, new |-> new]
<1>2. inbox' = Append(inbox, m)
  BY <1>1 DEF Send
<1>3. \A v \in Uris : ~IsText(m, v)
  BY DEF IsText
<1>4. DOMAIN editor' = Uris /\ \A v \in Uris : DOMAIN editor'[v] = {"open", "text", "shown"}
  BY <1>1 DEF SessionShape
<1>5. \A v \in Uris : editor'[v].open => editor[v].open /\ editor'[v].text = editor[v].text /\ editor'[v].shown = editor[v].shown
  BY <1>1
<1>6. /\ IsSequence(inbox') /\ ServerKnows' /\ ScreenFollows'
      /\ \A i \in DOMAIN inbox' : (i \in DOMAIN inbox /\ inbox'[i] = inbox[i])
                                    \/ (i = Len(inbox) + 1 /\ inbox'[i] = m)
  BY <1>1, <1>2, <1>3, <1>4, <1>5, Sent
<1>7. \A i \in DOMAIN inbox : ~IsRename(inbox[i])
  BY <1>1 DEF RenamesAreAsked
<1>8. \A j \in DOMAIN outbox : ~IsAnswer(outbox[j])
  BY <1>1 DEF OnePending
<1>9. \A i \in DOMAIN inbox' : IsRename(inbox'[i]) => i = Len(inbox) + 1 /\ inbox'[i] = m
  BY <1>6, <1>7
<1>10. SessionShape'
  BY <1>1, <1>4, <1>6 DEF SessionShape, OneCopy
<1>11. OnePending'
  BY <1>1, <1>8, <1>9 DEF OnePending
<1>12. EditsAreAnswers'
  <2>1. \A j \in DOMAIN outbox : outbox[j].kind # "edits"
    BY <1>8 DEF IsAnswer
  <2> QED BY <1>1, <2>1 DEF EditsAreAnswers
<1>13. RenamesAreAsked'
  <2> DEFINE n == Len(inbox)
  <2>1. Knows(inbox, n, docs, u, editor[u].text)
    BY <1>1 DEF ServerKnows
  <2>2. n \in Nat /\ \A j \in 1 .. n : inbox'[j] = inbox[j]
    BY <1>2, SequenceFacts DEF SessionShape
  <2> HIDE DEF n
  <2>3. Knows(inbox', n, docs, u, editor[u].text)
    BY <2>1, <2>2, KnowsSame
  <2>4. (n + 1) - 1 = n
    BY <2>2
  <2>5. \A i \in DOMAIN inbox' : IsRename(inbox'[i]) => i - 1 = n /\ inbox'[i] = m
    BY <1>9, <2>4 DEF n
  <2>6. a \in asked' /\ a.uri = m.uri /\ a.name = m.name /\ a.new = m.new /\ a.uri = u /\ a.text = editor[u].text
    BY <1>1
  <2> QED BY <1>1, <2>3, <2>5, <2>6 DEF RenamesAreAsked
<1> QED BY <1>6, <1>10, <1>11, <1>12, <1>13

-----------------------------------------------------------------------------
(* What the server makes of the message that it reads: the documents, and  *)
(* at most one message of its own.                                         *)
LEMMA ServerReads ==
  ASSUME SessionInv, lsp_main
  PROVE  LET m == inbox[1]
         IN /\ inbox # <<>> /\ inbox' = Tail(inbox)
            /\ UNCHANGED <<editor, asked>>
            /\ docs' = IF m.kind \in {"didOpen", "didChange"} THEN update_doc(docs, m.uri, m.text) ELSE docs
            /\ \/ /\ m.kind \in {"didOpen", "didChange"}
                  /\ outbox' = Append(outbox, [kind |-> "diagnostics", uri |-> m.uri, found |-> Diagnostics(m.text)])
               \/ /\ m.kind = "didSave" /\ DocAt(docs, m.uri) # 0
                  /\ outbox' = Append(outbox, [kind |-> "diagnostics", uri |-> m.uri,
                                               found |-> Diagnostics(docs[DocAt(docs, m.uri)].text)])
               \/ m.kind \in {"didSave", "didClose"} /\ outbox' = outbox
               \/ m.kind = "rename" /\ outbox' = Append(outbox, handle_rename(docs, m))
<1> DEFINE m == inbox[1]
<1>1. inbox # <<>> /\ inbox' = Tail(inbox) /\ UNCHANGED <<editor, asked>>
  BY DEF lsp_main
<1>2. Head(inbox) = m
  BY <1>1, SequenceFacts DEF SessionInv, SessionShape
<1>3. HandleText(m) \/ HandleSave(m) \/ HandleRename(m) \/ Ignore(m)
  BY <1>2 DEF lsp_main
<1> HIDE DEF m
<1>4. CASE HandleText(m)
  BY <1>1, <1>4 DEF HandleText, Publish, m
<1>5. CASE HandleSave(m)
  <2>1. m.kind = "didSave" /\ docs' = docs
    BY <1>5 DEF HandleSave
  <2>2. CASE DocAt(docs, m.uri) = 0
    <3>1. outbox' = outbox
      BY <1>5, <2>2 DEF HandleSave, get_doc
    <3> QED BY <1>1, <2>1, <3>1 DEF m
  <2>3. CASE DocAt(docs, m.uri) # 0
    <3> DEFINE text == docs[DocAt(docs, m.uri)].text
    <3>1. get_doc(docs, m.uri) = <<text>>
      BY <2>3 DEF get_doc
    <3>2. <<text>> # <<>> /\ <<text>>[1] = text
      OBVIOUS
    <3>3. outbox' = Append(outbox, [kind |-> "diagnostics", uri |-> m.uri, found |-> Diagnostics(text)])
      BY <1>5, <3>1, <3>2 DEF HandleSave, Publish
    <3> QED BY <1>1, <2>1, <2>3, <3>3 DEF m
  <2> QED BY <2>2, <2>3
<1>6. CASE HandleRename(m)
  BY <1>1, <1>6 DEF HandleRename, m
<1>7. CASE Ignore(m)
  BY <1>1, <1>7 DEF Ignore, m
<1> QED BY <1>3, <1>4, <1>5, <1>6, <1>7

(* The answer to a rename is about the text that was asked about.          *)
LEMMA RenameAnswered ==
  ASSUME SessionInv, inbox # <<>>, IsRename(inbox[1])
  PROVE  LET r == handle_rename(docs, inbox[1])
         IN /\ IsAnswer(r)
            /\ r.kind = "edits" =>
                 \E a \in asked : /\ a.uri = r.uri /\ MayRename(a.text, a.name, a.new)
                                  /\ r.text = Renamed(a.text, a.name, a.new)
<1> DEFINE m == inbox[1]
           r == handle_rename(docs, m)
           p == DocAt(docs, m.uri)
<1>0. IsSequence(docs) /\ OneCopy(docs)
  BY DEF SessionInv, SessionShape
<1>1. 1 \in DOMAIN inbox
  BY SequenceFacts DEF SessionInv, SessionShape
<1>2. PICK a \in asked : /\ a.uri = m.uri /\ a.name = m.name /\ a.new = m.new
                         /\ Knows(inbox, 1 - 1, docs, a.uri, a.text)
  BY <1>1 DEF SessionInv, RenamesAreAsked
<1>3. \A k \in DOMAIN docs : docs[k].uri = m.uri => docs[k].text = a.text
  <2>1. 1 .. (1 - 1) = {}
    OBVIOUS
  <2> QED BY <1>2, <2>1 DEF Knows
<1>4. CASE p = 0
  <2>1. r = [kind |-> "nothing", uri |-> m.uri]
    BY <1>4 DEF handle_rename, get_doc
  <2> QED BY <2>1 DEF IsAnswer
<1>5. CASE p # 0
  <2>1. p \in DOMAIN docs /\ docs[p].uri = m.uri
    BY <1>0, <1>5, DocPlace, SequenceFacts
  <2>2. docs[p].text = a.text
    BY <1>3, <2>1
  <2>3. get_doc(docs, m.uri) = <<a.text>>
    BY <1>5, <2>2 DEF get_doc
  <2>4. <<a.text>> # <<>> /\ <<a.text>>[1] = a.text
    OBVIOUS
  <2>5. r = IF MayRename(a.text, m.name, m.new)
            THEN [kind |-> "edits", uri |-> m.uri, text |-> Renamed(a.text, m.name, m.new)]
            ELSE [kind |-> "refused", uri |-> m.uri]
    BY <2>3, <2>4 DEF handle_rename
  <2>6. CASE MayRename(a.text, m.name, m.new)
    <3>1. r = [kind |-> "edits", uri |-> m.uri, text |-> Renamed(a.text, m.name, m.new)]
      BY <2>5, <2>6
    <3> HIDE DEF r
    <3>2. r.kind = "edits" /\ r.uri = m.uri /\ r.text = Renamed(a.text, m.name, m.new)
      BY <3>1
    <3>3. IsAnswer(r)
      BY <3>2 DEF IsAnswer
    <3> QED BY <1>2, <2>6, <3>2, <3>3 DEF r
  <2>7. CASE ~MayRename(a.text, m.name, m.new)
    <3>1. r = [kind |-> "refused", uri |-> m.uri]
      BY <2>5, <2>7
    <3> QED BY <3>1 DEF IsAnswer
  <2> QED BY <2>6, <2>7
<1> QED BY <1>4, <1>5

(* A message is added at the end of the server's pipe, or none.            *)
LEMMA Added ==
  ASSUME NEW s, IsSequence(s), NEW t, NEW m, t = Append(s, m)
  PROVE  /\ IsSequence(t) /\ \A j \in DOMAIN s : j \in DOMAIN t /\ t[j] = s[j]
         /\ \A j \in DOMAIN t : (j \in DOMAIN s /\ t[j] = s[j]) \/ (j = Len(s) + 1 /\ t[j] = m)
<1>1. /\ Len(s) \in Nat /\ DOMAIN s = 1 .. Len(s) /\ IsSequence(t) /\ Len(t) = Len(s) + 1
      /\ t[Len(s) + 1] = m /\ \A i \in 1 .. Len(s) : t[i] = s[i]
  BY SequenceFacts
<1>2. DOMAIN t = 1 .. Len(s) + 1
  BY <1>1, SequenceFacts
<1> QED BY <1>1, <1>2

LEMMA ServerStep ==
  ASSUME SessionInv, lsp_main
  PROVE  SessionInv'
<1> DEFINE m == inbox[1]
           n == Len(inbox)
           IsTextMessage == m.kind \in {"didOpen", "didChange"}
           Said(x) == outbox' = Append(outbox, x)
           about(text) == [kind |-> "diagnostics", uri |-> m.uri, found |-> Diagnostics(text)]
           kept == docs[DocAt(docs, m.uri)].text
<1>0. IsSequence(inbox) /\ IsSequence(outbox) /\ IsSequence(docs) /\ OneCopy(docs)
  BY DEF SessionInv, SessionShape
<1>1. /\ inbox # <<>> /\ inbox' = Tail(inbox) /\ editor' = editor /\ asked' = asked
      /\ docs' = IF IsTextMessage THEN update_doc(docs, m.uri, m.text) ELSE docs
      /\ \/ IsTextMessage /\ Said(about(m.text))
         \/ m.kind = "didSave" /\ DocAt(docs, m.uri) # 0 /\ Said(about(kept))
         \/ m.kind \in {"didSave", "didClose"} /\ outbox' = outbox
         \/ m.kind = "rename" /\ Said(handle_rename(docs, m))
  BY ServerReads
<1>2. /\ n \in Nat /\ n >= 1 /\ DOMAIN inbox = 1 .. n /\ IsSequence(inbox') /\ Len(inbox') = n - 1
      /\ DOMAIN inbox' = 1 .. n - 1 /\ \A i \in 1 .. n - 1 : inbox'[i] = inbox[i + 1]
  <2>1. /\ n \in Nat /\ n >= 1 /\ DOMAIN inbox = 1 .. n /\ IsSequence(inbox') /\ Len(inbox') = n - 1
        /\ \A i \in 1 .. n - 1 : inbox'[i] = inbox[i + 1]
    BY <1>0, <1>1, SequenceFacts
  <2> QED BY <2>1, SequenceFacts
<1>3. \A i \in DOMAIN inbox' : i + 1 \in DOMAIN inbox /\ i + 1 # 1 /\ inbox'[i] = inbox[i + 1]
  BY <1>2
<1>4. \A i \in DOMAIN inbox : i # 1 => i - 1 \in DOMAIN inbox' /\ inbox'[i - 1] = inbox[i]
  <2>1. \A i \in DOMAIN inbox : i # 1 => i - 1 \in 1 .. n - 1 /\ (i - 1) + 1 = i
    BY <1>2
  <2> QED BY <1>2, <2>1
<1>5. IsSequence(docs') /\ OneCopy(docs')
  <2>1. CASE IsTextMessage
    BY <1>0, <1>1, <2>1, DocUpdated
  <2>2. CASE ~IsTextMessage
    BY <1>0, <1>1, <2>2
  <2> QED BY <2>1, <2>2
<1>6. IsSequence(outbox')
  <2>1. \A x : Said(x) => IsSequence(outbox')
    BY <1>0, SequenceFacts
  <2> QED BY <1>0, <1>1, <2>1
<1>7. SessionShape'
  BY <1>1, <1>2, <1>5, <1>6 DEF SessionInv, SessionShape
<1>8. ASSUME NEW k \in 1 .. n, NEW u, NEW text, Knows(inbox, k, docs, u, text)
      PROVE  Knows(inbox', k - 1, docs', u, text)
  BY <1>0, <1>1, <1>2, <1>8, KnowsRead
<1>9. ServerKnows'
  <2>1. n \in 1 .. n
    BY <1>2
  <2> QED BY <1>1, <1>2, <1>8, <2>1 DEF SessionInv, ServerKnows
<1>10. RenamesAreAsked'
  <2> SUFFICES ASSUME NEW i \in DOMAIN inbox', IsRename(inbox'[i])
               PROVE  \E a \in asked : /\ a.uri = inbox'[i].uri /\ a.name = inbox'[i].name /\ a.new = inbox'[i].new
                                       /\ Knows(inbox', i - 1, docs', a.uri, a.text)
    BY <1>1 DEF RenamesAreAsked
  <2>1. i + 1 \in DOMAIN inbox /\ inbox'[i] = inbox[i + 1] /\ i \in 1 .. n /\ (i + 1) - 1 = i
    BY <1>2
  <2>2. PICK a \in asked : /\ a.uri = inbox'[i].uri /\ a.name = inbox'[i].name /\ a.new = inbox'[i].new
                           /\ Knows(inbox, i, docs, a.uri, a.text)
    BY <2>1 DEF SessionInv, RenamesAreAsked
  <2>3. Knows(inbox', i - 1, docs', a.uri, a.text)
    BY <1>8, <2>1, <2>2
  <2> QED BY <2>2, <2>3
<1>11. ScreenFollows'
  <2> SUFFICES ASSUME NEW u \in Uris, editor[u].open, \A i \in DOMAIN inbox' : ~IsText(inbox'[i], u)
               PROVE  Shows(outbox', u, editor[u].shown, Diagnostics(editor[u].text))
    BY <1>1 DEF ScreenFollows
  <2> DEFINE text == editor[u].text
  <2>1. Knows(inbox, n, docs, u, text)
    BY DEF SessionInv, ServerKnows
  <2>2. \A i \in DOMAIN inbox : i # 1 => ~IsText(inbox[i], u)
    BY <1>4
  <2>3. CASE IsText(m, u)
    <3>1. m.text = text
      <4>1. 1 \in 1 .. n /\ \A j \in 1 + 1 .. n : j \in DOMAIN inbox /\ j # 1
        BY <1>2
      <4> QED BY <2>1, <2>2, <2>3, <4>1 DEF Knows
    <3>2. m.uri = u /\ IsTextMessage
      BY <2>3 DEF IsText
    <3>3. Said(about(text))
      BY <1>1, <3>1, <3>2
    <3>4. IsAbout(about(text), u) /\ about(text).found = Diagnostics(text)
      BY <3>2 DEF IsAbout
    <3> QED BY <1>0, <3>3, <3>4, ShowsPublished
  <2>4. CASE ~IsText(m, u)
    <3>1. \A i \in DOMAIN inbox : ~IsText(inbox[i], u)
      BY <2>2, <2>4
    <3>2. Shows(outbox, u, editor[u].shown, Diagnostics(text))
      BY <3>1 DEF SessionInv, ScreenFollows
    <3>3. \A k \in DOMAIN docs : docs[k].uri = u => docs[k].text = text
      BY <1>2, <2>1, <3>1 DEF Knows
    <3>4. CASE outbox' = outbox
      BY <3>2, <3>4
    <3>5. CASE IsTextMessage /\ Said(about(m.text))
      <4>1. ~IsAbout(about(m.text), u)
        BY <2>4, <3>5 DEF IsAbout, IsText
      <4> QED BY <1>0, <3>2, <3>5, <4>1, ShowsPublished
    <3>6. CASE m.kind = "didSave" /\ DocAt(docs, m.uri) # 0 /\ Said(about(kept))
      <4>1. DocAt(docs, m.uri) \in DOMAIN docs /\ docs[DocAt(docs, m.uri)].uri = m.uri
        BY <1>0, <3>6, DocPlace, SequenceFacts
      <4>2. IsAbout(about(kept), u) => about(kept).found = Diagnostics(text)
        BY <3>3, <4>1 DEF IsAbout
      <4> QED BY <1>0, <3>2, <3>6, <4>2, ShowsPublished
    <3>7. CASE m.kind = "rename" /\ Said(handle_rename(docs, m))
      <4>1. IsAnswer(handle_rename(docs, m))
        BY <1>1, <3>7, RenameAnswered DEF IsRename
      <4>2. ~IsAbout(handle_rename(docs, m), u)
        BY <4>1 DEF IsAnswer, IsAbout
      <4> QED BY <1>0, <3>2, <3>7, <4>2, ShowsPublished
    <3> QED BY <1>1, <3>4, <3>5, <3>6, <3>7
  <2> QED BY <2>3, <2>4
<1>12. OnePending' /\ EditsAreAnswers'
  <2>1. \A i, j \in DOMAIN inbox' : IsRename(inbox'[i]) /\ IsRename(inbox'[j]) => i = j
    <3>1. \A i, j \in DOMAIN inbox' : IsRename(inbox'[i]) /\ IsRename(inbox'[j]) => i + 1 = j + 1
      BY <1>3 DEF SessionInv, OnePending
    <3>2. \A i, j \in DOMAIN inbox' : i + 1 = j + 1 => i = j
      BY <1>2
    <3> QED BY <3>1, <3>2
  <2>2. CASE ~IsRename(m)
    <3>1. PICK x : ~IsAnswer(x) /\ (outbox' = outbox \/ outbox' = Append(outbox, x))
      <4>1. \A text : ~IsAnswer(about(text))
        BY DEF IsAnswer
      <4>2. CASE IsTextMessage /\ Said(about(m.text))
        BY <4>1, <4>2
      <4>3. CASE m.kind = "didSave" /\ Said(about(kept))
        BY <4>1, <4>3
      <4>4. CASE outbox' = outbox
        BY <4>1, <4>4
      <4> QED BY <1>1, <2>2, <4>2, <4>3, <4>4 DEF IsRename
    <3>2. \A j \in DOMAIN outbox' : IsAnswer(outbox'[j]) => j \in DOMAIN outbox /\ outbox'[j] = outbox[j]
      BY <1>0, <3>1, Added
    <3>3. OnePending'
      BY <1>1, <1>3, <2>1, <3>2 DEF SessionInv, OnePending
    <3>4. EditsAreAnswers'
      BY <1>1, <3>2 DEF SessionInv, EditsAreAnswers, IsAnswer
    <3> QED BY <3>3, <3>4
  <2>3. CASE IsRename(m)
    <3> DEFINE r == handle_rename(docs, m)
    <3>1. /\ IsAnswer(r)
          /\ r.kind = "edits" => \E a \in asked : /\ a.uri = r.uri /\ MayRename(a.text, a.name, a.new)
                                                  /\ r.text = Renamed(a.text, a.name, a.new)
      BY <1>1, <2>3, RenameAnswered
    <3>2. Said(r)
      BY <1>1, <2>3 DEF IsRename
    <3> HIDE DEF r
    <3>3. 1 \in DOMAIN inbox
      BY <1>2
    <3>4. \A j \in DOMAIN outbox : ~IsAnswer(outbox[j])
      BY <2>3, <3>3 DEF SessionInv, OnePending
    <3>5. \A j \in DOMAIN outbox' : (j \in DOMAIN outbox /\ outbox'[j] = outbox[j])
                                      \/ (j = Len(outbox) + 1 /\ outbox'[j] = r)
      BY <1>0, <3>2, Added
    <3>6. \A j \in DOMAIN outbox' : IsAnswer(outbox'[j]) => j = Len(outbox) + 1 /\ outbox'[j] = r
      BY <3>4, <3>5
    <3>7. \A i \in DOMAIN inbox' : ~IsRename(inbox'[i])
      BY <1>3, <2>3, <3>3 DEF SessionInv, OnePending
    <3>8. asked # {}
      BY <2>3, <3>3 DEF SessionInv, RenamesAreAsked
    <3>9. OnePending'
      BY <1>1, <3>6, <3>7, <3>8 DEF OnePending
    <3>10. EditsAreAnswers'
      <4>1. \A j \in DOMAIN outbox' : outbox'[j].kind = "edits" => outbox'[j] = r
        BY <3>6 DEF IsAnswer
      <4> QED BY <1>1, <3>1, <4>1 DEF EditsAreAnswers
    <3> QED BY <3>9, <3>10
  <2> QED BY <2>2, <2>3
<1> QED BY <1>7, <1>9, <1>10, <1>11, <1>12 DEF SessionInv

LEMMA OneRead ==
  ASSUME SessionInv, outbox # <<>>, outbox' = Tail(outbox)
  PROVE  /\ IsSequence(outbox') /\ Head(outbox) = outbox[1] /\ 1 \in DOMAIN outbox
         /\ \A i \in DOMAIN outbox' : i + 1 \in DOMAIN outbox /\ i + 1 # 1 /\ outbox'[i] = outbox[i + 1]
         /\ \A i, j \in DOMAIN outbox' : i + 1 = j + 1 => i = j
<1> DEFINE n == Len(outbox)
<1>1. IsSequence(outbox)
  BY DEF SessionInv, SessionShape
<1>2. /\ n \in Nat /\ n >= 1 /\ DOMAIN outbox = 1 .. n /\ IsSequence(outbox') /\ Len(outbox') = n - 1
      /\ Head(outbox) = outbox[1] /\ \A i \in 1 .. n - 1 : outbox'[i] = outbox[i + 1]
  BY <1>1, SequenceFacts
<1>3. DOMAIN outbox' = 1 .. n - 1
  BY <1>2, SequenceFacts
<1> HIDE DEF n
<1> QED BY <1>2, <1>3

(* When the answer is there, nothing else is asked for.                    *)
LEMMA AnswerRead ==
  ASSUME SessionInv, outbox # <<>>, outbox' = Tail(outbox), IsAnswer(outbox[1]), asked' = {},
         \A i \in DOMAIN inbox' : IsRename(inbox'[i]) => i \in DOMAIN inbox /\ IsRename(inbox[i])
  PROVE  OnePending' /\ RenamesAreAsked' /\ EditsAreAnswers'
<1>1. 1 \in DOMAIN outbox /\ \A j \in DOMAIN outbox' : ~IsAnswer(outbox'[j])
  BY OneRead DEF SessionInv, OnePending
<1>2. \A i \in DOMAIN inbox' : ~IsRename(inbox'[i])
  BY <1>1 DEF SessionInv, OnePending
<1> QED BY <1>1, <1>2 DEF OnePending, RenamesAreAsked, EditsAreAnswers, IsAnswer

LEMMA ReceiveStep ==
  ASSUME SessionInv, Receive
  PROVE  SessionInv'
<1> DEFINE m == outbox[1]
<1>1. outbox # <<>> /\ outbox' = Tail(outbox) /\ docs' = docs
  BY DEF Receive
<1>2. /\ IsSequence(outbox) /\ IsSequence(outbox') /\ Head(outbox) = m /\ 1 \in DOMAIN outbox
      /\ \A i \in DOMAIN outbox' : i + 1 \in DOMAIN outbox /\ i + 1 # 1 /\ outbox'[i] = outbox[i + 1]
      /\ \A i, j \in DOMAIN outbox' : i + 1 = j + 1 => i = j
  BY <1>1, OneRead DEF SessionInv, SessionShape
<1>3. Underline(m) \/ ApplyEdits(m) \/ DropAnswer(m)
  BY <1>2 DEF Receive
<1>4. DOMAIN editor = Uris /\ \A v \in Uris : DOMAIN editor[v] = {"open", "text", "shown"}
  BY DEF SessionInv, SessionShape
<1>5. ASSUME NEW u \in Uris, NEW shown, Shows(outbox, u, editor[u].shown, Diagnostics(editor[u].text)),
             shown = IF IsAbout(m, u) THEN m.found ELSE editor[u].shown
      PROVE  Shows(outbox', u, shown, Diagnostics(editor[u].text))
  BY <1>1, <1>2, <1>5, ShowsRead
<1> HIDE DEF m
<1>6. CASE Underline(m)
  <2>1. /\ m.kind = "diagnostics" /\ editor' = [editor EXCEPT ![m.uri].shown = m.found]
        /\ asked' = asked /\ inbox' = inbox
    BY <1>6 DEF Underline
  <2>2. \A v \in Uris : v # m.uri => editor'[v] = editor[v]
    BY <1>4, <2>1
  <2>3. m.uri \in Uris => /\ DOMAIN editor'[m.uri] = {"open", "text", "shown"}
                          /\ editor'[m.uri].open = editor[m.uri].open
                          /\ editor'[m.uri].text = editor[m.uri].text
                          /\ editor'[m.uri].shown = m.found
    BY <1>4, <2>1
  <2>4. DOMAIN editor' = Uris
    BY <1>4, <2>1
  <2>5. \A v \in Uris : /\ DOMAIN editor'[v] = {"open", "text", "shown"}
                        /\ editor'[v].open = editor[v].open /\ editor'[v].text = editor[v].text
                        /\ editor'[v].shown = IF IsAbout(m, v) THEN m.found ELSE editor[v].shown
    BY <1>4, <2>1, <2>2, <2>3 DEF IsAbout
  <2>6. SessionShape'
    BY <1>1, <1>2, <2>1, <2>4, <2>5 DEF SessionInv, SessionShape, OneCopy
  <2>7. ServerKnows'
    BY <1>1, <2>1, <2>5 DEF SessionInv, ServerKnows
  <2>8. ScreenFollows'
    <3> SUFFICES ASSUME NEW u \in Uris, editor'[u].open, \A i \in DOMAIN inbox' : ~IsText(inbox'[i], u)
                 PROVE  Shows(outbox', u, editor'[u].shown, Diagnostics(editor'[u].text))
      BY DEF ScreenFollows
    <3>1. Shows(outbox, u, editor[u].shown, Diagnostics(editor[u].text))
      BY <2>1, <2>5 DEF SessionInv, ScreenFollows
    <3>2. Shows(outbox', u, editor'[u].shown, Diagnostics(editor[u].text))
      BY <1>5, <2>5, <3>1
    <3> QED BY <2>5, <3>2
  <2>9. OnePending' /\ EditsAreAnswers'
    BY <1>2, <2>1 DEF SessionInv, OnePending, EditsAreAnswers
  <2>10. RenamesAreAsked'
    BY <1>1, <2>1 DEF SessionInv, RenamesAreAsked
  <2> QED BY <2>6, <2>7, <2>8, <2>9, <2>10 DEF SessionInv
<1>7. CASE ApplyEdits(m)
  <2> DEFINE c == [kind |-> "didChange", uri |-> m.uri, text |-> m.text]
  <2>1. /\ m.kind = "edits" /\ editor' = [editor EXCEPT ![m.uri].text = m.text]
        /\ asked' = {} /\ inbox' = Append(inbox, c)
    BY <1>7 DEF ApplyEdits
  <2>2. \A v \in Uris : v # m.uri => editor'[v] = editor[v]
    BY <1>4, <2>1
  <2>3. m.uri \in Uris => /\ DOMAIN editor'[m.uri] = {"open", "text", "shown"}
                          /\ editor'[m.uri].text = m.text
    BY <1>4, <2>1
  <2>4. DOMAIN editor' = Uris /\ \A v \in Uris : DOMAIN editor'[v] = {"open", "text", "shown"}
    BY <1>4, <2>1, <2>2, <2>3
  <2>5. ~IsRename(c) /\ \A v \in Uris : IsText(c, v) <=> v = m.uri
    BY DEF IsRename, IsText
  <2>6. \A v \in Uris : IF IsText(c, v) THEN c.text = editor'[v].text
                        ELSE /\ editor'[v].open = editor[v].open /\ editor'[v].text = editor[v].text
                             /\ editor'[v].shown = editor[v].shown
    BY <2>2, <2>3, <2>5
  <2> HIDE DEF c
  <2>7. /\ IsSequence(inbox') /\ ServerKnows'
        /\ \A i \in DOMAIN inbox' : (i \in DOMAIN inbox /\ inbox'[i] = inbox[i])
                                      \/ (i = Len(inbox) + 1 /\ inbox'[i] = c)
    BY <1>1, <2>1, <2>4, <2>6, Sent
  <2>8. \A i \in DOMAIN inbox : i \in DOMAIN inbox' /\ inbox'[i] = inbox[i]
    BY <2>1, Added DEF SessionInv, SessionShape
  <2>9. \E i \in DOMAIN inbox' : inbox'[i] = c
    <3>1. IsSequence(inbox)
      BY DEF SessionInv, SessionShape
    <3>2. Len(inbox) \in Nat /\ Len(inbox') = Len(inbox) + 1 /\ inbox'[Len(inbox) + 1] = c
      BY <2>1, <3>1, SequenceFacts
    <3>3. DOMAIN inbox' = 1 .. Len(inbox) + 1
      BY <2>7, <3>2, SequenceFacts
    <3> QED BY <3>2, <3>3
  <2>10. SessionShape'
    BY <1>1, <1>2, <2>1, <2>4, <2>7 DEF SessionInv, SessionShape, OneCopy
  <2>11. ScreenFollows'
    <3> SUFFICES ASSUME NEW u \in Uris, editor'[u].open, \A i \in DOMAIN inbox' : ~IsText(inbox'[i], u)
                 PROVE  Shows(outbox', u, editor'[u].shown, Diagnostics(editor'[u].text))
      BY DEF ScreenFollows
    <3>1. ~IsText(c, u) /\ \A i \in DOMAIN inbox : ~IsText(inbox[i], u)
      BY <2>8, <2>9
    <3>2. editor[u].open /\ editor'[u].text = editor[u].text /\ editor'[u].shown = editor[u].shown
      BY <2>6, <3>1
    <3>3. Shows(outbox, u, editor[u].shown, Diagnostics(editor[u].text))
      BY <3>1, <3>2 DEF SessionInv, ScreenFollows
    <3>4. ~IsAbout(m, u)
      BY <2>1 DEF IsAbout
    <3>5. Shows(outbox', u, editor[u].shown, Diagnostics(editor[u].text))
      BY <1>5, <3>3, <3>4
    <3> QED BY <3>2, <3>5
  <2>12. OnePending' /\ RenamesAreAsked' /\ EditsAreAnswers'
    <3>1. IsAnswer(outbox[1])
      BY <2>1 DEF IsAnswer, m
    <3>2. \A i \in DOMAIN inbox' : IsRename(inbox'[i]) => i \in DOMAIN inbox /\ IsRename(inbox[i])
      BY <2>5, <2>7 DEF c
    <3> QED BY <1>1, <2>1, <3>1, <3>2, AnswerRead
  <2> QED BY <2>7, <2>10, <2>11, <2>12 DEF SessionInv
<1>8. CASE DropAnswer(m)
  <2>1. m.kind \in {"edits", "refused", "nothing"} /\ asked' = {} /\ editor' = editor /\ inbox' = inbox
    BY <1>8 DEF DropAnswer
  <2>2. SessionShape'
    BY <1>1, <1>2, <2>1 DEF SessionInv, SessionShape, OneCopy
  <2>3. ServerKnows'
    BY <1>1, <2>1 DEF SessionInv, ServerKnows
  <2>4. ScreenFollows'
    <3>1. \A u \in Uris : ~IsAbout(m, u)
      BY <2>1 DEF IsAbout
    <3>2. \A u \in Uris : Shows(outbox, u, editor[u].shown, Diagnostics(editor[u].text)) =>
                          Shows(outbox', u, editor[u].shown, Diagnostics(editor[u].text))
      BY <1>5, <3>1
    <3> QED BY <2>1, <3>2 DEF SessionInv, ScreenFollows
  <2>5. OnePending' /\ RenamesAreAsked' /\ EditsAreAnswers'
    <3>1. IsAnswer(outbox[1])
      BY <2>1 DEF IsAnswer, m
    <3> QED BY <1>1, <2>1, <3>1, AnswerRead
  <2> QED BY <2>2, <2>3, <2>4, <2>5 DEF SessionInv
<1> QED BY <1>3, <1>6, <1>7, <1>8

LEMMA SessionStays ==
  ASSUME SessionInv, [SessionNext]_sessionVars
  PROVE  SessionInv'
<1>1. CASE UNCHANGED sessionVars
  BY <1>1 DEF sessionVars, SessionInv, SessionShape, OneCopy, ServerKnows, ScreenFollows, OnePending,
              RenamesAreAsked, EditsAreAnswers
<1>2. ASSUME NEW u \in Uris, Run(u)
      PROVE  SessionInv'
  BY <1>2 DEF Run, SessionInv, SessionShape, OneCopy, ServerKnows, ScreenFollows, OnePending,
              RenamesAreAsked, EditsAreAnswers
<1> QED BY <1>1, <1>2, EditorSends, EditorAsks, ServerStep, ReceiveStep DEF SessionNext

(* When neither pipe holds a message, what is underlined in each open file *)
(* is what is wrong with its text: whatever was changed, renamed in,       *)
(* saved, closed, opened again or dropped for want of room in update_doc().*)
THEOREM EditorIsFresh == SessionSpec => []UnderlinesAreFresh
<1>1. SessionInv => UnderlinesAreFresh
  <2> SUFFICES ASSUME SessionInv, inbox = <<>>, outbox = <<>>, NEW u \in Uris, editor[u].open
               PROVE  editor[u].shown = Diagnostics(editor[u].text)
    BY DEF UnderlinesAreFresh, Quiet, OpenFiles
  <2>1. Shows(outbox, u, editor[u].shown, Diagnostics(editor[u].text))
    BY DEF SessionInv, ScreenFollows
  <2> QED BY <2>1 DEF Shows
<1> QED BY SessionStarts, SessionStays, <1>1, PTL DEF SessionSpec

(* The edits that the editor takes are those of handle_rename() for the    *)
(* text that the editor has: nothing that was typed before the answer came *)
(* is lost, and nothing is renamed in an older text.                       *)
THEOREM EditsFitTheText == SessionSpec => EditsAreOfTheText
<1> DEFINE Fit == \A uri \in Uris :
             Receive /\ editor'[uri].text # editor[uri].text =>
               \E a \in asked : /\ a.uri = uri /\ a.text = editor[uri].text
                                /\ MayRename(a.text, a.name, a.new)
                                /\ editor'[uri].text = Renamed(a.text, a.name, a.new)
<1>1. SessionInv /\ [SessionNext]_sessionVars => [Fit]_sessionVars
  <2> SUFFICES ASSUME SessionInv, NEW uri \in Uris, Receive, editor'[uri].text # editor[uri].text
               PROVE  \E a \in asked : /\ a.uri = uri /\ a.text = editor[uri].text
                                       /\ MayRename(a.text, a.name, a.new)
                                       /\ editor'[uri].text = Renamed(a.text, a.name, a.new)
    OBVIOUS
  <2> DEFINE m == outbox[1]
  <2>1. outbox # <<>> /\ outbox' = Tail(outbox)
    BY DEF Receive
  <2>2. Head(outbox) = m /\ 1 \in DOMAIN outbox
    BY <2>1, OneRead
  <2>3. Underline(m) \/ ApplyEdits(m) \/ DropAnswer(m)
    BY <2>2 DEF Receive
  <2>4. DOMAIN editor = Uris /\ \A v \in Uris : DOMAIN editor[v] = {"open", "text", "shown"}
    BY DEF SessionInv, SessionShape
  <2>5. ~Underline(m)
    <3>1. editor' = [editor EXCEPT ![m.uri].shown = m.found] => editor'[uri].text = editor[uri].text
      BY <2>4
    <3> QED BY <3>1 DEF Underline
  <2>6. ~DropAnswer(m)
    BY DEF DropAnswer
  <2>7. /\ m.kind = "edits" /\ editor' = [editor EXCEPT ![m.uri].text = m.text]
        /\ \E b \in asked : editor[m.uri].text = b.text
    BY <2>3, <2>5, <2>6 DEF ApplyEdits, Untouched
  <2>8. m.uri = uri /\ editor'[uri].text = m.text
    BY <2>4, <2>7
  <2>9. PICK a \in asked : /\ a.uri = m.uri /\ MayRename(a.text, a.name, a.new)
                           /\ m.text = Renamed(a.text, a.name, a.new)
    BY <2>2, <2>7 DEF SessionInv, EditsAreAnswers
  <2>10. editor[uri].text = a.text
    BY <2>7, <2>8, <2>9 DEF SessionInv, SessionShape
  <2> QED BY <2>8, <2>9, <2>10
<1> QED BY SessionStarts, SessionStays, <1>1, PTL DEF SessionSpec, EditsAreOfTheText
=============================================================================
