------------------------- MODULE SourceReleaseProofs -------------------------
(* What the verifier of a source release can rely on, for any number of    *)
(* builders, commits and changes: it accepts what one build wrote and      *)
(* nothing else, and the evidence in it was made for that very commit.     *)
EXTENDS SourceRelease, TLAPS

-----------------------------------------------------------------------------
(* The six files                                                           *)

Kinds == Initial \cup {"provenance"}

LEMMA NamesDiffer ==
  /\ \A k, k2, v, v2 : Name(k, v) = Name(k2, v2) <=> k = k2 /\ v = v2
  /\ \A v : \A k \in Kinds : Name(k, v) # Sums
  /\ \A k, v : Name(k, v)[1] = k
BY DEF Name, Sums, Kinds, Initial

LEMMA DocumentsDiffer ==
  ASSUME NEW k, NEW c, NEW l, NEW h
  PROVE  /\ Doc(k, c, l, h).kind = k /\ Doc(k, c, l, h).commit = c
         /\ Doc(k, c, l, h).lock = l /\ Doc(k, c, l, h).holds = h
         /\ Partial.kind = "partial" /\ NoFile.kind = "none"
BY DEF Doc, Partial, NoFile

\* The hashes of the files of f that have the names N.
Named(N, f) == {<<n, f[n]>> : n \in N}

LEMMA NamedFiles ==
  ASSUME NEW N, NEW f
  PROVE  /\ {h[1] : h \in Named(N, f)} = N
         /\ \A d : (\A h \in Named(N, f) : d[h[1]] = h[2]) <=> \A n \in N : d[n] = f[n]
         /\ \A g : (\A n \in N : f[n] = g[n]) => Named(N, f) = Named(N, g)
<1>1. \A n \in N : <<n, f[n]>> \in Named(N, f)
  BY DEF Named
<1>2. \A h \in Named(N, f) : h[1] \in N /\ h[2] = f[h[1]]
  BY DEF Named
<1>3. {h[1] : h \in Named(N, f)} = N
  <2>1. ASSUME NEW n \in N PROVE n \in {h[1] : h \in Named(N, f)}
    <3>1. <<n, f[n]>> \in Named(N, f) /\ <<n, f[n]>>[1] = n
      BY <1>1
    <3>2. QED
      BY <3>1
  <2>2. ASSUME NEW n \in {h[1] : h \in Named(N, f)} PROVE n \in N
    BY <1>2
  <2>3. QED
    BY <2>1, <2>2
<1>4. \A d : (\A h \in Named(N, f) : d[h[1]] = h[2]) <=> \A n \in N : d[n] = f[n]
  BY <1>1, <1>2
<1>5. ASSUME NEW g, \A n \in N : f[n] = g[n] PROVE Named(N, f) = Named(N, g)
  BY <1>5 DEF Named
<1>6. QED
  BY <1>3, <1>4, <1>5

\* The names of the first four files, and of the five that are listed.
First(v) == {Name(k, v) : k \in Initial}

LEMMA NamesOfFiles ==
  ASSUME NEW v
  PROVE  /\ First(v) \subseteq Listed(v) /\ Sums \notin Listed(v)
         /\ \A k \in Kinds : Name(k, v) \in Listed(v)
         /\ \A k \in Initial : Name(k, v) \in First(v)
         /\ Name("provenance", v) \in Listed(v) \ First(v)
         /\ Listed(v) = First(v) \cup {Name("provenance", v)}
BY NamesDiffer DEF First, Listed, Kinds, Initial

\* What a build consists of.
IsBuild(R, c, l, ar) ==
  LET v == c.version
  IN /\ DOMAIN R = Listed(v) \cup {Sums} /\ R = [n \in DOMAIN R |-> R[n]]
     /\ R[Name("archive", v)] = ar
     /\ R[Name("gates", v)] = Gates(c)
     /\ R[Name("cdx", v)] = Doc("cdx", c, l, {})
     /\ R[Name("spdx", v)] = Doc("spdx", c, l, {})
     /\ R[Name("provenance", v)] = Doc("provenance", c, NoLock, Named(First(v), R))
     /\ R[Sums] = Doc("sums", c, NoLock, Named(Listed(v), R))

LEMMA ReleaseFiles ==
  ASSUME NEW c, NEW l, NEW ar
  PROVE  IsBuild(Release(c, l, ar), c, l, ar)
<1> DEFINE v == c.version
           R == Release(c, l, ar)
           I == InitialFiles(c, l, ar)
           P == Name("provenance", v)
           L == Written(I, P, Provenance(c, I))
<1>1. /\ DOMAIN I = First(v)
      /\ I[Name("archive", v)] = ar /\ I[Name("gates", v)] = Gates(c)
      /\ I[Name("cdx", v)] = Doc("cdx", c, l, {})
      /\ I[Name("spdx", v)] = Doc("spdx", c, l, {})
  <2>1. /\ I = [n \in First(v) |-> CASE n[1] = "archive" -> ar
                                     [] n[1] = "gates" -> Gates(c)
                                     [] OTHER -> Doc(n[1], c, l, {})]
        /\ \A k \in Initial : Name(k, v) \in First(v)
    BY NamesOfFiles DEF InitialFiles, First
  <2>2. \A k : Name(k, v)[1] = k
    BY NamesDiffer
  <2> HIDE DEF I
  <2>3. QED
    BY <2>1, <2>2 DEF Initial
<1>2. R = Written(L, Sums, Doc("sums", c, NoLock, Hashes(L)))
  BY DEF Release
<1> HIDE DEF I
<1>3. /\ DOMAIN L = Listed(v)
      /\ \A n \in First(v) : L[n] = I[n]
      /\ L[P] = Provenance(c, I)
  <2>1. P \notin First(v) /\ Listed(v) = First(v) \cup {P}
    BY NamesOfFiles
  <2>2. /\ DOMAIN L = DOMAIN I \cup {P} /\ L[P] = Provenance(c, I)
        /\ \A m \in DOMAIN I : m # P => L[m] = I[m]
    BY DEF Written
  <2>3. QED
    BY <1>1, <2>1, <2>2
<1> HIDE DEF L, R
<1>4. /\ DOMAIN R = Listed(v) \cup {Sums} /\ R = [n \in DOMAIN R |-> R[n]]
      /\ R[Sums] = Doc("sums", c, NoLock, Hashes(L))
      /\ \A n \in Listed(v) : R[n] = L[n]
  <2> DEFINE S == Doc("sums", c, NoLock, Hashes(L))
             W == Written(L, Sums, S)
  <2>1. /\ DOMAIN W = DOMAIN L \cup {Sums} /\ W[Sums] = S
        /\ \A m \in DOMAIN L : m # Sums => W[m] = L[m]
        /\ W = [n \in DOMAIN W |-> W[n]]
    BY DEF Written
  <2>2. R = W /\ Sums \notin Listed(v)
    BY <1>2, NamesOfFiles
  <2>3. QED
    BY <1>3, <2>1, <2>2
<1>5. Hashes(L) = Named(Listed(v), R)
  <2>1. Hashes(L) = Named(Listed(v), L)
    BY <1>3 DEF Hashes, Named
  <2>2. QED
    BY <1>4, <2>1, NamedFiles
<1>6. Hashes(I) = Named(First(v), R)
  <2>1. Hashes(I) = Named(First(v), I)
    BY <1>1 DEF Hashes, Named
  <2>2. \A n \in First(v) : I[n] = R[n]
    BY <1>3, <1>4, NamesOfFiles
  <2>3. QED
    BY <2>1, <2>2, NamedFiles
<1>7. R[P] = Doc("provenance", c, NoLock, Hashes(I))
  BY <1>3, <1>4, NamesOfFiles DEF Provenance, Kinds
<1>8. \A k \in Initial : R[Name(k, v)] = I[Name(k, v)]
  BY <1>3, <1>4, NamesOfFiles
<1>9. QED
  <2>1. IsBuild(R, c, l, ar)
    BY <1>1, <1>4, <1>5, <1>6, <1>7, <1>8 DEF Initial, IsBuild
  <2>2. QED
    BY <2>1 DEF R

\* What the manifest and the evidence say leaves one build.
LEMMA OneRelease ==
  ASSUME NEW d, NEW c, NEW bc, NEW l, NEW ar,
         d = [n \in DOMAIN d |-> d[n]],
         ManifestHolds(d, c.version), d[Name("archive", c.version)] = Archive(c),
         d[Name("gates", c.version)] = Gates(c),
         d[Sums] = Release(bc, l, ar)[Sums]
  PROVE  bc = c /\ d = Release(c, l, Archive(c))
<1> DEFINE v == c.version
           w == bc.version
           R == Release(bc, l, ar)
<1>1. /\ DOMAIN R = Listed(w) \cup {Sums} /\ R = [n \in DOMAIN R |-> R[n]]
      /\ R[Name("archive", w)] = ar /\ R[Name("gates", w)] = Gates(bc)
      /\ d[Sums] = Doc("sums", bc, NoLock, Named(Listed(w), R))
  <2>1. IsBuild(R, bc, l, ar) /\ d[Sums] = R[Sums]
    BY ReleaseFiles
  <2> HIDE DEF R
  <2>2. QED
    BY <2>1 DEF IsBuild
<1>2. d[Sums].holds = Named(Listed(w), R)
  BY <1>1, DocumentsDiffer
<1>3. /\ {h[1] : h \in d[Sums].holds} = Listed(v)
      /\ DOMAIN d = Listed(v) \cup {Sums}
      /\ \A h \in d[Sums].holds : d[h[1]] = h[2]
  BY DEF ManifestHolds
<1> HIDE DEF R
<1>4. Listed(w) = Listed(v) /\ \A n \in Listed(v) : d[n] = R[n]
  <2> DEFINE H == Named(Listed(w), R)
  <2>1. /\ {h[1] : h \in H} = Listed(w)
        /\ (\A h \in H : d[h[1]] = h[2]) <=> \A n \in Listed(w) : d[n] = R[n]
    BY NamedFiles
  <2>2. H = d[Sums].holds
    BY <1>2
  <2> HIDE DEF H
  <2>3. QED
    BY <1>3, <2>1, <2>2
<1>5. w = v
  <2>1. Name("gates", v) \in Listed(w)
    BY <1>4, NamesOfFiles DEF Kinds, Initial
  <2>2. QED
    BY <2>1, NamesDiffer DEF Listed
<1>6. Gates(c) = Gates(bc) /\ Archive(c) = ar
  BY <1>1, <1>4, <1>5, NamesOfFiles DEF Kinds, Initial
<1>7. bc = c
  BY <1>6, DocumentsDiffer DEF Gates
<1>8. d[Sums] = R[Sums]
  BY DEF R
<1>9. d = R
  BY <1>1, <1>3, <1>4, <1>5, <1>8
<1>10. QED
  BY <1>6, <1>7, <1>9 DEF R

\* What a build of the commit checked out wrote is accepted.
LEMMA ReleaseIsAccepted ==
  ASSUME NEW c, NEW l, NEW d, NEW t, NEW R,
         t.head = c, t.version = c.version, c.allowed, R = Release(c, l, Archive(c)),
         DOMAIN d = Listed(c.version) \cup {Sums},
         \A n \in DOMAIN d : d[n] = R[n]
  PROVE  Verifies(t, d)
<1> DEFINE v == c.version
<1>1. /\ \A k \in Kinds : d[Name(k, v)] = R[Name(k, v)]
      /\ \A n \in First(v) : d[n] = R[n]
      /\ \A n \in Listed(v) : d[n] = R[n]
      /\ d[Sums] = R[Sums]
  BY NamesOfFiles
<1>2. /\ d[Sums] = Doc("sums", c, NoLock, Named(Listed(v), d))
      /\ d[Name("provenance", v)] = Doc("provenance", c, NoLock, Named(First(v), d))
  <2>1. Named(Listed(v), d) = Named(Listed(v), R) /\ Named(First(v), d) = Named(First(v), R)
    BY <1>1, NamedFiles
  <2>2. /\ R[Sums] = Doc("sums", c, NoLock, Named(Listed(v), R))
        /\ R[Name("provenance", v)] = Doc("provenance", c, NoLock, Named(First(v), R))
    BY ReleaseFiles DEF IsBuild
  <2>3. QED
    BY <1>1, <2>1, <2>2 DEF Kinds
<1>3. ManifestHolds(d, v)
  <2>1. d[Sums].holds = Named(Listed(v), d) /\ d[Sums] # Partial
    BY <1>2, DocumentsDiffer
  <2>2. {h[1] : h \in d[Sums].holds} = Listed(v)
    BY <2>1, NamedFiles
  <2>3. \A h \in d[Sums].holds : d[h[1]] = h[2]
    BY <2>1, NamedFiles
  <2>4. QED
    BY <2>1, <2>2, <2>3 DEF ManifestHolds
<1>4. /\ R[Name("archive", v)] = Archive(c) /\ R[Name("gates", v)] = Gates(c)
      /\ R[Name("cdx", v)] = Doc("cdx", c, l, {})
      /\ R[Name("spdx", v)] = Doc("spdx", c, l, {})
  BY ReleaseFiles DEF IsBuild
<1>5. ArchiveHolds(d, c) /\ d[Name("gates", v)] = Gates(c)
  BY <1>1, <1>4 DEF ArchiveHolds, Kinds, Initial
<1>6. ListsHold(d, v)
  <2>1. d[Name("cdx", v)] = Doc("cdx", c, l, {}) /\ d[Name("spdx", v)] = Doc("spdx", c, l, {})
    BY <1>1, <1>4 DEF Kinds, Initial
  <2>2. QED
    BY <2>1, DocumentsDiffer DEF ListsHold
<1>7. ProvenanceHolds(d, c)
  <2>1. Named(First(v), d) = {<<Name(k, v), d[Name(k, v)]>> : k \in Initial}
    BY DEF Named, First
  <2>2. QED
    BY <1>2, <2>1, DocumentsDiffer DEF ProvenanceHolds
<1>8. QED
  BY <1>3, <1>5, <1>6, <1>7 DEF Verifies, ContextOf

-----------------------------------------------------------------------------
(* The invariant                                                           *)

Steps   == {"cdx", "spdx", "gates", "provenance", "sums"}
Reading == {"begun", "empty", "archiving", "archived"}
Places  == {"idle"} \cup Reading \cup Steps \cup Over

Archives == {Partial} \cup {Archive(c) : c \in Commits}
Releases == {Release(c, l, ar) : c \in Commits, l \in Locks, ar \in Archives}

Types ==
  /\ tree \in [head : Commits, version : Versions, lock : Locks, dirty : BOOLEAN]
  /\ attested \subseteq Commits
  /\ evidence \in {NoFile, Partial} \cup {Gates(c) : c \in Commits}
  /\ hands \subseteq Builder \cup {"damage"}
  /\ pc \in [Builder -> Places]
  /\ build \in [Builder -> [commit : Commits, quiet : BOOLEAN,
                            files : {<<>>} \cup Releases]]
  /\ dir = [n \in DOMAIN dir |-> dir[n]]

\* A tree nobody edited is its commit's; evidence was made for its commit.
Sources ==
  /\ ~tree.dirty => tree = Clean(tree.head)
  /\ \A c \in Commits : evidence = Gates(c) => c \in attested

\* What a builder knows at each place.
Builds(b) ==
  /\ pc[b] # "idle" => build[b].commit \in attested /\ build[b].commit.allowed
  /\ pc[b] \in Reading /\ build[b].quiet => tree = Clean(build[b].commit)
  /\ pc[b] \in {"idle", "begun", "empty"} => b \notin hands
  /\ pc[b] \in {"archiving", "archived"} \cup Steps => b \in hands
  /\ pc[b] \in {"archiving", "archived"} => MyArchive(b) \in DOMAIN dir
  /\ pc[b] \in Steps \cup {"done"} =>
       \E l \in Locks, ar \in Archives :
         /\ build[b].files = Release(build[b].commit, l, ar)
         /\ build[b].quiet => l = build[b].commit.lock

\* What a directory holds, whoever wrote there: its manifest is the last
\* file of a build that was finished.
Kept ==
  /\ \A n \in DOMAIN dir : n[1] = "archive" => dir[n] \in Archives
  /\ \A n \in DOMAIN dir, c \in Commits : n[1] = "gates" /\ dir[n] = Gates(c) => c \in attested
  /\ Sums \in DOMAIN dir /\ dir[Sums] # Partial =>
       \E b \in hands \cap Builder : pc[b] = "done" /\ dir[Sums] = build[b].files[Sums]

\* The files a builder has written when it is at a place.
WrittenAt(place, v) ==
  IF place = "done" THEN Listed(v) \cup {Sums}
  ELSE {Name(k, v) : k \in
     CASE place = "spdx" -> {"archive", "cdx"}
       [] place = "gates" -> {"archive", "cdx", "spdx"}
       [] place = "provenance" -> Initial
       [] place = "sums" -> Kinds
       [] OTHER -> {"archive"}}

\* Where one builder alone wrote there is its build so far, and nothing else.
Alone(b) ==
  hands = {b} =>
    /\ pc[b] \in {"archiving", "archived", "done"} \cup Steps =>
         DOMAIN dir = WrittenAt(pc[b], build[b].commit.version)
    /\ pc[b] = "archived" => dir[MyArchive(b)] = Archive(build[b].commit)
    /\ pc[b] \in Steps \cup {"done"} =>
         /\ \E l \in Locks :
              build[b].files = Release(build[b].commit, l, Archive(build[b].commit))
         /\ \A n \in DOMAIN dir : dir[n] = build[b].files[n]

Untouched == hands = {} => DOMAIN dir = {}

RInv == /\ Types /\ Sources /\ Kept /\ Untouched
        /\ \A b \in Builder : Builds(b) /\ Alone(b)

\* What Put does, and what a builder's step does to its place.
LEMMA PutFile ==
  ASSUME NEW n, NEW x, Put(n, x)
  PROVE  /\ DOMAIN dir' = DOMAIN dir \cup {n}
         /\ dir'[n] = x
         /\ \A m \in DOMAIN dir : m # n => dir'[m] = dir[m]
         /\ dir' = [m \in DOMAIN dir' |-> dir'[m]]
BY DEF Put, Written

LEMMA Moves ==
  ASSUME NEW b \in Builder, NEW place \in Places, Types, GoTo(b, place)
  PROVE  /\ pc' \in [Builder -> Places] /\ pc'[b] = place
         /\ \A a \in Builder : a # b => pc'[a] = pc[a]
BY DEF Types, GoTo

\* The file a builder writes at each step.
LEMMA FileOfStep ==
  ASSUME NEW k \in 1..5, NEW v
  PROVE  LET n == Order(v)[k]
             next == IF k = 5 THEN "done" ELSE Step(k + 1)
         IN /\ Step(k) \in Steps /\ next \in Steps \cup {"done"}
            /\ next = "done" <=> n = Sums
            /\ Step(k) = "sums" <=> n = Sums
            /\ n[1] = Step(k) /\ n \in Listed(v) \cup {Sums}
            /\ n # Sums => n = Name(Step(k), v)
            /\ WrittenAt(next, v) = WrittenAt(Step(k), v) \cup {n}
<1> DEFINE n == Order(v)[k]
           next == IF k = 5 THEN "done" ELSE Step(k + 1)
<1>1. k \in {1, 2, 3, 4, 5}
  OBVIOUS
<1>2. CASE k = 1
  <2>1. Step(k) = "cdx" /\ next = "spdx" /\ n = Name("cdx", v)
    BY <1>2 DEF Step, Order
  <2>2. n[1] = "cdx" /\ n # Sums /\ n \in Listed(v)
    BY <2>1, NamesDiffer, NamesOfFiles DEF Kinds, Initial
  <2>3. WrittenAt(next, v) = WrittenAt(Step(k), v) \cup {n}
    BY <2>1 DEF WrittenAt
  <2>4. QED
    BY <2>1, <2>2, <2>3 DEF Steps
<1>3. CASE k = 2
  <2>1. Step(k) = "spdx" /\ next = "gates" /\ n = Name("spdx", v)
    BY <1>3 DEF Step, Order
  <2>2. n[1] = "spdx" /\ n # Sums /\ n \in Listed(v)
    BY <2>1, NamesDiffer, NamesOfFiles DEF Kinds, Initial
  <2>3. WrittenAt(next, v) = WrittenAt(Step(k), v) \cup {n}
    BY <2>1 DEF WrittenAt
  <2>4. QED
    BY <2>1, <2>2, <2>3 DEF Steps
<1>4. CASE k = 3
  <2>1. Step(k) = "gates" /\ next = "provenance" /\ n = Name("gates", v)
    BY <1>4 DEF Step, Order
  <2>2. n[1] = "gates" /\ n # Sums /\ n \in Listed(v)
    BY <2>1, NamesDiffer, NamesOfFiles DEF Kinds, Initial
  <2>3. WrittenAt(next, v) = WrittenAt(Step(k), v) \cup {n}
    BY <2>1 DEF WrittenAt, Initial
  <2>4. QED
    BY <2>1, <2>2, <2>3 DEF Steps
<1>5. CASE k = 4
  <2>1. Step(k) = "provenance" /\ next = "sums" /\ n = Name("provenance", v)
    BY <1>5 DEF Step, Order
  <2>2. n[1] = "provenance" /\ n # Sums /\ n \in Listed(v)
    BY <2>1, NamesDiffer, NamesOfFiles DEF Kinds, Initial
  <2>3. WrittenAt(next, v) = WrittenAt(Step(k), v) \cup {n}
    BY <2>1 DEF WrittenAt, Kinds
  <2>4. QED
    BY <2>1, <2>2, <2>3 DEF Steps
<1>6. CASE k = 5
  <2>1. Step(k) = "sums" /\ next = "done" /\ n = Sums
    BY <1>6 DEF Step, Order
  <2>2. n[1] = "sums"
    BY <2>1 DEF Sums
  <2>3. WrittenAt(next, v) = WrittenAt(Step(k), v) \cup {n}
    BY <2>1 DEF WrittenAt, Listed, Kinds
  <2>4. QED
    BY <2>1, <2>2, <2>3 DEF Steps
<1>7. QED
  BY <1>1, <1>2, <1>3, <1>4, <1>5, <1>6

LEMMA NothingWritten == DOMAIN <<>> = {} /\ <<>> = [n \in DOMAIN <<>> |-> <<>>[n]]
OBVIOUS

LEMMA ReleaseStarts == Init => RInv
<1> SUFFICES ASSUME Init PROVE RInv
  OBVIOUS
<1>1. PICK c \in Commits : tree = Clean(c)
  BY DEF Init
<1>2. AnyCommit \in Commits
  BY <1>1 DEF AnyCommit
<1>3. Types
  <2>1. tree \in [head : Commits, version : Versions, lock : Locks, dirty : BOOLEAN]
    BY <1>1 DEF Clean, Versions, Locks
  <2>2. build \in [Builder -> [commit : Commits, quiet : BOOLEAN, files : {<<>>} \cup Releases]]
    BY <1>2 DEF Init, NoBuild
  <2>3. dir = [n \in DOMAIN dir |-> dir[n]]
    BY NothingWritten DEF Init
  <2>4. QED
    BY <2>1, <2>2, <2>3 DEF Init, Types, Places
<1>4. Sources
  <2>1. tree.head = c
    BY <1>1 DEF Clean
  <2>2. \A a \in Commits : NoFile # Gates(a)
    BY DocumentsDiffer DEF Gates
  <2>3. QED
    BY <1>1, <2>1, <2>2 DEF Init, Sources
<1>5. Kept /\ Untouched
  BY NothingWritten DEF Init, Kept, Untouched
<1>6. \A b \in Builder : Builds(b) /\ Alone(b)
  BY DEF Init, Builds, Alone, Reading, Steps
<1>7. QED
  BY <1>3, <1>4, <1>5, <1>6 DEF RInv

-----------------------------------------------------------------------------
(* Each step                                                               *)

LEMMA BeginKeeps ==
  ASSUME RInv, NEW b \in Builder, NEW allowDirty \in BOOLEAN, Begin(b, allowDirty)
  PROVE  RInv'
<1> USE DEF RInv
<1> DEFINE new == [commit |-> tree.head, quiet |-> ~tree.dirty, files |-> <<>>]
<1>1. /\ pc[b] = "idle" /\ tree.head.allowed /\ evidence = Gates(tree.head)
      /\ build' = [build EXCEPT ![b] = new] /\ GoTo(b, "begun")
      /\ UNCHANGED <<tree, evidence, attested, dir, hands>>
  BY DEF Begin, EvidenceFits
<1>2. /\ pc' \in [Builder -> Places] /\ pc'[b] = "begun"
      /\ \A a \in Builder : a # b => pc'[a] = pc[a]
  BY <1>1, Moves DEF Places, Reading
<1>3. tree.head \in Commits /\ tree.dirty \in BOOLEAN
  BY DEF Types
<1>4. new \in [commit : Commits, quiet : BOOLEAN, files : {<<>>} \cup Releases]
  BY <1>3
<1>5. /\ build' \in [Builder -> [commit : Commits, quiet : BOOLEAN, files : {<<>>} \cup Releases]]
      /\ build'[b] = new /\ \A a \in Builder : a # b => build'[a] = build[a]
  <2> HIDE DEF new
  <2>1. QED
    BY <1>1, <1>4 DEF Types
<1>6. Types'
  BY <1>1, <1>2, <1>5 DEF Types
<1>7. Sources' /\ Untouched'
  BY <1>1 DEF Sources, Untouched
<1>8. Kept'
  BY <1>1, <1>2, <1>5 DEF Kept
<1>9. b \notin hands
  BY <1>1 DEF Builds
<1>10. ASSUME NEW a \in Builder PROVE Builds(a)' /\ Alone(a)'
  <2>1. CASE a = b
    <3>1. build'[b].commit = tree.head /\ build'[b].quiet = ~tree.dirty
      BY <1>5
    <3>2. tree.head \in attested /\ (build'[b].quiet => tree = Clean(tree.head))
      BY <1>1, <1>3, <3>1 DEF Sources
    <3>3. Builds(b)'
      BY <1>1, <1>2, <1>9, <3>1, <3>2 DEF Builds, Steps, Reading
    <3>4. Alone(b)'
      BY <1>1, <1>9 DEF Alone
    <3>5. QED
      BY <2>1, <3>3, <3>4
  <2>2. CASE a # b
    <3>1. pc'[a] = pc[a] /\ build'[a] = build[a]
      BY <1>2, <1>5, <2>2
    <3>2. Builds(a) /\ Alone(a)
      OBVIOUS
    <3>3. Builds(a)'
      BY <1>1, <3>1, <3>2 DEF Builds, MyArchive
    <3>4. Alone(a)'
      BY <1>1, <3>1, <3>2 DEF Alone, MyArchive
    <3>5. QED
      BY <3>3, <3>4
  <2>3. QED
    BY <2>1, <2>2
<1>11. QED
  BY <1>6, <1>7, <1>8, <1>10

LEMMA FindEmptyKeeps ==
  ASSUME RInv, NEW b \in Builder, FindEmpty(b)
  PROVE  RInv'
<1> USE DEF RInv
<1>1. /\ pc[b] = "begun"
      /\ UNCHANGED <<tree, evidence, attested, dir, hands, build>>
      /\ \E place \in {"empty", "failed"} : GoTo(b, place)
  BY DEF FindEmpty
<1>2. /\ pc' \in [Builder -> Places] /\ pc'[b] \in {"empty", "failed"}
      /\ \A a \in Builder : a # b => pc'[a] = pc[a]
  BY <1>1, Moves DEF Places, Reading, Over
<1>3. Types' /\ Sources' /\ Untouched'
  BY <1>1, <1>2 DEF Types, Sources, Untouched
<1>4. Kept'
  BY <1>1, <1>2 DEF Kept
<1>5. Builds(b) /\ b \notin hands
  BY <1>1 DEF Builds
<1>6. ASSUME NEW a \in Builder PROVE Builds(a)' /\ Alone(a)'
  <2>1. CASE a = b
    <3>1. Builds(b)'
      BY <1>1, <1>2, <1>5 DEF Builds, Steps, Reading
    <3>2. Alone(b)'
      BY <1>1, <1>5 DEF Alone
    <3>3. QED
      BY <2>1, <3>1, <3>2
  <2>2. CASE a # b
    <3>1. pc'[a] = pc[a] /\ Builds(a) /\ Alone(a)
      BY <1>2, <2>2
    <3>2. QED
      BY <1>1, <3>1 DEF Builds, Alone, MyArchive
  <2>3. QED
    BY <2>1, <2>2
<1>7. QED
  BY <1>3, <1>4, <1>6

\* Where b alone has written, nobody else wrote; where a file is added by b,
\* what is said of the others stays true.
LEMMA OthersKeep ==
  ASSUME RInv, NEW b \in Builder, NEW a \in Builder, a # b,
         tree' = tree, attested \subseteq attested', build'[a] = build[a], pc'[a] = pc[a],
         hands' = hands \cup {b}, DOMAIN dir \subseteq DOMAIN dir'
  PROVE  Builds(a)' /\ Alone(a)'
<1>1. Builds(a)
  BY DEF RInv
<1>2. a \in hands <=> a \in hands'
  OBVIOUS
<1>3. Builds(a)'
  BY <1>1, <1>2 DEF Builds, MyArchive
<1>4. hands' # {a}
  OBVIOUS
<1>5. QED
  BY <1>3, <1>4 DEF Alone

LEMMA OpenArchiveKeeps ==
  ASSUME RInv, NEW b \in Builder, OpenArchive(b)
  PROVE  RInv'
<1> USE DEF RInv
<1> DEFINE n == MyArchive(b)
<1>1. /\ pc[b] = "empty" /\ Put(n, Partial)
      /\ hands' = hands \cup {b} /\ GoTo(b, "archiving")
      /\ UNCHANGED <<tree, evidence, attested, build>>
  BY DEF OpenArchive
<1>2. /\ pc' \in [Builder -> Places] /\ pc'[b] = "archiving"
      /\ \A a \in Builder : a # b => pc'[a] = pc[a]
  BY <1>1, Moves DEF Places, Reading
<1>3. n[1] = "archive" /\ n # Sums /\ MyArchive(b)' = n
  BY <1>1, NamesDiffer DEF MyArchive, Kinds, Initial
<1> HIDE DEF n
<1>4. /\ DOMAIN dir' = DOMAIN dir \cup {n} /\ dir'[n] = Partial
      /\ \A m \in DOMAIN dir : m # n => dir'[m] = dir[m]
      /\ dir' = [m \in DOMAIN dir' |-> dir'[m]]
  BY <1>1, PutFile
<1>5. Types'
  BY <1>1, <1>2, <1>4 DEF Types
<1>6. Sources' /\ Untouched'
  BY <1>1 DEF Sources, Untouched
<1>7. Kept'
  <2>1. \A m \in DOMAIN dir' : m[1] = "archive" => dir'[m] \in Archives
    BY <1>4 DEF Kept, Archives
  <2>2. \A m \in DOMAIN dir', c \in Commits :
          m[1] = "gates" /\ dir'[m] = Gates(c) => c \in attested'
    BY <1>1, <1>3, <1>4 DEF Kept
  <2>3. Sums \in DOMAIN dir' /\ dir'[Sums] # Partial =>
          \E a \in hands' \cap Builder : pc'[a] = "done" /\ dir'[Sums] = build'[a].files[Sums]
    BY <1>1, <1>2, <1>3, <1>4 DEF Kept
  <2>4. QED
    BY <2>1, <2>2, <2>3 DEF Kept
<1>8. ASSUME NEW a \in Builder PROVE Builds(a)' /\ Alone(a)'
  <2>1. CASE a = b
    <3>1. Builds(b)'
      BY <1>1, <1>2, <1>3, <1>4 DEF Builds, Steps, Reading
    <3>2. ASSUME hands' = {b} PROVE DOMAIN dir' = WrittenAt("archiving", build[b].commit.version)
      <4>1. hands = {}
        BY <1>1, <3>2 DEF Builds
      <4>2. DOMAIN dir' = {n}
        BY <1>4, <4>1 DEF Untouched
      <4>3. QED
        BY <4>2 DEF WrittenAt, n, MyArchive
    <3>3. Alone(b)'
      BY <1>1, <1>2, <3>2 DEF Alone, Steps
    <3>4. QED
      BY <2>1, <3>1, <3>3
  <2>2. CASE a # b
    BY <1>1, <1>2, <1>4, <2>2, OthersKeep
  <2>3. QED
    BY <2>1, <2>2
<1>9. QED
  BY <1>5, <1>6, <1>7, <1>8

LEMMA FillArchiveKeeps ==
  ASSUME RInv, NEW b \in Builder, FillArchive(b)
  PROVE  RInv'
<1> USE DEF RInv
<1> DEFINE n == MyArchive(b)
           c == build[b].commit
<1>1. /\ pc[b] = "archiving" /\ GoTo(b, "archived")
      /\ UNCHANGED <<tree, evidence, attested, hands, build>>
  BY DEF FillArchive
<1>2. PICK x \in {Archive(c), Partial} : /\ Put(n, x)
                                         /\ hands = {b} => x = Archive(c)
  BY DEF FillArchive
<1>3. /\ pc' \in [Builder -> Places] /\ pc'[b] = "archived"
      /\ \A a \in Builder : a # b => pc'[a] = pc[a]
  BY <1>1, Moves DEF Places, Reading
<1>4. n[1] = "archive" /\ n # Sums /\ MyArchive(b)' = n
  BY <1>1, NamesDiffer DEF MyArchive, Kinds, Initial
<1>5. c \in Commits /\ x \in Archives /\ \A e \in Commits : x # Gates(e)
  <2>1. c \in Commits
    BY DEF Types
  <2>2. \A e \in Commits : Archive(c) # Gates(e) /\ Partial # Gates(e)
    BY DocumentsDiffer DEF Archive, Gates
  <2>3. QED
    BY <1>2, <2>1, <2>2 DEF Archives
<1>6. b \in hands /\ n \in DOMAIN dir
  BY <1>1 DEF Builds
<1> HIDE DEF n
<1>7. /\ DOMAIN dir' = DOMAIN dir \cup {n} /\ dir'[n] = x
      /\ \A m \in DOMAIN dir : m # n => dir'[m] = dir[m]
      /\ dir' = [m \in DOMAIN dir' |-> dir'[m]]
  BY <1>2, PutFile
<1>8. Types'
  BY <1>1, <1>3, <1>7 DEF Types
<1>9. Sources' /\ Untouched'
  BY <1>1, <1>6 DEF Sources, Untouched
<1>10. Kept'
  <2>1. \A m \in DOMAIN dir' : m[1] = "archive" => dir'[m] \in Archives
    BY <1>5, <1>7 DEF Kept
  <2>2. \A m \in DOMAIN dir', e \in Commits :
          m[1] = "gates" /\ dir'[m] = Gates(e) => e \in attested'
    BY <1>1, <1>4, <1>7 DEF Kept
  <2>3. Sums \in DOMAIN dir' /\ dir'[Sums] # Partial =>
          \E a \in hands' \cap Builder : pc'[a] = "done" /\ dir'[Sums] = build'[a].files[Sums]
    BY <1>1, <1>3, <1>4, <1>7 DEF Kept
  <2>4. QED
    BY <2>1, <2>2, <2>3 DEF Kept
<1>11. ASSUME NEW a \in Builder PROVE Builds(a)' /\ Alone(a)'
  <2>1. CASE a = b
    <3>1. Builds(b)'
      BY <1>1, <1>3, <1>4, <1>6, <1>7 DEF Builds, Steps, Reading
    <3>2. ASSUME hands = {b}
          PROVE  DOMAIN dir' = WrittenAt("archived", c.version) /\ dir'[n] = Archive(c)
      <4>1. DOMAIN dir = WrittenAt("archiving", c.version)
        BY <1>1, <3>2 DEF Alone
      <4>2. WrittenAt("archiving", c.version) = WrittenAt("archived", c.version)
        BY DEF WrittenAt
      <4>3. QED
        BY <1>2, <1>6, <1>7, <3>2, <4>1, <4>2
    <3>3. Alone(b)'
      BY <1>1, <1>3, <1>4, <3>2 DEF Alone, Steps
    <3>4. QED
      BY <2>1, <3>1, <3>3
  <2>2. CASE a # b
    <3>1. hands' = hands \cup {b}
      BY <1>1, <1>6
    <3>2. QED
      BY <1>1, <1>3, <1>7, <2>2, <3>1, OthersKeep
  <2>3. QED
    BY <2>1, <2>2
<1>12. QED
  BY <1>8, <1>9, <1>10, <1>11

LEMMA ComposeKeeps ==
  ASSUME RInv, NEW b \in Builder, Compose(b)
  PROVE  RInv'
<1> USE DEF RInv
<1> DEFINE n == MyArchive(b)
           c == build[b].commit
           R == Release(c, tree.lock, dir[n])
           new == [build[b] EXCEPT !.files = R]
<1>1. /\ pc[b] = "archived" /\ GoTo(b, "cdx")
      /\ build' = [build EXCEPT ![b] = new]
      /\ UNCHANGED <<tree, evidence, attested, dir, hands>>
  BY DEF Compose, Step
<1>2. /\ pc' \in [Builder -> Places] /\ pc'[b] = "cdx"
      /\ \A a \in Builder : a # b => pc'[a] = pc[a]
  BY <1>1, Moves DEF Places, Steps
<1>3. c \in Commits /\ tree.lock \in Locks
  BY DEF Types
<1>4. b \in hands /\ n \in DOMAIN dir
  BY <1>1 DEF Builds
<1>5. dir[n] \in Archives
  BY <1>4, NamesDiffer DEF Kept, MyArchive
<1>6. R \in Releases
  BY <1>3, <1>5 DEF Releases
<1>7. /\ new \in [commit : Commits, quiet : BOOLEAN, files : {<<>>} \cup Releases]
      /\ new.commit = c /\ new.quiet = build[b].quiet /\ new.files = R
  <2> HIDE DEF R
  <2>1. build[b] \in [commit : Commits, quiet : BOOLEAN, files : {<<>>} \cup Releases]
    BY DEF Types
  <2>2. QED
    BY <1>6, <2>1
<1>8. /\ build' \in [Builder -> [commit : Commits, quiet : BOOLEAN, files : {<<>>} \cup Releases]]
      /\ build'[b] = new /\ \A a \in Builder : a # b => build'[a] = build[a]
  <2> HIDE DEF new
  <2>1. QED
    BY <1>1, <1>7 DEF Types
<1> HIDE DEF new
<1>9. Types'
  BY <1>1, <1>2, <1>8 DEF Types
<1>10. Sources' /\ Untouched'
  BY <1>1 DEF Sources, Untouched
<1>11. Kept'
  BY <1>1, <1>2, <1>8 DEF Kept
<1>12. build'[b].commit = c /\ build'[b].quiet = build[b].quiet /\ build'[b].files = R
  BY <1>7, <1>8
<1>13. ASSUME NEW a \in Builder PROVE Builds(a)' /\ Alone(a)'
  <2>1. CASE a = b
    <3>1. build[b].quiet => tree.lock = c.lock
      <4>1. build[b].quiet => tree = Clean(c)
        BY <1>1 DEF Builds, Reading
      <4>2. Clean(c).lock = c.lock
        BY DEF Clean
      <4>3. QED
        BY <4>1, <4>2
    <3>2. c \in attested /\ c.allowed
      BY <1>1 DEF Builds
    <3>3. Builds(b)'
      <4>1. \E l \in Locks, ar \in Archives :
              /\ build'[b].files = Release(build'[b].commit, l, ar)
              /\ build'[b].quiet => l = build'[b].commit.lock
        BY <1>3, <1>5, <1>12, <3>1
      <4>2. QED
        BY <1>1, <1>2, <1>4, <1>12, <3>2, <4>1 DEF Builds, Steps, Reading
    <3>4. ASSUME hands = {b}
          PROVE  /\ DOMAIN dir = WrittenAt("cdx", c.version)
                 /\ dir[n] = Archive(c) /\ \A m \in DOMAIN dir : dir[m] = R[m]
      <4>1. DOMAIN dir = WrittenAt("archived", c.version) /\ dir[n] = Archive(c)
        BY <1>1, <3>4 DEF Alone
      <4>2. WrittenAt("archived", c.version) = {n} /\ WrittenAt("cdx", c.version) = {n}
        BY DEF WrittenAt, MyArchive
      <4>3. R[n] = dir[n]
        <5>1. IsBuild(R, c, tree.lock, dir[n])
          BY ReleaseFiles
        <5> HIDE DEF R
        <5>2. QED
          BY <5>1 DEF MyArchive, IsBuild
      <4>4. QED
        BY <4>1, <4>2, <4>3
    <3>5. Alone(b)'
      BY <1>1, <1>2, <1>3, <1>12, <3>4 DEF Alone, Steps
    <3>6. QED
      BY <2>1, <3>3, <3>5
  <2>2. CASE a # b
    <3>1. hands' = hands \cup {b}
      BY <1>1, <1>4
    <3>2. QED
      BY <1>1, <1>2, <1>8, <2>2, <3>1, OthersKeep
  <2>3. QED
    BY <2>1, <2>2
<1>14. QED
  BY <1>9, <1>10, <1>11, <1>13

LEMMA WriteNextKeeps ==
  ASSUME RInv, NEW b \in Builder, WriteNext(b)
  PROVE  RInv'
<1> USE DEF RInv
<1> DEFINE c == build[b].commit
           v == c.version
           R == build[b].files
<1>1. PICK k \in 1..5 :
        /\ pc[b] = Step(k)
        /\ Put(Order(v)[k], R[Order(v)[k]])
        /\ GoTo(b, IF k = 5 THEN "done" ELSE Step(k + 1))
        /\ UNCHANGED <<tree, evidence, attested, hands, build>>
  BY DEF WriteNext
<1> DEFINE n == Order(v)[k]
           next == IF k = 5 THEN "done" ELSE Step(k + 1)
<1>2. /\ Step(k) \in Steps /\ next \in Steps \cup {"done"}
      /\ next = "done" <=> n = Sums
      /\ n[1] = Step(k) /\ n \in Listed(v) \cup {Sums}
      /\ n # Sums => n = Name(Step(k), v)
      /\ WrittenAt(next, v) = WrittenAt(Step(k), v) \cup {n}
  BY FileOfStep
<1>3. GoTo(b, next) /\ Put(n, R[n])
  BY <1>1
<1> HIDE DEF n, next
<1>4. /\ pc' \in [Builder -> Places] /\ pc'[b] = next
      /\ \A a \in Builder : a # b => pc'[a] = pc[a]
  BY <1>2, <1>3, Moves DEF Places, Over
<1>5. /\ DOMAIN dir' = DOMAIN dir \cup {n} /\ dir'[n] = R[n]
      /\ \A m \in DOMAIN dir : m # n => dir'[m] = dir[m]
      /\ dir' = [m \in DOMAIN dir' |-> dir'[m]]
  BY <1>3, PutFile
<1>6. b \in hands /\ c \in attested /\ c.allowed /\ c \in Commits
  BY <1>1, <1>2 DEF Builds, Types, Steps
<1>7. PICK l \in Locks, ar \in Archives :
        /\ R = Release(c, l, ar)
        /\ build[b].quiet => l = c.lock
  BY <1>1, <1>2 DEF Builds
<1>8. Types'
  BY <1>1, <1>4, <1>5 DEF Types
<1>9. Sources' /\ Untouched'
  BY <1>1, <1>6 DEF Sources, Untouched
<1>10. Kept'
  <2>1. \A m \in DOMAIN dir' : m[1] = "archive" => dir'[m] \in Archives
    BY <1>2, <1>5 DEF Kept, Steps
  <2>2. n[1] = "gates" => R[n] = Gates(c)
    <3>1. R[Name("gates", v)] = Gates(c)
      <4>1. IsBuild(Release(c, l, ar), c, l, ar)
        BY ReleaseFiles
      <4>2. QED
        BY <1>7, <4>1 DEF IsBuild
    <3>2. n[1] = "gates" => n # Sums
      BY DEF Sums
    <3>3. QED
      BY <1>2, <3>1, <3>2
  <2>3. \A e \in Commits : Gates(c) = Gates(e) => e = c
    BY DocumentsDiffer DEF Gates
  <2>4. \A m \in DOMAIN dir', e \in Commits :
          m[1] = "gates" /\ dir'[m] = Gates(e) => e \in attested'
    BY <1>1, <1>5, <1>6, <2>2, <2>3 DEF Kept
  <2>5. Sums \in DOMAIN dir' /\ dir'[Sums] # Partial =>
          \E a \in hands' \cap Builder : pc'[a] = "done" /\ dir'[Sums] = build'[a].files[Sums]
    <3>1. CASE n = Sums
      BY <1>1, <1>2, <1>4, <1>5, <1>6, <3>1
    <3>2. CASE n # Sums
      <4>1. pc[b] # "done"
        BY <1>1, <1>2 DEF Steps
      <4>2. QED
        BY <1>1, <1>4, <1>5, <3>2, <4>1 DEF Kept
    <3>3. QED
      BY <3>1, <3>2
  <2>6. QED
    BY <2>1, <2>4, <2>5 DEF Kept
<1>11. ASSUME NEW a \in Builder PROVE Builds(a)' /\ Alone(a)'
  <2>1. CASE a = b
    <3>1. Builds(b)'
      BY <1>1, <1>2, <1>4, <1>6, <1>7 DEF Builds, Steps, Reading
    <3>2. ASSUME hands = {b}
          PROVE  /\ DOMAIN dir' = WrittenAt(next, v)
                 /\ \E e \in Locks : R = Release(c, e, Archive(c))
                 /\ \A m \in DOMAIN dir' : dir'[m] = R[m]
      <4>1. Alone(b) /\ pc[b] \in Steps
        BY <1>1, <1>2
      <4>2. DOMAIN dir = WrittenAt(Step(k), v)
        BY <1>1, <3>2, <4>1 DEF Alone
      <4>3. QED
        BY <1>2, <1>5, <3>2, <4>1, <4>2 DEF Alone
    <3>3. Alone(b)'
      BY <1>1, <1>2, <1>4, <3>2 DEF Alone, Steps
    <3>4. QED
      BY <2>1, <3>1, <3>3
  <2>2. CASE a # b
    <3>1. hands' = hands \cup {b}
      BY <1>1, <1>6
    <3>2. QED
      BY <1>1, <1>4, <1>5, <2>2, <3>1, OthersKeep
  <2>3. QED
    BY <2>1, <2>2
<1>12. QED
  BY <1>8, <1>9, <1>10, <1>11

LEMMA CrashKeeps ==
  ASSUME RInv, NEW b \in Builder, Crash(b)
  PROVE  RInv'
<1> USE DEF RInv
<1> DEFINE v == build[b].commit.version
<1>1. /\ Active(b) /\ GoTo(b, "crashed")
      /\ UNCHANGED <<tree, evidence, attested, hands, build>>
  BY DEF Crash
<1>2. /\ pc' \in [Builder -> Places] /\ pc'[b] = "crashed"
      /\ \A a \in Builder : a # b => pc'[a] = pc[a]
  BY <1>1, Moves DEF Places, Over
<1>3. pc[b] \notin {"idle", "done"}
  BY <1>1 DEF Active, Over
<1>4. \/ UNCHANGED dir
      \/ \E n : /\ b \in hands /\ n[1] \notin {"archive"}
                /\ Put(n, Partial)
  <2>1. ASSUME NEW k \in 1..5, pc[b] = Step(k), Put(Order(v)[k], Partial)
        PROVE  \E n : b \in hands /\ n[1] \notin {"archive"} /\ Put(n, Partial)
    <3>1. Step(k) \in Steps /\ Order(v)[k][1] = Step(k)
      BY FileOfStep
    <3>2. b \in hands
      BY <2>1, <3>1 DEF Builds, Steps
    <3>3. QED
      BY <2>1, <3>1, <3>2 DEF Steps
  <2>2. QED
    BY <2>1 DEF Crash
<1>5. /\ DOMAIN dir \subseteq DOMAIN dir'
      /\ dir' = [m \in DOMAIN dir' |-> dir'[m]]
      /\ \A m \in DOMAIN dir' :
           \/ m \in DOMAIN dir /\ dir'[m] = dir[m]
           \/ b \in hands /\ m[1] # "archive" /\ dir'[m] = Partial
  <2>1. CASE UNCHANGED dir
    BY <2>1 DEF Types
  <2>2. CASE ~ UNCHANGED dir
    <3>1. PICK n : b \in hands /\ n[1] \notin {"archive"} /\ Put(n, Partial)
      BY <1>4, <2>2
    <3>2. /\ DOMAIN dir' = DOMAIN dir \cup {n} /\ dir'[n] = Partial
          /\ \A m \in DOMAIN dir : m # n => dir'[m] = dir[m]
          /\ dir' = [m \in DOMAIN dir' |-> dir'[m]]
      BY <3>1, PutFile
    <3>3. QED
      BY <3>1, <3>2
  <2>3. QED
    BY <2>1, <2>2
<1>6. Types'
  BY <1>1, <1>2, <1>5 DEF Types
<1>7. Sources'
  BY <1>1 DEF Sources
<1>8. Untouched'
  BY <1>1, <1>5 DEF Untouched
<1>9. Kept'
  <2>1. \A m \in DOMAIN dir' : m[1] = "archive" => dir'[m] \in Archives
    BY <1>5 DEF Kept
  <2>2. \A m \in DOMAIN dir', e \in Commits :
          m[1] = "gates" /\ dir'[m] = Gates(e) => e \in attested'
    <3>1. \A e \in Commits : Partial # Gates(e)
      BY DocumentsDiffer DEF Gates
    <3>2. QED
      BY <1>1, <1>5, <3>1 DEF Kept
  <2>3. Sums \in DOMAIN dir' /\ dir'[Sums] # Partial =>
          \E a \in hands' \cap Builder : pc'[a] = "done" /\ dir'[Sums] = build'[a].files[Sums]
    BY <1>1, <1>2, <1>3, <1>5 DEF Kept
  <2>4. QED
    BY <2>1, <2>2, <2>3 DEF Kept
<1>10. ASSUME NEW a \in Builder PROVE Builds(a)' /\ Alone(a)'
  <2>1. CASE a = b
    <3>1. Builds(b)'
      BY <1>1, <1>2, <1>3 DEF Builds, Steps, Reading
    <3>2. Alone(b)'
      BY <1>2 DEF Alone, Steps
    <3>3. QED
      BY <2>1, <3>1, <3>2
  <2>2. CASE a # b /\ b \in hands
    <3>1. hands' = hands \cup {b}
      BY <1>1, <2>2
    <3>2. QED
      BY <1>1, <1>2, <1>5, <2>2, <3>1, OthersKeep
  <2>3. CASE a # b /\ b \notin hands
    <3>1. UNCHANGED dir
      BY <1>4, <2>3
    <3>2. pc'[a] = pc[a] /\ Builds(a) /\ Alone(a)
      BY <1>2, <2>3
    <3>3. QED
      BY <1>1, <3>1, <3>2 DEF Builds, Alone, MyArchive
  <2>4. QED
    BY <2>1, <2>2, <2>3
<1>11. QED
  BY <1>6, <1>7, <1>8, <1>9, <1>10

LEMMA EvidenceKeeps ==
  ASSUME RInv, CreateEvidence
  PROVE  RInv'
<1> USE DEF RInv
<1>1. /\ UNCHANGED <<tree, dir, hands, pc, build>>
      /\ attested \subseteq attested'
  BY DEF CreateEvidence
<1>2. tree.head \in Commits
  BY DEF Types
<1>3. Types' /\ Sources'
  <2>1. \A c, e \in Commits : /\ Partial # Gates(c)
                              /\ Gates(c) = Gates(e) => c = e
    BY DocumentsDiffer DEF Gates
  <2>2. \/ evidence' = Gates(tree.head) /\ attested' = attested \cup {tree.head}
        \/ evidence' = Partial /\ UNCHANGED attested
    BY DEF CreateEvidence
  <2>3. Types'
    BY <1>1, <1>2, <2>2 DEF Types
  <2>4. Sources'
    BY <1>1, <1>2, <2>1, <2>2 DEF Sources
  <2>5. QED
    BY <2>3, <2>4
<1>4. Kept' /\ Untouched'
  BY <1>1 DEF Kept, Untouched
<1>5. ASSUME NEW a \in Builder PROVE Builds(a)' /\ Alone(a)'
  <2>1. Builds(a) /\ Alone(a)
    OBVIOUS
  <2>2. QED
    BY <1>1, <2>1 DEF Builds, Alone, MyArchive
<1>6. QED
  BY <1>3, <1>4, <1>5

LEMMA ChangeKeeps ==
  ASSUME RInv, Edit \/ Checkout
  PROVE  RInv'
<1> USE DEF RInv
<1>1. PICK t : /\ Change(t)
               /\ t \in [head : Commits, version : Versions, lock : Locks, dirty : BOOLEAN]
               /\ ~t.dirty => t = Clean(t.head)
  <2>1. CASE Edit
    <3>1. PICK l \in Locks, v \in Versions :
            Change([tree EXCEPT !.lock = l, !.version = v, !.dirty = TRUE])
      BY <2>1 DEF Edit
    <3> DEFINE t == [tree EXCEPT !.lock = l, !.version = v, !.dirty = TRUE]
    <3>2. /\ t \in [head : Commits, version : Versions, lock : Locks, dirty : BOOLEAN]
          /\ t.dirty
      BY DEF Types
    <3>3. QED
      BY <3>1, <3>2
  <2>2. CASE Checkout
    <3>1. PICK c \in Commits : Change(Clean(c))
      BY <2>2 DEF Checkout
    <3>2. /\ Clean(c) \in [head : Commits, version : Versions, lock : Locks, dirty : BOOLEAN]
          /\ Clean(c).head = c
      BY DEF Clean, Versions, Locks
    <3>3. QED
      BY <3>1, <3>2
  <2>3. QED
    BY <2>1, <2>2
<1>2. /\ tree' = t /\ build' = Disturbed
      /\ UNCHANGED <<evidence, attested, dir, hands, pc>>
  BY <1>1 DEF Change
<1>3. \A a \in Builder :
        /\ build'[a] \in [commit : Commits, quiet : BOOLEAN, files : {<<>>} \cup Releases]
        /\ build'[a].commit = build[a].commit /\ build'[a].files = build[a].files
        /\ pc[a] \in Reading => ~build'[a].quiet
        /\ pc[a] \notin Reading => build'[a].quiet = build[a].quiet
  <2>1. ASSUME NEW a \in Builder
        PROVE  LET new == [build[a] EXCEPT !.quiet = FALSE]
               IN /\ new \in [commit : Commits, quiet : BOOLEAN, files : {<<>>} \cup Releases]
                  /\ new.commit = build[a].commit /\ new.files = build[a].files
                  /\ ~new.quiet
    BY DEF Types
  <2>2. ASSUME NEW a \in Builder
        PROVE  build'[a] = IF pc[a] \in Reading THEN [build[a] EXCEPT !.quiet = FALSE]
                           ELSE build[a]
    BY <1>2 DEF Disturbed, Reading
  <2>3. QED
    BY <2>1, <2>2 DEF Types
<1>4. build' = [a \in Builder |-> build'[a]]
  BY <1>2 DEF Disturbed
<1>5. Types'
  <2>1. build' \in [Builder -> [commit : Commits, quiet : BOOLEAN, files : {<<>>} \cup Releases]]
    BY <1>3, <1>4
  <2>2. QED
    BY <1>1, <1>2, <2>1 DEF Types
<1>6. Sources' /\ Untouched'
  BY <1>1, <1>2 DEF Sources, Untouched
<1>7. Kept'
  BY <1>2, <1>3 DEF Kept
<1>8. ASSUME NEW a \in Builder PROVE Builds(a)' /\ Alone(a)'
  <2>1. Builds(a) /\ Alone(a)
    OBVIOUS
  <2>2. pc[a] \in Steps \cup {"done"} => pc[a] \notin Reading
    BY DEF Steps, Reading
  <2>3. Builds(a)'
    BY <1>2, <1>3, <2>1, <2>2 DEF Builds, MyArchive
  <2>4. Alone(a)'
    BY <1>2, <1>3, <2>1 DEF Alone, MyArchive
  <2>5. QED
    BY <2>3, <2>4
<1>9. QED
  BY <1>5, <1>6, <1>7, <1>8

LEMMA RemoveKeeps ==
  ASSUME RInv, Remove
  PROVE  RInv'
<1> USE DEF RInv
<1>1. /\ \A a \in Builder : pc[a] \in {"idle"} \cup Over
      /\ UNCHANGED <<tree, attested, pc, build>>
      /\ \/ dir' = <<>> /\ hands' = {} /\ UNCHANGED evidence
         \/ evidence' = NoFile /\ UNCHANGED <<dir, hands>>
  BY DEF Remove, Active
<1>2. Types' /\ Untouched'
  BY <1>1, NothingWritten DEF Types, Untouched
<1>3. Sources'
  <2>1. \A c \in Commits : NoFile # Gates(c)
    BY DocumentsDiffer DEF Gates
  <2>2. QED
    BY <1>1, <2>1 DEF Sources
<1>4. Kept'
  BY <1>1, NothingWritten DEF Kept
<1>5. ASSUME NEW a \in Builder PROVE Builds(a)' /\ Alone(a)'
  <2>1. /\ pc[a] \notin Reading \cup Steps
        /\ pc'[a] = pc[a] /\ build'[a] = build[a]
    BY <1>1 DEF Reading, Steps, Over
  <2>2. hands' \subseteq hands
    BY <1>1
  <2>3. Builds(a)'
    BY <1>1, <2>1, <2>2 DEF Builds, Reading
  <2>4. Alone(a)'
    <3>1. CASE hands' = {}
      BY <3>1 DEF Alone
    <3>2. CASE UNCHANGED <<dir, hands>>
      BY <1>1, <3>2 DEF Alone, MyArchive
    <3>3. QED
      BY <1>1, <3>1, <3>2
  <2>5. QED
    BY <2>3, <2>4
<1>6. QED
  BY <1>2, <1>3, <1>4, <1>5

LEMMA DamageKeeps ==
  ASSUME RInv, Damage
  PROVE  RInv'
<1> USE DEF RInv
<1>1. /\ \A a \in Builder : pc[a] \in {"idle"} \cup Over
      /\ UNCHANGED <<tree, evidence, attested, pc, build>>
      /\ hands' = hands \cup {"damage"}
  BY DEF Damage, Active
<1>2. PICK n \in DOMAIN dir : \/ Put(n, Partial)
                              \/ dir' = [m \in DOMAIN dir \ {n} |-> dir[m]]
  BY DEF Damage
<1>3. /\ dir' = [m \in DOMAIN dir' |-> dir'[m]]
      /\ \A m \in DOMAIN dir' : m \in DOMAIN dir /\ dir'[m] \in {dir[m], Partial}
  <2>1. CASE Put(n, Partial)
    BY <1>2, <2>1, PutFile
  <2>2. CASE dir' = [m \in DOMAIN dir \ {n} |-> dir[m]]
    BY <2>2
  <2>3. QED
    BY <1>2, <2>1, <2>2
<1>4. Types' /\ Sources' /\ Untouched'
  BY <1>1, <1>3 DEF Types, Sources, Untouched
<1>5. Kept'
  <2>1. \A e \in Commits : Partial # Gates(e)
    BY DocumentsDiffer DEF Gates
  <2>2. \A m \in DOMAIN dir' : m[1] = "archive" => dir'[m] \in Archives
    BY <1>3 DEF Kept, Archives
  <2>3. \A m \in DOMAIN dir', e \in Commits :
          m[1] = "gates" /\ dir'[m] = Gates(e) => e \in attested'
    BY <1>1, <1>3, <2>1 DEF Kept
  <2>4. Sums \in DOMAIN dir' /\ dir'[Sums] # Partial =>
          \E a \in hands' \cap Builder : pc'[a] = "done" /\ dir'[Sums] = build'[a].files[Sums]
    BY <1>1, <1>3 DEF Kept
  <2>5. QED
    BY <2>2, <2>3, <2>4 DEF Kept
<1>6. ASSUME NEW a \in Builder PROVE Builds(a)' /\ Alone(a)'
  <2>1. /\ pc[a] \notin Reading \cup Steps
        /\ pc'[a] = pc[a] /\ build'[a] = build[a]
    BY <1>1 DEF Reading, Steps, Over
  <2>2. a # "damage"
    BY ReleaseAssumption
  <2>3. Builds(a)'
    BY <1>1, <2>1, <2>2 DEF Builds, Reading
  <2>4. Alone(a)'
    BY <1>1, <2>2 DEF Alone
  <2>5. QED
    BY <2>3, <2>4
<1>7. QED
  BY <1>4, <1>5, <1>6

LEMMA ReleaseGoesOn == RInv /\ [Next]_vars => RInv'
<1> SUFFICES ASSUME RInv, [Next]_vars PROVE RInv'
  OBVIOUS
<1>1. ASSUME NEW b \in Builder,
             \/ \E allowDirty \in BOOLEAN : Begin(b, allowDirty)
             \/ FindEmpty(b) \/ OpenArchive(b) \/ FillArchive(b)
             \/ Compose(b) \/ WriteNext(b) \/ Crash(b)
      PROVE  RInv'
  BY <1>1, BeginKeeps, FindEmptyKeeps, OpenArchiveKeeps, FillArchiveKeeps,
     ComposeKeeps, WriteNextKeeps, CrashKeeps
<1>2. ASSUME CreateEvidence \/ Edit \/ Checkout \/ Remove \/ Damage
      PROVE  RInv'
  BY <1>2, EvidenceKeeps, ChangeKeeps, RemoveKeeps, DamageKeeps
<1>3. CASE UNCHANGED vars
  <2>1. UNCHANGED <<tree, evidence, attested, dir, hands, pc, build>>
    BY <1>3 DEF vars
  <2>2. Types' /\ Sources' /\ Kept' /\ Untouched'
    BY <2>1 DEF RInv, Types, Sources, Kept, Untouched
  <2>3. \A a \in Builder : Builds(a)' /\ Alone(a)'
    BY <2>1 DEF RInv, Builds, Alone, MyArchive
  <2>4. QED
    BY <2>2, <2>3 DEF RInv
<1>4. QED
  BY <1>1, <1>2, <1>3 DEF Next

\* Every build is of a commit that evidence was made for and whose files are
\* allowed, and where there is a manifest a build that was finished wrote it
\* (build_release, _write_tar_gz, validate_source_gates).
THEOREM ReleaseInvariant == Spec => []RInv
BY ReleaseStarts, ReleaseGoesOn, PTL DEF Spec

-----------------------------------------------------------------------------
(* What the verifier can rely on                                           *)

\* A directory that is accepted holds evidence that was made for the commit
\* checked out: no other file could be the one that verify_release compares with.
THEOREM AcceptedHasItsEvidence == Spec => []AcceptedWasAttested
<1>1. RInv => AcceptedWasAttested
  <2> SUFFICES ASSUME RInv, Verifies(tree, dir)
               PROVE  tree.head \in attested
    BY DEF AcceptedWasAttested
  <2> DEFINE c == tree.head
             n == Name("gates", c.version)
  <2>1. c \in Commits
    BY DEF RInv, Types
  <2>2. n \in DOMAIN dir /\ dir[n] = Gates(c) /\ n[1] = "gates"
    <3>1. DOMAIN dir = Listed(c.version) \cup {Sums} /\ dir[n] = Gates(c)
      BY DEF Verifies, ManifestHolds
    <3>2. n \in Listed(c.version) /\ n[1] = "gates"
      BY NamesOfFiles, NamesDiffer DEF Kinds, Initial
    <3>3. QED
      BY <3>1, <3>2
  <2>3. c \in attested
    BY <2>1, <2>2 DEF RInv, Kept
  <2>4. QED
    BY <2>3
<1>2. QED
  BY <1>1, ReleaseInvariant, PTL

\* A directory that is accepted is one build of the commit checked out: its
\* manifest was the last file of a build, the archive and the evidence in it
\* are the commit's, and so that build was the commit's.
THEOREM AcceptedIsABuild == Spec => []AcceptedIsOneBuild
<1>1. RInv => AcceptedIsOneBuild
  <2> SUFFICES ASSUME RInv, Verifies(tree, dir)
               PROVE  \E l \in Locks :
                        /\ dir = Release(tree.head, l, Archive(tree.head))
                        /\ (\A b \in hands \cap Builder : build[b].quiet) =>
                             l = tree.head.lock
    BY DEF AcceptedIsOneBuild
  <2> DEFINE c == tree.head
  <2>1. /\ ManifestHolds(dir, c.version) /\ dir[Name("archive", c.version)] = Archive(c)
        /\ dir[Name("gates", c.version)] = Gates(c)
    BY DEF Verifies, ArchiveHolds
  <2>2. Sums \in DOMAIN dir /\ dir[Sums] # Partial
    BY <2>1 DEF ManifestHolds
  <2>3. PICK b \in hands \cap Builder :
               pc[b] = "done" /\ dir[Sums] = build[b].files[Sums]
    BY <2>2 DEF RInv, Kept
  <2>4. PICK l \in Locks, ar \in Archives :
               /\ build[b].files = Release(build[b].commit, l, ar)
               /\ build[b].quiet => l = build[b].commit.lock
    BY <2>3 DEF RInv, Builds
  <2>5. dir = [n \in DOMAIN dir |-> dir[n]]
    BY DEF RInv, Types
  <2>6. dir[Sums] = Release(build[b].commit, l, ar)[Sums]
    BY <2>3, <2>4
  <2>7. build[b].commit = c /\ dir = Release(c, l, Archive(c))
    BY <2>1, <2>5, <2>6, OneRelease
  <2>8. QED
    BY <2>3, <2>4, <2>7
<1>2. QED
  BY <1>1, ReleaseInvariant, PTL

\* What one builder alone has finished is accepted.
THEOREM FinishedStaysAccepted == Spec => []FinishedIsAccepted
<1>1. RInv => FinishedIsAccepted
  <2> SUFFICES ASSUME RInv, NEW b \in Builder, pc[b] = "done", hands = {b},
                      tree.head = build[b].commit, tree.version = tree.head.version
               PROVE  Verifies(tree, dir)
    BY DEF FinishedIsAccepted
  <2> DEFINE c == tree.head
  <2>1. Builds(b) /\ Alone(b)
    BY DEF RInv
  <2>2. c.allowed
    BY <2>1 DEF Builds
  <2>3. PICK l \in Locks : build[b].files = Release(c, l, Archive(c))
    BY <2>1 DEF Alone
  <2>4. /\ DOMAIN dir = Listed(c.version) \cup {Sums}
        /\ \A n \in DOMAIN dir : dir[n] = build[b].files[n]
    BY <2>1 DEF Alone, WrittenAt
  <2>5. QED
    BY <2>2, <2>3, <2>4, ReleaseIsAccepted
<1>2. QED
  BY <1>1, ReleaseInvariant, PTL
=============================================================================
