---------------------------- MODULE SourceRelease ----------------------------
(***************************************************************************)
(* scripts/release: the source-only release.  A program makes evidence for *)
(* a commit; a builder is given it and writes six files into an empty      *)
(* directory, the archive from Git objects and the dependency lists from   *)
(* the working tree; a verifier accepts a directory or not.                *)
(*                                                                         *)
(* A file's hash stands for its contents.  Builders are processes that may *)
(* meet in one directory and may be killed anywhere; the working tree may  *)
(* change under them and a file may be damaged afterwards.                 *)
(***************************************************************************)
EXTENDS Naturals, FiniteSets, Sequences

CONSTANTS
  Builder,
  Commits,     \* [id, version, lock, allowed] of each commit
  MaxChanges   \* changes of the tree, damages and removals

\* "damage" stands in hands for whoever damaged a file.
ASSUME ReleaseAssumption == "damage" \notin Builder

VARIABLES
  tree,      \* the working tree: the commit checked out, and what was edited
  evidence,  \* the source-gates file the builders are given
  attested,  \* commits it was ever made for
  dir,       \* the output directory: contents by file name
  hands,     \* who has written there since it was last removed
  pc, build, \* of each builder
  changes

vars == <<tree, evidence, attested, dir, hands, pc, build, changes>>

Versions == {c.version : c \in Commits}
Locks    == {c.lock : c \in Commits}

Clean(c) == [head |-> c, version |-> c.version, lock |-> c.lock, dirty |-> FALSE]

(***************************************************************************)
(* The six files.  lock: the dependencies that are listed.  holds: the     *)
(* files that are named, with their hashes.                                *)
(***************************************************************************)
NoLock == "none"
Doc(kind, c, lock, holds) == [kind |-> kind, commit |-> c, lock |-> lock, holds |-> holds]

\* A file that was not written to its end, and no file at all
Partial == [kind |-> "partial"]
NoFile  == [kind |-> "none"]

Name(kind, v) == <<kind, v>>
Sums == <<"sums", "any">>
Initial == {"archive", "cdx", "spdx", "gates"}
Listed(v) == {Name(k, v) : k \in Initial \cup {"provenance"}}
Hashes(files) == {<<n, files[n]>> : n \in DOMAIN files}

Archive(c) == Doc("archive", c, NoLock, {})
\* source_gate_document
Gates(c)   == Doc("gates", c, NoLock, {})

\* The files f, with n written
Written(f, n, contents) ==
  [m \in DOMAIN f \cup {n} |-> IF m = n THEN contents ELSE f[m]]

\* The archive that was read back, both lists and the evidence
InitialFiles(c, lock, archive) ==
  [n \in {Name(k, c.version) : k \in Initial} |->
     CASE n[1] = "archive" -> archive
       [] n[1] = "gates" -> Gates(c)
       [] OTHER -> Doc(n[1], c, lock, {})]

Provenance(c, files) == Doc("provenance", c, NoLock, Hashes(files))

\* A manifest that leaves out the provenance
ReleaseUnlisted(c, lock, archive) ==
  LET initial == InitialFiles(c, lock, archive)
  IN Written(Written(initial, Name("provenance", c.version), Provenance(c, initial)),
             Sums, Doc("sums", c, NoLock, Hashes(initial)))

\* Everything after the archive was written and read back
Release(c, lock, archive) ==
  LET initial == InitialFiles(c, lock, archive)
      listed == Written(initial, Name("provenance", c.version), Provenance(c, initial))
  IN Written(listed, Sums, Doc("sums", c, NoLock, Hashes(listed)))

\* The order the files are written in, after the archive
Order(v) == << Name("cdx", v), Name("spdx", v), Name("gates", v),
               Name("provenance", v), Sums >>

(***************************************************************************)
(* _context, and what both ends ask of a commit's files (scan_source_file) *)
(***************************************************************************)
ContextOf(t, allowDirty) == /\ ~t.dirty \/ allowDirty
                            /\ t.version = t.head.version

(***************************************************************************)
(* verify_release, _verify_archive, _verify_sboms                          *)
(***************************************************************************)
\* The names without the hashes
ManifestNamesHold(d, v) ==
  /\ Sums \in DOMAIN d /\ d[Sums] # Partial
  /\ {h[1] : h \in d[Sums].holds} = Listed(v)
  /\ DOMAIN d = Listed(v) \cup {Sums}

ManifestHolds(d, v) ==
  /\ Sums \in DOMAIN d /\ d[Sums] # Partial
  /\ {h[1] : h \in d[Sums].holds} = Listed(v)
  /\ DOMAIN d = Listed(v) \cup {Sums}
  /\ \A h \in d[Sums].holds : d[h[1]] = h[2]

ArchiveHolds(d, c) == c.allowed /\ d[Name("archive", c.version)] = Archive(c)

\* Nothing compares the dependencies with the commit's.
ListsHold(d, v) ==
  /\ d[Name("cdx", v)] # Partial /\ d[Name("spdx", v)] # Partial
  /\ d[Name("cdx", v)].kind = "cdx" /\ d[Name("spdx", v)].kind = "spdx"
  /\ d[Name("cdx", v)].commit.version = v

ProvenanceHolds(d, c) ==
  LET p == d[Name("provenance", c.version)]
  IN /\ p # Partial
     /\ p.commit = c
     /\ p.holds = {<<Name(k, c.version), d[Name(k, c.version)]>> : k \in Initial}

Verifies(t, d) ==
  LET c == t.head
  IN /\ ContextOf(t, TRUE)
     /\ ManifestHolds(d, c.version)
     /\ ArchiveHolds(d, c)
     /\ ListsHold(d, c.version)
     /\ d[Name("gates", c.version)] = Gates(c)
     /\ ProvenanceHolds(d, c)

(***************************************************************************)
(* Builders.                                                               *)
(***************************************************************************)
AnyCommit == CHOOSE c \in Commits : TRUE
NoBuild == [commit |-> AnyCommit, quiet |-> TRUE, files |-> <<>>]

Init == /\ \E c \in Commits : tree = Clean(c)
        /\ evidence = NoFile /\ attested = {}
        /\ dir = <<>> /\ hands = {}
        /\ pc = [b \in Builder |-> "idle"]
        /\ build = [b \in Builder |-> NoBuild]
        /\ changes = 0

Over == {"done", "failed", "crashed"}
Active(b) == pc[b] \notin {"idle"} \cup Over
GoTo(b, place) == pc' = [pc EXCEPT ![b] = place]
Step(k) == <<"cdx", "spdx", "gates", "provenance", "sums">>[k]
Put(n, contents) == dir' = Written(dir, n, contents)
MyArchive(b) == Name("archive", build[b].commit.version)

\* validate_source_gates
AnyEvidence(t) == evidence \notin {NoFile, Partial}
EvidenceFits(t) == evidence = Gates(t.head)

\* build_release up to the output directory
Begin(b, allowDirty) ==
  /\ pc[b] = "idle"
  /\ ContextOf(tree, allowDirty)
  /\ tree.head.allowed
  /\ EvidenceFits(tree)
  /\ build' = [build EXCEPT ![b] = [commit |-> tree.head, quiet |-> ~tree.dirty,
                                    files |-> <<>>]]
  /\ GoTo(b, "begun")
  /\ UNCHANGED <<tree, evidence, attested, dir, hands, changes>>

\* list(output_dir.iterdir())
FindEmpty(b) ==
  /\ pc[b] = "begun"
  /\ GoTo(b, IF dir = <<>> THEN "empty" ELSE "failed")
  /\ UNCHANGED <<tree, evidence, attested, dir, hands, build, changes>>

\* _write_tar_gz truncates the file and fills it.
OpenArchive(b) ==
  /\ pc[b] = "empty"
  /\ Put(MyArchive(b), Partial)
  /\ hands' = hands \cup {b}
  /\ GoTo(b, "archiving")
  /\ UNCHANGED <<tree, evidence, attested, build, changes>>

\* Another builder's writes to the same file may be mixed in.
FillArchive(b) ==
  /\ pc[b] = "archiving"
  /\ \/ Put(MyArchive(b), Archive(build[b].commit))
     \/ hands # {b} /\ Put(MyArchive(b), Partial)
  /\ GoTo(b, "archived")
  /\ UNCHANGED <<tree, evidence, attested, hands, build, changes>>

\* The archive is read back and the dependencies are read from the tree.
Compose(b) ==
  /\ pc[b] = "archived"
  /\ build' = [build EXCEPT ![b].files =
                 Release(build[b].commit, tree.lock, dir[MyArchive(b)])]
  /\ GoTo(b, Step(1))
  /\ UNCHANGED <<tree, evidence, attested, dir, hands, changes>>

WriteNext(b) ==
  \E k \in 1..5 :
    /\ pc[b] = Step(k)
    /\ LET n == Order(build[b].commit.version)[k] IN Put(n, build[b].files[n])
    /\ GoTo(b, IF k = 5 THEN "done" ELSE Step(k + 1))
    /\ UNCHANGED <<tree, evidence, attested, hands, build, changes>>

\* The builder is killed, maybe in the middle of a file.
Crash(b) ==
  /\ Active(b)
  /\ \/ UNCHANGED dir
     \/ \E k \in 1..5 : /\ pc[b] = Step(k)
                        /\ Put(Order(build[b].commit.version)[k], Partial)
  /\ GoTo(b, "crashed")
  /\ UNCHANGED <<tree, evidence, attested, hands, build, changes>>

(***************************************************************************)
(* Everyone else.                                                          *)
(***************************************************************************)
\* create_source_gate_evidence: it runs no gate and asks for none; that they
\* passed before is left to the order of the workflow's jobs.
CreateEvidence ==
  /\ ContextOf(tree, FALSE)
  /\ evidence = NoFile
  /\ \/ evidence' = Gates(tree.head) /\ attested' = attested \cup {tree.head}
     \/ evidence' = Partial /\ UNCHANGED attested
  /\ UNCHANGED <<tree, dir, hands, pc, build, changes>>

\* A builder that has not read the tree to its end met a tree that moved.
Disturbed == [b \in Builder |->
  IF pc[b] \in {"begun", "empty", "archiving", "archived"}
  THEN [build[b] EXCEPT !.quiet = FALSE] ELSE build[b]]

Change(t) ==
  /\ changes < MaxChanges
  /\ changes' = changes + 1
  /\ tree' = t
  /\ build' = Disturbed
  /\ UNCHANGED <<evidence, attested, dir, hands, pc>>

Edit == \E l \in Locks, v \in Versions :
          Change([tree EXCEPT !.lock = l, !.version = v, !.dirty = TRUE])
Checkout == \E c \in Commits : tree # Clean(c) /\ Change(Clean(c))

\* The user removes what is there to start again.
Remove ==
  /\ changes < MaxChanges
  /\ \A b \in Builder : ~Active(b)
  /\ \/ dir # <<>> /\ dir' = <<>> /\ hands' = {} /\ UNCHANGED evidence
     \/ evidence # NoFile /\ evidence' = NoFile /\ UNCHANGED <<dir, hands>>
  /\ changes' = changes + 1
  /\ UNCHANGED <<tree, attested, pc, build>>

\* A file is lost or damaged after it was written.
Damage ==
  /\ changes < MaxChanges
  /\ \A b \in Builder : ~Active(b)
  /\ \E n \in DOMAIN dir :
       \/ Put(n, Partial)
       \/ dir' = [m \in DOMAIN dir \ {n} |-> dir[m]]
  /\ hands' = hands \cup {"damage"}
  /\ changes' = changes + 1
  /\ UNCHANGED <<tree, evidence, attested, pc, build>>

Next ==
  \/ \E b \in Builder :
       \/ \E allowDirty \in BOOLEAN : Begin(b, allowDirty)
       \/ FindEmpty(b) \/ OpenArchive(b) \/ FillArchive(b)
       \/ Compose(b) \/ WriteNext(b) \/ Crash(b)
  \/ CreateEvidence \/ Edit \/ Checkout \/ Remove \/ Damage

Spec == Init /\ [][Next]_vars

(***************************************************************************)
(* Properties.                                                             *)
(***************************************************************************)
\* A directory the verifier accepts is exactly what one build of the commit
\* checked out writes, whoever met there, died or damaged a file; and the
\* dependencies are the commit's when every builder that wrote there found a
\* clean tree that stayed (build_release, verify_release).
AcceptedIsOneBuild ==
  Verifies(tree, dir) =>
    \E l \in Locks :
      /\ dir = Release(tree.head, l, Archive(tree.head))
      /\ (\A b \in hands \cap Builder : build[b].quiet) => l = tree.head.lock

\* What one builder alone has finished is accepted for as long as nobody
\* touches it and its commit is checked out, with --allow-dirty too
\* (tests/release/test_source_release.py:103-190).
FinishedIsAccepted ==
  \A b \in Builder :
    /\ pc[b] = "done" /\ hands = {b}
    /\ tree.head = build[b].commit /\ tree.version = tree.head.version
    => Verifies(tree, dir)

\* Evidence speaks for one commit: a release that is accepted was built with
\* evidence made in a clean checkout of that very commit, although evidence
\* and builds are made by programs run apart, with other commits of the same
\* version checked out in between.  Whether gates ran before it was made is
\* beyond these programs (create_source_gate_evidence, validate_source_gates).
AcceptedWasAttested ==
  Verifies(tree, dir) => tree.head \in attested
=============================================================================
