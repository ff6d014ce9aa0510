----------------------- MODULE ProjectResolution_proof -----------------------
(***************************************************************************)
(* For every choice of roots and every disk: what the catalogue holds, and *)
(* that its bindings are Python's; and for all the import statements that  *)
(* the files may hold: the dependencies are what Python loads.             *)
(*                                                                         *)
(* The inductive invariant of the catalogue says what each root            *)
(* contributes, and that of the session what the interpreted facts mean.   *)
(* What is promised after the last step is then a matter of how Python's   *)
(* finder walks the same directories, with the sources alone in them and   *)
(* with extension modules beside the sources.                              *)
(***************************************************************************)
EXTENDS ProjectResolution, CommonLemmas

\* a catalogued module has the fields of a SourceModule and no others
IsModule(m) ==
  m \in [file : {m.file}, name : {m.name}, isPackage : {m.isPackage},
         parent : {m.parent}, status : {m.status}]

\* What replace(module, binding_status=s) changes.
LEMMA StatusReplaced ==
  ASSUME NEW m, IsModule(m), NEW s, NEW n, n = [m EXCEPT !.status = s]
  PROVE  /\ IsModule(n) /\ n.status = s
         /\ n.file = m.file /\ n.name = m.name /\ n.isPackage = m.isPackage /\ n.parent = m.parent
         /\ s = m.status => n = m
BY DEF IsModule


(* Directories and names                                                   *)

\* IsPrefix, position by position.
LEMMA PrefixMeans ==
  ASSUME NEW s \in Seq(STRING), NEW t \in Seq(STRING)
  PROVE  IsPrefix(s, t) <=> Len(s) <= Len(t) /\ \A k \in 1 .. Len(s) : s[k] = t[k]
<1>1. ASSUME Len(s) <= Len(t)
      PROVE  SubSeq(s, 1, Len(s)) = SubSeq(t, 1, Len(s)) <=> \A k \in 1 .. Len(s) : s[k] = t[k]
  <2>1. /\ SubSeq(s, 1, Len(s)) = [k \in 1 .. Len(s) |-> s[k]]
        /\ SubSeq(t, 1, Len(s)) = [k \in 1 .. Len(s) |-> t[k]]
    BY <1>1
  <2> QED BY <2>1
<1> QED BY <1>1 DEF IsPrefix

\* a file or a target as the walk finds it
WellFormed(f) == f.at \in Seq(STRING) /\ f.init \in BOOLEAN /\ (f.at # <<>> \/ f.init)

\* The directory of such a path.
LEMMA DirectoryFields ==
  ASSUME NEW f, WellFormed(f)
  PROVE  /\ f.at \in Seq(STRING) /\ f.init \in BOOLEAN
         /\ Directory(f) \in Seq(STRING)
         /\ f.init => Directory(f) = f.at
         /\ ~f.init => f.at # <<>> /\ Directory(f) = SubSeq(f.at, 1, Len(f.at) - 1)
<1>1. ~f.init => f.at # <<>> /\ Len(f.at) \in Nat /\ Len(f.at) # 0
  BY DEF WellFormed
<1>2. ~f.init => Directory(f) = SubSeq(f.at, 1, Len(f.at) - 1) /\ Directory(f) \in Seq(STRING)
  BY <1>1 DEF WellFormed, Directory, Front
<1>3. f.init => Directory(f) = f.at
  BY DEF Directory
<1> QED BY <1>1, <1>2, <1>3 DEF WellFormed

\* A file as the walk finds it.
LEMMA FilesAreWellFormed ==
  ASSUME disk \in Disks, NEW f \in disk.files
  PROVE  /\ WellFormed(f)
         /\ f.at \in Seq(STRING) /\ f.init \in BOOLEAN
         /\ f = [at |-> f.at, init |-> f.init]
         /\ Directory(f) \in Seq(STRING)
         /\ f.init => Directory(f) = f.at
         /\ ~f.init => f.at # <<>> /\ Directory(f) = SubSeq(f.at, 1, Len(f.at) - 1)
<1>1. disk.files \subseteq [at : Seq(STRING), init : BOOLEAN] /\ (f.at # <<>> \/ f.init)
  BY DisksAssumption
<1>2. WellFormed(f) /\ f = [at |-> f.at, init |-> f.init]
  BY <1>1 DEF WellFormed
<1> QED BY <1>2, DirectoryFields DEF WellFormed

\* The roots are different paths.
LEMMA RootsArePaths ==
  /\ DOMAIN Roots = 1 .. Len(Roots) /\ Len(Roots) \in Nat
  /\ \A r \in DOMAIN Roots : Roots[r] \in Seq(STRING)
  /\ \A r, o \in DOMAIN Roots : Roots[r] = Roots[o] => r = o
BY RootsAssumption DEF IsInjective

\* Of overlapping roots one takes the file.
LEMMA OneOwner ==
  ASSUME disk \in Disks, NEW f \in disk.files,
         NEW r \in DOMAIN Roots, NEW o \in DOMAIN Roots, Owns(r, f), Owns(o, f)
  PROVE  r = o
<1>1. Directory(f) \in Seq(STRING) /\ Roots[r] \in Seq(STRING) /\ Roots[o] \in Seq(STRING)
  BY FilesAreWellFormed, RootsArePaths
<1>2. IsPrefix(Roots[r], Directory(f)) /\ IsPrefix(Roots[o], Directory(f))
  BY DEF Owns
<1>3. IsPrefix(Roots[r], Roots[o]) \/ IsPrefix(Roots[o], Roots[r])
  BY <1>1, <1>2, PrefixMeans
<1>4. Roots[r] = Roots[o]
  BY <1>2, <1>3 DEF Owns, IsStrictPrefix
<1> QED BY <1>4, RootsArePaths

\* The innermost of the roots above a file takes it.
LEMMA SomeOwner ==
  ASSUME disk \in Disks, NEW f \in disk.files,
         NEW q \in DOMAIN Roots, IsPrefix(Roots[q], Directory(f))
  PROVE  \E r \in DOMAIN Roots : Owns(r, f)
<1> DEFINE above == {r \in DOMAIN Roots : IsPrefix(Roots[r], Directory(f))}
           rest  == {Len(Directory(f)) - Len(Roots[r]) : r \in above}
<1>1. Directory(f) \in Seq(STRING) /\ \A r \in DOMAIN Roots : Roots[r] \in Seq(STRING)
  BY FilesAreWellFormed, RootsArePaths
<1>2. \A r \in above : Len(Directory(f)) - Len(Roots[r]) \in Nat
  BY <1>1, PrefixMeans
<1>3. rest \in SUBSET Nat /\ rest # {}
  BY <1>2
<1> HIDE DEF rest
<1>4. PICK n \in rest : \A m \in rest : n <= m
  BY <1>3, LeastElementExists
<1>5. PICK r \in above : n = Len(Directory(f)) - Len(Roots[r])
  BY DEF rest
<1>6. ASSUME NEW o \in DOMAIN Roots, IsStrictPrefix(Roots[r], Roots[o]), IsPrefix(Roots[o], Directory(f))
      PROVE  FALSE
  <2>1. Len(Directory(f)) - Len(Roots[o]) \in rest
    BY <1>6 DEF rest
  <2>2. Len(Roots[o]) <= Len(Roots[r])
    BY <2>1, <1>4, <1>5, <1>1
  <2>3. Len(Roots[r]) <= Len(Roots[o]) /\ \A k \in 1 .. Len(Roots[r]) : Roots[r][k] = Roots[o][k]
    BY <1>1, <1>6, PrefixMeans DEF IsStrictPrefix
  <2>4. Roots[r] = Roots[o]
    BY <1>1, <2>2, <2>3
  <2> QED BY <2>4, <1>6 DEF IsStrictPrefix
<1> QED BY <1>6 DEF Owns

\* What a root owns has the root's path and its name below it.
LEMMA NameIsBelow ==
  ASSUME NEW f, WellFormed(f), NEW r \in DOMAIN Roots, Owns(r, f)
  PROVE  /\ NameBelow(r, f) \in Seq(STRING)
         /\ f.at = Roots[r] \o NameBelow(r, f)
         /\ Len(f.at) = Len(Roots[r]) + Len(NameBelow(r, f))
<1>1. f.at \in Seq(STRING) /\ Roots[r] \in Seq(STRING) /\ Directory(f) \in Seq(STRING)
  BY DirectoryFields, RootsArePaths
<1>2. Len(Roots[r]) <= Len(Directory(f)) /\ \A k \in 1 .. Len(Roots[r]) : Roots[r][k] = Directory(f)[k]
  BY <1>1, PrefixMeans DEF Owns
<1>3. Len(Directory(f)) <= Len(f.at) /\ \A k \in 1 .. Len(Directory(f)) : Directory(f)[k] = f.at[k]
  BY <1>1, DirectoryFields
<1>4. Len(Roots[r]) <= Len(f.at) /\ \A k \in 1 .. Len(Roots[r]) : Roots[r][k] = f.at[k]
  BY <1>1, <1>2, <1>3
<1>5. NameBelow(r, f) \in Seq(STRING) /\ Len(NameBelow(r, f)) = Len(f.at) - Len(Roots[r])
      /\ \A k \in 1 .. Len(NameBelow(r, f)) : NameBelow(r, f)[k] = f.at[k + Len(Roots[r])]
  BY <1>1, <1>4 DEF NameBelow
<1>6. f.at = Roots[r] \o NameBelow(r, f)
  <2>1. Len(f.at) = Len(Roots[r]) + Len(NameBelow(r, f))
    BY <1>1, <1>5
  <2>2. \A k \in 1 .. Len(NameBelow(r, f)) : f.at[k + Len(Roots[r])] = NameBelow(r, f)[k]
    BY <1>5
  <2> QED BY <1>1, <1>4, <1>5, <2>1, <2>2, JoinMeans
<1> QED BY <1>5, <1>6, <1>1
-----------------------------------------------------------------------------
(* What discovery makes of one root                                        *)

PackageAt(d) == [at |-> d, init |-> TRUE]

Owned(r) == {g \in disk.files : Owns(r, g)}

Candidates(r) == {Candidate(r, f) : f \in Owned(r)}

Discovered(r) == RemoveAmbiguousGroups(Candidates(r))

\* a plain module with a regular package of its name in the same directory
Beside(r, f) == ~f.init /\ PackageAt(f.at) \in Owned(r)

PlainNames(r) == {NameBelow(r, f) : f \in {g \in Owned(r) : ~g.init /\ ~Beside(r, g)}}

\* a source below a plain module
Blocked(r, f) == Ancestors(NameBelow(r, f)) \cap PlainNames(r) # {}

Selected(r, f) ==
  [file |-> f, name |-> NameBelow(r, f), isPackage |-> f.init,
   parent |-> Candidate(r, f).parent,
   status |-> IF Beside(r, f) THEN "shadowed" ELSE Candidate(r, f).status]

Settled(r, f) ==
  IF Blocked(r, f)
  THEN [Selected(r, f) EXCEPT !.status = "path_only", !.parent = NoName]
  ELSE Selected(r, f)

\* What a root owns, and what lies below it under which name.
LEMMA OwnedFiles ==
  ASSUME disk \in Disks, NEW r \in DOMAIN Roots, NEW f \in Owned(r)
  PROVE  /\ f \in disk.files /\ Owns(r, f)
         /\ f.at \in Seq(STRING) /\ f.init \in BOOLEAN /\ f = [at |-> f.at, init |-> f.init]
         /\ NameBelow(r, f) \in Seq(STRING) /\ f.at = Roots[r] \o NameBelow(r, f)
         /\ ~f.init => NameBelow(r, f) # NoName
<1>1. f \in disk.files /\ Owns(r, f)
  BY DEF Owned
<1>2. /\ f.at \in Seq(STRING) /\ f.init \in BOOLEAN /\ f = [at |-> f.at, init |-> f.init]
      /\ Directory(f) \in Seq(STRING) /\ Roots[r] \in Seq(STRING)
      /\ ~f.init => f.at # <<>> /\ Directory(f) = SubSeq(f.at, 1, Len(f.at) - 1)
  BY <1>1, FilesAreWellFormed, RootsArePaths
<1>3. NameBelow(r, f) \in Seq(STRING) /\ f.at = Roots[r] \o NameBelow(r, f)
      /\ Len(f.at) = Len(Roots[r]) + Len(NameBelow(r, f))
  BY <1>1, FilesAreWellFormed, NameIsBelow
<1>4. Len(Roots[r]) <= Len(Directory(f))
  BY <1>1, <1>2, PrefixMeans DEF Owns
<1>5. ASSUME ~f.init PROVE NameBelow(r, f) # NoName
  <2>1. Len(Directory(f)) < Len(f.at)
    BY <1>2, <1>5
  <2>2. Len(NameBelow(r, f)) # 0
    BY <1>2, <1>3, <1>4, <2>1
  <2> QED BY <2>2 DEF NoName
<1> QED BY <1>1, <1>2, <1>3, <1>5

\* What a file is before any conflict is looked at.
LEMMA CandidateFields ==
  ASSUME NEW r, NEW f
  PROVE  LET m == Candidate(r, f)
         IN /\ IsModule(m)
            /\ m.file = f /\ m.name = NameBelow(r, f) /\ m.isPackage = f.init
            /\ m.status = IF NameBelow(r, f) = NoName THEN "path_only" ELSE "bound"
            /\ m.parent = NoName \/ NameBelow(r, f) # NoName
<1> DEFINE name == NameBelow(r, f)
<1>1. Candidate(r, f) =
        [file |-> f, name |-> name, isPackage |-> f.init,
         parent |-> IF name = NoName THEN NoName ELSE Front(name),
         status |-> IF name = NoName THEN "path_only" ELSE "bound"]
  BY DEF Candidate
<1> HIDE DEF name
<1> QED BY <1>1 DEF IsModule, name

\* The sources of one root with one import name lie at one place.
LEMMA SameNameSamePlace ==
  ASSUME disk \in Disks, NEW r \in DOMAIN Roots, NEW f \in Owned(r), NEW g \in Owned(r),
         NameBelow(r, f) = NameBelow(r, g)
  PROVE  f.at = g.at /\ (f.init = g.init => f = g)
BY OwnedFiles

\* A root has finitely many files.
LEMMA FiniteCandidates ==
  ASSUME disk \in Disks, NEW r
  PROVE  IsFiniteSet(Candidates(r))
<1>1. IsFiniteSet(Owned(r))
  BY DisksAssumption, FS_Subset DEF Owned
<1> DEFINE c == [f \in Owned(r) |-> Candidate(r, f)]
<1>2. Candidates(r) = {c[f] : f \in Owned(r)} /\ c = [f \in Owned(r) |-> c[f]]
  BY DEF Candidates
<1> HIDE DEF c
<1> QED BY <1>1, <1>2, FiniteImage

\* What SelectPackages makes of a candidate: a package and a plain module are all that can
\* share a name in one root.
LEMMA SelectedStatus ==
  ASSUME disk \in Disks, NEW r \in DOMAIN Roots, NEW f \in Owned(r)
  PROVE  LET m == Candidate(r, f)
         IN [m EXCEPT !.status =
               IF Cardinality(SameName(Candidates(r), m)) < 2 THEN @
               ELSE IF Duplicated(Candidates(r), m) THEN "ambiguous"
               ELSE IF m.isPackage THEN @ ELSE "shadowed"] = Selected(r, f)
<1> DEFINE m        == Candidate(r, f)
           same     == SameName(Candidates(r), m)
           packages == {o \in same : o.isPackage}
           s        == IF Cardinality(same) < 2 THEN m.status
                       ELSE IF Duplicated(Candidates(r), m) THEN "ambiguous"
                       ELSE IF m.isPackage THEN m.status ELSE "shadowed"
<1>1. /\ IsModule(m) /\ m.file = f /\ m.name = NameBelow(r, f) /\ m.isPackage = f.init
  BY CandidateFields
<1>2. same = {o \in Candidates(r) : o.name # NoName /\ o.name = m.name}
  BY DEF SameName
<1>3. Duplicated(Candidates(r), m) <=> Cardinality(same) > 1 /\ Cardinality(packages) # 1
  BY DEF Duplicated
<1>4. \A o \in Candidates(r) : \E g \in Owned(r) :
        o = Candidate(r, g) /\ o.name = NameBelow(r, g) /\ o.isPackage = g.init
  BY CandidateFields DEF Candidates
<1>5. m \in Candidates(r)
  BY DEF Candidates
<1>6. IsFiniteSet(same)
  BY <1>2, FiniteCandidates, FS_Subset
<1>7. \A o \in same : \E g \in Owned(r) : o = Candidate(r, g) /\ o.isPackage = g.init /\ g.at = f.at /\ g.init \in BOOLEAN
  BY <1>1, <1>2, <1>4, SameNameSamePlace, OwnedFiles
<1> HIDE DEF m, same, packages
<1>8. s = IF Beside(r, f) THEN "shadowed" ELSE m.status
  <2>1. CASE m.name = NoName
    <3>1. same = {} /\ Cardinality(same) = 0
      BY <2>1, <1>2, FS_EmptySet
    <3>2. ~Beside(r, f)
      BY <2>1, <1>1, OwnedFiles DEF Beside
    <3> QED BY <3>1, <3>2
  <2>2. CASE m.name # NoName /\ f.init
    <3>1. packages = {m}
      <4>1. m \in packages
        BY <2>2, <1>1, <1>2, <1>5 DEF packages
      <4>2. \A o \in packages : o = m
        BY <1>7, <2>2, OwnedFiles DEF packages, m
      <4> QED BY <4>1, <4>2
    <3>2. Cardinality(packages) = 1
      BY <3>1, FS_Singleton
    <3> QED BY <3>2, <2>2, <1>1, <1>3 DEF Beside
  <2>3. CASE ~f.init /\ ~Beside(r, f)
    <3>1. \A o \in same : o = m
      <4> SUFFICES ASSUME NEW o \in same PROVE o = m
        OBVIOUS
      <4>1. PICK g \in Owned(r) : o = Candidate(r, g) /\ g.at = f.at /\ g.init \in BOOLEAN
        BY <1>7
      <4>2. g = [at |-> g.at, init |-> g.init] /\ f = [at |-> f.at, init |-> f.init]
        BY OwnedFiles
      <4>3. ~g.init
        BY <4>1, <4>2, <2>3 DEF Beside, PackageAt
      <4> QED BY <4>1, <4>2, <4>3, <2>3, OwnedFiles DEF m
    <3>2. same = {} \/ same = {m}
      BY <3>1
    <3>3. Cardinality(same) < 2
      BY <3>2, FS_EmptySet, FS_Singleton
    <3> QED BY <3>3, <2>3
  <2>4. CASE Beside(r, f)
    <3> DEFINE p == Candidate(r, PackageAt(f.at))
    <3>1. PackageAt(f.at) \in Owned(r) /\ ~f.init /\ PackageAt(f.at).at = f.at /\ PackageAt(f.at).init
      BY <2>4 DEF Beside, PackageAt
    <3>2. p \in Candidates(r) /\ p.name = NameBelow(r, PackageAt(f.at)) /\ p.isPackage
      BY <3>1, CandidateFields DEF Candidates
    <3>3. p.name = m.name
      BY <3>1, <3>2, <1>1 DEF NameBelow
    <3>4. m.name # NoName
      BY <3>1, <1>1, OwnedFiles
    <3>5. p \in same /\ m \in same /\ p # m
      BY <3>1, <3>2, <3>3, <3>4, <1>1, <1>2, <1>5
    <3>6. Cardinality(same) > 1
      BY <3>5, <1>6, TwoMembers
    <3>7. packages = {p}
      <4>1. p \in packages
        BY <3>5, <3>2 DEF packages
      <4>2. \A o \in packages : o = p
        <5> SUFFICES ASSUME NEW o \in packages PROVE o = p
          OBVIOUS
        <5>1. PICK g \in Owned(r) : o = Candidate(r, g) /\ g.init /\ g.at = f.at /\ g.init \in BOOLEAN
          BY <1>7 DEF packages
        <5>2. g = [at |-> g.at, init |-> g.init]
          BY OwnedFiles
        <5>3. g = PackageAt(f.at)
          BY <5>1, <5>2 DEF PackageAt
        <5> QED BY <5>1, <5>3
      <4> QED BY <4>1, <4>2
    <3>8. Cardinality(packages) = 1
      BY <3>7, FS_Singleton
    <3>9. Cardinality(same) \in Nat
      BY <1>6, FS_CardinalityType
    <3> QED BY <3>6, <3>8, <3>9, <3>1, <1>1, <1>3, <2>4
  <2> QED BY <2>1, <2>2, <2>3, <2>4 DEF Beside
<1>9. [m EXCEPT !.status = s] = Selected(r, f)
  BY <1>1, <1>8 DEF Selected, IsModule, m
<1> QED BY <1>9 DEF m, same

\* What a file is after the packages are selected.
LEMMA SelectedFields ==
  ASSUME disk \in Disks, NEW r \in DOMAIN Roots, NEW f \in Owned(r)
  PROVE  LET m == Selected(r, f)
         IN /\ IsModule(m)
            /\ m.file = f /\ m.name = NameBelow(r, f) /\ m.isPackage = f.init
            /\ m.status = "bound" <=> m.name # NoName /\ ~Beside(r, f)
            /\ m.status \in Status \ {"ambiguous"}
            /\ m.status = "shadowed" => ~m.isPackage
            /\ m.status = "path_only" => m.parent = NoName
<1> DEFINE name == NameBelow(r, f)
           s    == Candidate(r, f).status
           p    == Candidate(r, f).parent
<1>1. Selected(r, f) =
        [file |-> f, name |-> name, isPackage |-> f.init, parent |-> p,
         status |-> IF Beside(r, f) THEN "shadowed" ELSE s]
  BY DEF Selected
<1>2. s = (IF name = NoName THEN "path_only" ELSE "bound") /\ (name = NoName => p = NoName)
  BY CandidateFields
<1> HIDE DEF name, s, p
<1>3. /\ IsModule(Selected(r, f))
      /\ Selected(r, f).file = f /\ Selected(r, f).name = name /\ Selected(r, f).isPackage = f.init
      /\ Selected(r, f).status = IF Beside(r, f) THEN "shadowed" ELSE s
      /\ Selected(r, f).parent = p
  BY <1>1 DEF IsModule
<1> QED BY <1>2, <1>3 DEF name, Status, Beside

\* What a file is when its root is discovered.
LEMMA SettledFields ==
  ASSUME disk \in Disks, NEW r \in DOMAIN Roots, NEW f \in Owned(r)
  PROVE  LET m == Settled(r, f)
         IN /\ m.file = f /\ m.name = NameBelow(r, f) /\ m.isPackage = f.init
            /\ m.status = "bound" <=> m.name # NoName /\ ~Beside(r, f) /\ ~Blocked(r, f)
            /\ m.status \in Status \ {"ambiguous"}
            /\ m.status = "shadowed" => ~m.isPackage
            /\ m.status = "path_only" => m.parent = NoName
<1>1. /\ IsModule(Selected(r, f))
      /\ Selected(r, f).file = f /\ Selected(r, f).name = NameBelow(r, f)
      /\ Selected(r, f).isPackage = f.init
      /\ Selected(r, f).status = "bound" <=> NameBelow(r, f) # NoName /\ ~Beside(r, f)
      /\ Selected(r, f).status \in Status \ {"ambiguous"}
      /\ Selected(r, f).status = "shadowed" => ~Selected(r, f).isPackage
      /\ Selected(r, f).status = "path_only" => Selected(r, f).parent = NoName
  BY SelectedFields
<1>2. CASE Blocked(r, f)
  <2>1. Settled(r, f) = [Selected(r, f) EXCEPT !.status = "path_only", !.parent = NoName]
    BY <1>2 DEF Settled
  <2>2. /\ Settled(r, f).file = Selected(r, f).file /\ Settled(r, f).name = Selected(r, f).name
        /\ Settled(r, f).isPackage = Selected(r, f).isPackage
        /\ Settled(r, f).status = "path_only" /\ Settled(r, f).parent = NoName
    BY <2>1, <1>1 DEF IsModule
  <2> QED BY <1>1, <1>2, <2>2 DEF Status
<1>3. CASE ~Blocked(r, f)
  BY <1>1, <1>3 DEF Settled
<1> QED BY <1>2, <1>3

\* What one root contributes to the catalogue: each file it owns, once.
LEMMA DiscoveredModules ==
  ASSUME disk \in Disks, NEW r \in DOMAIN Roots
  PROVE  Discovered(r) = {Settled(r, f) : f \in Owned(r)}
<1> DEFINE ms     == SelectPackages(Candidates(r))
           plain  == BoundPlainNames(ms)
           Below(m) == Ancestors(m.name) \cap plain # {}
<1>1. ms = {Selected(r, f) : f \in Owned(r)}
  <2>1. ms = {[m EXCEPT !.status =
                 IF Cardinality(SameName(Candidates(r), m)) < 2 THEN @
                 ELSE IF Duplicated(Candidates(r), m) THEN "ambiguous"
                 ELSE IF m.isPackage THEN @ ELSE "shadowed"] : m \in Candidates(r)}
    BY DEF SelectPackages
  <2>2. \A f \in Owned(r) :
          LET m == Candidate(r, f)
          IN /\ m \in Candidates(r)
             /\ [m EXCEPT !.status =
                   IF Cardinality(SameName(Candidates(r), m)) < 2 THEN @
                   ELSE IF Duplicated(Candidates(r), m) THEN "ambiguous"
                   ELSE IF m.isPackage THEN @ ELSE "shadowed"] = Selected(r, f)
    BY SelectedStatus DEF Candidates
  <2>3. \A m \in Candidates(r) : \E f \in Owned(r) : m = Candidate(r, f)
    BY DEF Candidates
  <2> HIDE DEF ms
  <2>4. \A n \in ms : \E f \in Owned(r) : n = Selected(r, f)
    BY <2>1, <2>2, <2>3
  <2>5. \A f \in Owned(r) : Selected(r, f) \in ms
    BY <2>1, <2>2
  <2> QED BY <2>4, <2>5
<1> HIDE DEF ms
<1>2. plain = PlainNames(r)
  <2>1. \A m \in ms : \E f \in Owned(r) :
          /\ m = Selected(r, f) /\ m.name = NameBelow(r, f) /\ m.isPackage = f.init
          /\ m.status = "bound" <=> NameBelow(r, f) # NoName /\ ~Beside(r, f)
    BY <1>1, SelectedFields
  <2>2. \A f \in Owned(r) : Selected(r, f) \in ms
    BY <1>1
  <2>3. plain = {m.name : m \in {o \in ms : o.status = "bound" /\ ~o.isPackage}}
    BY DEF BoundPlainNames, Bound
  <2>4. plain \subseteq PlainNames(r)
    BY <2>1, <2>3 DEF PlainNames
  <2>5. PlainNames(r) \subseteq plain
    <3> SUFFICES ASSUME NEW f \in Owned(r), ~f.init, ~Beside(r, f)
                 PROVE  NameBelow(r, f) \in plain
      BY DEF PlainNames
    <3>1. NameBelow(r, f) # NoName
      BY OwnedFiles
    <3>2. /\ Selected(r, f).name = NameBelow(r, f) /\ ~Selected(r, f).isPackage
          /\ Selected(r, f).status = "bound"
      BY <3>1, SelectedFields
    <3> QED BY <3>2, <2>2, <2>3
  <2> QED BY <2>4, <2>5
<1> HIDE DEF plain
<1>3. Discovered(r) = {m \in ms : ~Below(m)} \cup
                      {[m EXCEPT !.status = "path_only", !.parent = NoName] : m \in {o \in ms : Below(o)}}
  BY DEF Discovered, RemoveAmbiguousGroups, BlockChildren, ms, plain
<1>4. \A f \in Owned(r) : Below(Selected(r, f)) <=> Blocked(r, f)
  BY <1>2, SelectedFields DEF Blocked
<1> HIDE DEF Below
<1>5. \A m \in Discovered(r) : \E f \in Owned(r) : m = Settled(r, f)
  <2> SUFFICES ASSUME NEW m \in Discovered(r) PROVE \E f \in Owned(r) : m = Settled(r, f)
    OBVIOUS
  <2>1. CASE m \in ms /\ ~Below(m)
    BY <2>1, <1>1, <1>4 DEF Settled
  <2>2. CASE \E o \in ms : Below(o) /\ m = [o EXCEPT !.status = "path_only", !.parent = NoName]
    <3>1. PICK o \in ms : Below(o) /\ m = [o EXCEPT !.status = "path_only", !.parent = NoName]
      BY <2>2
    <3>2. PICK f \in Owned(r) : o = Selected(r, f)
      BY <1>1
    <3> QED BY <3>1, <3>2, <1>4 DEF Settled
  <2> QED BY <2>1, <2>2, <1>3
<1>6. \A f \in Owned(r) : Settled(r, f) \in Discovered(r)
  <2> SUFFICES ASSUME NEW f \in Owned(r) PROVE Settled(r, f) \in Discovered(r)
    OBVIOUS
  <2>1. Selected(r, f) \in ms
    BY <1>1
  <2>2. CASE Blocked(r, f)
    BY <2>1, <2>2, <1>3, <1>4 DEF Settled
  <2>3. CASE ~Blocked(r, f)
    BY <2>1, <2>3, <1>3, <1>4 DEF Settled
  <2> QED BY <2>2, <2>3
<1> QED BY <1>5, <1>6
-----------------------------------------------------------------------------
(* The catalogue                                                           *)

Assembled(n) == UNION {Discovered(r) : r \in 1 .. n}

\* before the reconciliation the catalogue is what the visited roots contribute, and after it
\* the same with the conflicts marked and reported
CatalogueInv ==
  /\ ~reconciled => modules = Assembled(visited)
  /\ reconciled => /\ modules = MarkConflicts(Assembled(Len(Roots)))
                   /\ \A n \in Conflicting(Assembled(Len(Roots))) :
                        [code |-> "ambiguous_import_binding", name |-> n] \in errors

\* Whence the modules of the first n roots.
LEMMA AssembledModules ==
  ASSUME disk \in Disks, NEW n \in 0 .. Len(Roots), NEW m
  PROVE  m \in Assembled(n) <=> \E r \in 1 .. n : \E f \in Owned(r) : m = Settled(r, f)
<1>1. \A r \in 1 .. n : r \in DOMAIN Roots
  BY RootsArePaths
<1> QED BY <1>1, DiscoveredModules DEF Assembled

\* A settled source is a module.
LEMMA ModuleFields ==
  ASSUME NEW r, NEW f
  PROVE  IsModule(Settled(r, f))
BY DEF Settled, Selected, IsModule

\* Marking changes the status of a module only.
LEMMA MarkedFields ==
  ASSUME disk \in Disks, NEW n \in MarkConflicts(Assembled(Len(Roots)))
  PROVE  \E m \in Assembled(Len(Roots)) :
           /\ n.file = m.file /\ n.name = m.name /\ n.isPackage = m.isPackage
           /\ n = [m EXCEPT !.status = IF @ = "bound" /\ m.name \in Conflicting(Assembled(Len(Roots)))
                                       THEN "ambiguous" ELSE @]
           /\ n.status = "bound" => n = m /\ m.name \notin Conflicting(Assembled(Len(Roots)))
<1> DEFINE all == Assembled(Len(Roots))
<1>1. PICK m \in all :
        n = [m EXCEPT !.status = IF m.status = "bound" /\ m.name \in Conflicting(all)
                                 THEN "ambiguous" ELSE m.status]
  BY DEF MarkConflicts
<1>2. Len(Roots) \in 0 .. Len(Roots)
  BY RootsArePaths
<1>3. IsModule(m)
  BY <1>2, AssembledModules, ModuleFields
<1> DEFINE s == IF m.status = "bound" /\ m.name \in Conflicting(all) THEN "ambiguous" ELSE m.status
<1>4. n = [m EXCEPT !.status = s]
  BY <1>1
<1>5. s = "ambiguous" \/ (s = m.status /\ ~(m.status = "bound" /\ m.name \in Conflicting(all)))
  OBVIOUS
<1> HIDE DEF s, all
<1>6. /\ n.status = s /\ n.file = m.file /\ n.name = m.name /\ n.isPackage = m.isPackage
      /\ s = m.status => n = m
  BY <1>3, <1>4, StatusReplaced
<1>7. n.status = "bound" => n = m /\ m.name \notin Conflicting(all)
  BY <1>5, <1>6
<1> QED BY <1>1, <1>6, <1>7 DEF all

\* Each file below a selected root is one module of the assembled catalogue, and no other is.
LEMMA OneModulePerFile ==
  ASSUME disk \in Disks, NEW f \in disk.files
  PROVE  /\ \A m, n \in Assembled(Len(Roots)) : m.file = f /\ n.file = f => m = n
         /\ (\E m \in Assembled(Len(Roots)) : m.file = f)
              <=> \E r \in DOMAIN Roots : IsPrefix(Roots[r], Directory(f))
<1> DEFINE all == Assembled(Len(Roots))
<1>1. /\ DOMAIN Roots = 1 .. Len(Roots) /\ Len(Roots) \in 0 .. Len(Roots)
  BY RootsArePaths
<1>2. \A m : m \in all <=> \E r \in DOMAIN Roots : \E g \in Owned(r) : m = Settled(r, g)
  BY <1>1, AssembledModules
<1> HIDE DEF all
<1>3. \A m \in all : \E r \in DOMAIN Roots : m = Settled(r, m.file) /\ m.file \in Owned(r)
  BY <1>2, SettledFields
<1>4. ASSUME NEW m \in all, NEW n \in all, m.file = f, n.file = f
      PROVE  m = n
  <2>1. PICK r \in DOMAIN Roots : m = Settled(r, f) /\ f \in Owned(r)
    BY <1>3, <1>4
  <2>2. PICK o \in DOMAIN Roots : n = Settled(o, f) /\ f \in Owned(o)
    BY <1>3, <1>4
  <2>3. r = o
    BY <2>1, <2>2, OneOwner DEF Owned
  <2> QED BY <2>1, <2>2, <2>3
<1>5. ASSUME NEW m \in all, m.file = f
      PROVE  \E r \in DOMAIN Roots : IsPrefix(Roots[r], Directory(f))
  BY <1>3, <1>5 DEF Owned, Owns
<1>6. ASSUME NEW q \in DOMAIN Roots, IsPrefix(Roots[q], Directory(f))
      PROVE  \E m \in all : m.file = f
  <2>1. PICK r \in DOMAIN Roots : Owns(r, f)
    BY <1>6, SomeOwner
  <2>2. f \in Owned(r)
    BY <2>1 DEF Owned
  <2>3. Settled(r, f) \in all /\ Settled(r, f).file = f
    BY <2>2, <1>2, SettledFields
  <2> QED BY <2>3
<1> QED BY <1>4, <1>5, <1>6 DEF all

\* Hence the reconciled catalogue has each file once.
LEMMA FilesAreModules ==
  ASSUME disk \in Disks, modules = MarkConflicts(Assembled(Len(Roots)))
  PROVE  EveryFileIsOneModule
<1> DEFINE all == Assembled(Len(Roots))
<1> SUFFICES ASSUME NEW f \in disk.files
             PROVE  Cardinality({m \in modules : m.file = f}) =
                      IF \E r \in DOMAIN Roots : IsPrefix(Roots[r], Directory(f)) THEN 1 ELSE 0
  BY DEF EveryFileIsOneModule
<1> DEFINE mine    == {m \in modules : m.file = f}
           Mark(m) == [m EXCEPT !.status = IF @ = "bound" /\ m.name \in Conflicting(all)
                                           THEN "ambiguous" ELSE @]
<1>1. modules = {Mark(m) : m \in all}
  BY DEF MarkConflicts
<1>2. \A n \in modules : \E m \in all : n.file = m.file /\ n = Mark(m)
  BY MarkedFields
<1>3. \A m \in all : Mark(m) \in modules /\ Mark(m).file = m.file
  <2>1. \A m \in all : IsModule(m)
    BY RootsArePaths, AssembledModules, ModuleFields
  <2> QED BY <1>1, <2>1, StatusReplaced
<1> HIDE DEF all, Mark
<1>4. CASE \E r \in DOMAIN Roots : IsPrefix(Roots[r], Directory(f))
  <2>1. PICK m \in all : m.file = f
    BY <1>4, OneModulePerFile DEF all
  <2>2. Mark(m) \in mine
    BY <2>1, <1>3
  <2>3. \A n \in mine : n = Mark(m)
    BY <2>1, <1>2, OneModulePerFile DEF all
  <2>4. mine = {Mark(m)}
    BY <2>2, <2>3
  <2> QED BY <2>4, <1>4, FS_Singleton
<1>5. CASE ~ \E r \in DOMAIN Roots : IsPrefix(Roots[r], Directory(f))
  <2>1. mine = {}
    BY <1>5, <1>2, OneModulePerFile DEF all
  <2> QED BY <2>1, <1>5, FS_EmptySet
<1> QED BY <1>4, <1>5
-----------------------------------------------------------------------------
(* Paths below a root                                                      *)

Upto(n, j) == SubSeq(n, 1, j)

Place(d, n, j) == d \o Upto(n, j)

\* The first j identifiers of a name.
LEMMA UptoMeans ==
  ASSUME NEW n \in Seq(STRING), NEW j \in 0 .. Len(n)
  PROVE  /\ Upto(n, j) \in Seq(STRING) /\ Len(Upto(n, j)) = j
         /\ \A k \in 1 .. j : Upto(n, j)[k] = n[k]
         /\ \A k \in 0 .. j : Upto(Upto(n, j), k) = Upto(n, k)
BY DEF Upto

\* All its identifiers make the name.
LEMMA UptoEnd ==
  ASSUME NEW n \in Seq(STRING)
  PROVE  Upto(n, Len(n)) = n
BY DEF Upto

\* The path of a place, position by position.
LEMMA PlaceMeans ==
  ASSUME NEW d \in Seq(STRING), NEW n \in Seq(STRING), NEW j \in 0 .. Len(n)
  PROVE  /\ Place(d, n, j) \in Seq(STRING) /\ Len(Place(d, n, j)) = Len(d) + j
         /\ \A k \in 1 .. Len(d) + j : Place(d, n, j)[k] = IF k <= Len(d) THEN d[k] ELSE n[k - Len(d)]
<1>1. Upto(n, j) \in Seq(STRING) /\ Len(Upto(n, j)) = j /\ \A k \in 1 .. j : Upto(n, j)[k] = n[k]
  BY UptoMeans
<1> DEFINE u == Upto(n, j)
<1> HIDE DEF u
<1>2. d \o u \in Seq(STRING) /\ Len(d \o u) = Len(d) + Len(u)
      /\ \A k \in 1 .. Len(d) + Len(u) : (d \o u)[k] = IF k <= Len(d) THEN d[k] ELSE u[k - Len(d)]
  BY <1>1 DEF u
<1>3. ASSUME NEW k \in 1 .. Len(d) + j
      PROVE  (d \o u)[k] = IF k <= Len(d) THEN d[k] ELSE n[k - Len(d)]
  <2>1. CASE k <= Len(d)
    BY <2>1, <1>1, <1>2 DEF u
  <2>2. CASE ~(k <= Len(d))
    <3>1. k - Len(d) \in 1 .. j
      BY <2>2
    <3>2. u[k - Len(d)] = n[k - Len(d)]
      BY <3>1, <1>1 DEF u
    <3> QED BY <3>2, <2>2, <1>1, <1>2 DEF u
  <2> QED BY <2>1, <2>2
<1> QED BY <1>1, <1>2, <1>3 DEF Place, u

\* Two places on the way to one name share what lies above both.
LEMMA PlacesAgree ==
  ASSUME NEW d \in Seq(STRING), NEW n \in Seq(STRING), NEW i \in 0 .. Len(n), NEW j \in 0 .. Len(n),
         i <= j, NEW k \in 1 .. Len(d) + i
  PROVE  Place(d, n, i)[k] = Place(d, n, j)[k]
<1>1. k \in 1 .. Len(d) + j
  OBVIOUS
<1> QED BY <1>1, PlaceMeans

\* One identifier further down.
LEMMA PlaceStep ==
  ASSUME NEW d \in Seq(STRING), NEW n \in Seq(STRING), NEW j \in 1 .. Len(n)
  PROVE  Append(Place(d, n, j - 1), n[j]) = Place(d, n, j)
<1>1. j - 1 \in 0 .. Len(n) /\ j \in 0 .. Len(n) /\ n[j] \in STRING
  OBVIOUS
<1> DEFINE u == Place(d, n, j - 1)
           v == Place(d, n, j)
<1>2. u \in Seq(STRING) /\ v \in Seq(STRING) /\ Len(u) = Len(d) + (j - 1) /\ Len(v) = Len(d) + j
  BY <1>1, PlaceMeans
<1>3. \A k \in 1 .. Len(u) : u[k] = v[k]
  <2>1. j - 1 <= j /\ Len(u) = Len(d) + (j - 1)
    BY <1>2
  <2> QED BY <1>1, <2>1, PlacesAgree
<1>4. v[Len(v)] = n[j]
  <2>1. Len(d) + j \in 1 .. Len(d) + j /\ ~(Len(d) + j <= Len(d)) /\ (Len(d) + j) - Len(d) = j
    OBVIOUS
  <2>2. v[Len(d) + j] = n[(Len(d) + j) - Len(d)]
    BY <1>1, <2>1, PlaceMeans
  <2> QED BY <1>2, <2>1, <2>2
<1> HIDE DEF u, v
<1>5. /\ Append(u, n[j]) \in Seq(STRING) /\ Len(Append(u, n[j])) = Len(u) + 1
      /\ \A k \in 1 .. Len(u) : Append(u, n[j])[k] = u[k]
      /\ Append(u, n[j])[Len(u) + 1] = n[j]
  BY <1>1, <1>2
<1>6. \A k \in 1 .. Len(v) : Append(u, n[j])[k] = v[k]
  BY <1>2, <1>3, <1>4, <1>5
<1>7. Append(u, n[j]) = v
  BY <1>2, <1>5, <1>6
<1> QED BY <1>7 DEF u, v

\* What lies below a place lies below the places above it.
LEMMA PlacePrefix ==
  ASSUME NEW d \in Seq(STRING), NEW n \in Seq(STRING), NEW j \in 0 .. Len(n), NEW t \in Seq(STRING),
         NEW i \in 0 .. j, IsPrefix(Place(d, n, j), t)
  PROVE  IsPrefix(Place(d, n, i), t)
<1>1. i \in 0 .. Len(n)
  OBVIOUS
<1>2. Place(d, n, j) \in Seq(STRING) /\ Place(d, n, i) \in Seq(STRING)
      /\ Len(Place(d, n, j)) = Len(d) + j /\ Len(Place(d, n, i)) = Len(d) + i
  BY <1>1, PlaceMeans
<1>3. \A k \in 1 .. Len(Place(d, n, i)) : Place(d, n, i)[k] = Place(d, n, j)[k]
  BY <1>1, <1>2, PlacesAgree
<1>4. Len(Place(d, n, j)) <= Len(t) /\ \A k \in 1 .. Len(Place(d, n, j)) : Place(d, n, j)[k] = t[k]
  BY <1>2, PrefixMeans
<1>5. Len(Place(d, n, i)) <= Len(t) /\ \A k \in 1 .. Len(Place(d, n, i)) : Place(d, n, i)[k] = t[k]
  BY <1>2, <1>3, <1>4
<1> QED BY <1>2, <1>5, PrefixMeans

\* A root whose path is another root's path and a part of the name.
LEMMA CrossingRoot ==
  ASSUME NEW r \in DOMAIN Roots, NEW o \in DOMAIN Roots, NEW n \in Seq(STRING),
         NEW j \in 1 .. Len(n), IsPrefix(Place(Roots[r], n, j), Roots[o])
  PROVE  CrossesRoot(n)
<1>1. Upto(n, j) \in Lineage(n)
  BY DEF Upto, Lineage
<1> QED BY <1>1 DEF CrossesRoot, Place

\* Two roots in which one place lies on the way to a name's file are one root.
LEMMA OneRootOnTheWay ==
  ASSUME NEW r \in DOMAIN Roots, NEW o \in DOMAIN Roots, NEW n \in Seq(STRING), ~CrossesRoot(n),
         NEW j \in 1 .. Len(n), IsPrefix(Place(Roots[o], n, j), Place(Roots[r], n, Len(n)))
  PROVE  o = r
<1> DEFINE d == Roots[r]
           e == Roots[o]
           w == Place(d, n, Len(n))
           a == Len(e)
           b == Len(d)
<1>1. d \in Seq(STRING) /\ e \in Seq(STRING) /\ j \in 0 .. Len(n) /\ Len(n) \in 0 .. Len(n)
      /\ a \in Nat /\ b \in Nat
  BY RootsArePaths
<1>2. w \in Seq(STRING) /\ Len(w) = b + Len(n)
      /\ Place(e, n, j) \in Seq(STRING) /\ Len(Place(e, n, j)) = a + j
  BY <1>1, PlaceMeans
<1>3. a + j <= b + Len(n) /\ \A k \in 1 .. a + j : Place(e, n, j)[k] = w[k]
  BY <1>2, PrefixMeans
<1>4. \A k \in 1 .. a : e[k] = w[k]
  <2>1. \A k \in 1 .. a : k \in 1 .. a + j /\ k <= a
    BY <1>1
  <2>2. \A k \in 1 .. a : Place(e, n, j)[k] = e[k]
    BY <1>1, <2>1, PlaceMeans
  <2> QED BY <2>1, <2>2, <1>3
<1>5. \A k \in 1 .. b : d[k] = w[k]
  <2>1. \A k \in 1 .. b : k \in 1 .. b + Len(n) /\ k <= b
    BY <1>1
  <2> QED BY <1>1, <2>1, PlaceMeans
<1>6. CASE a = b
  <2>1. e = d
    BY <1>1, <1>4, <1>5, <1>6
  <2> QED BY <2>1, RootsArePaths
<1>7. CASE a < b
  <2> DEFINE i == IF a + j <= b THEN j ELSE b - a
  <2>1. i \in 1 .. Len(n) /\ i <= j /\ a + i <= b /\ i \in 0 .. Len(n)
    BY <1>1, <1>7
  <2> HIDE DEF i
  <2>2. Place(e, n, i) \in Seq(STRING) /\ Len(Place(e, n, i)) = a + i
    BY <1>1, <2>1, PlaceMeans
  <2>3. \A k \in 1 .. a + i : Place(e, n, i)[k] = d[k]
    <3> SUFFICES ASSUME NEW k \in 1 .. a + i PROVE Place(e, n, i)[k] = d[k]
      OBVIOUS
    <3>1. k \in 1 .. a + j /\ k \in 1 .. b
      BY <1>1, <2>1
    <3>2. Place(e, n, i)[k] = Place(e, n, j)[k]
      BY <1>1, <2>1, PlacesAgree
    <3> QED BY <3>1, <3>2, <1>3, <1>5
  <2>4. IsPrefix(Place(e, n, i), d)
    BY <1>1, <2>1, <2>2, <2>3, PrefixMeans
  <2> QED BY <2>1, <2>4, CrossingRoot
<1>8. CASE a > b
  <2> DEFINE i == a - b
  <2>1. i \in 1 .. Len(n) /\ b + i = a /\ i \in 0 .. Len(n)
    BY <1>1, <1>3, <1>8
  <2> HIDE DEF i
  <2>2. Place(d, n, i) \in Seq(STRING) /\ Len(Place(d, n, i)) = a
    BY <1>1, <2>1, PlaceMeans
  <2>3. \A k \in 1 .. a : Place(d, n, i)[k] = e[k]
    <3> SUFFICES ASSUME NEW k \in 1 .. a PROVE Place(d, n, i)[k] = e[k]
      OBVIOUS
    <3>1. Place(d, n, i)[k] = w[k]
      BY <1>1, <2>1, PlacesAgree
    <3> QED BY <3>1, <1>4
  <2>4. IsPrefix(Place(d, n, i), e)
    BY <1>1, <2>2, <2>3, PrefixMeans
  <2> QED BY <2>1, <2>4, CrossingRoot
<1> QED BY <1>1, <1>6, <1>7, <1>8

\* Unless the name crosses a root, what lies at its place below a root is that root's own.
LEMMA PlaceIsBelow ==
  ASSUME NEW n \in Seq(STRING), ~CrossesRoot(n), NEW j \in 1 .. Len(n),
         NEW r \in DOMAIN Roots, NEW f, WellFormed(f), f.at = Place(Roots[r], n, j)
  PROVE  /\ Owns(r, f) /\ NameBelow(r, f) = Upto(n, j)
         /\ IsPrefix(Place(Roots[r], n, j - 1), Directory(f))
<1> DEFINE d == Roots[r]
           w == Place(d, n, j)
<1>1. d \in Seq(STRING) /\ j \in 0 .. Len(n) /\ j - 1 \in 0 .. Len(n) /\ 0 \in 0 .. Len(n)
  BY RootsArePaths
<1>2. w \in Seq(STRING) /\ Len(w) = Len(d) + j /\ Place(d, n, j - 1) \in Seq(STRING)
      /\ Len(Place(d, n, j - 1)) = Len(d) + (j - 1)
  BY <1>1, PlaceMeans
<1>3. /\ Directory(f) \in Seq(STRING) /\ f.init \in BOOLEAN
      /\ f.init => Directory(f) = w
      /\ ~f.init => Directory(f) = SubSeq(w, 1, Len(w) - 1)
  BY DirectoryFields
<1>4. /\ Len(Directory(f)) \in Len(d) + (j - 1) .. Len(d) + j
      /\ \A k \in 1 .. Len(Directory(f)) : Directory(f)[k] = w[k]
  BY <1>1, <1>2, <1>3
<1>5. IsPrefix(Place(d, n, j - 1), Directory(f))
  <2>1. \A k \in 1 .. Len(d) + (j - 1) : Place(d, n, j - 1)[k] = Directory(f)[k]
    <3> SUFFICES ASSUME NEW k \in 1 .. Len(d) + (j - 1) PROVE Place(d, n, j - 1)[k] = Directory(f)[k]
      OBVIOUS
    <3>1. j - 1 <= j /\ k \in 1 .. Len(Directory(f))
      BY <1>1, <1>4
    <3>2. Place(d, n, j - 1)[k] = w[k]
      BY <1>1, <3>1, PlacesAgree
    <3> QED BY <3>1, <3>2, <1>4
  <2>2. Len(d) + (j - 1) <= Len(Directory(f))
    BY <1>1, <1>4
  <2> QED BY <1>2, <1>3, <2>1, <2>2, PrefixMeans
<1>6. IsPrefix(d, Directory(f))
  <2>1. \A k \in 1 .. Len(d) : d[k] = w[k] /\ k \in 1 .. Len(Directory(f))
    <3>1. \A k \in 1 .. Len(d) : k \in 1 .. Len(d) + j /\ k <= Len(d) /\ k \in 1 .. Len(Directory(f))
      BY <1>1, <1>4
    <3> QED BY <1>1, <3>1, PlaceMeans
  <2>2. Len(d) <= Len(Directory(f))
    BY <1>1, <1>4
  <2> QED BY <1>1, <1>3, <1>4, <2>1, <2>2, PrefixMeans
<1>7. ASSUME NEW o \in DOMAIN Roots, IsStrictPrefix(d, Roots[o]), IsPrefix(Roots[o], Directory(f))
      PROVE  FALSE
  <2> DEFINE e == Roots[o]
             i == Len(e) - Len(d)
  <2>1. e \in Seq(STRING) /\ Len(d) <= Len(e) /\ \A k \in 1 .. Len(d) : d[k] = e[k]
    BY <1>1, <1>7, RootsArePaths, PrefixMeans DEF IsStrictPrefix
  <2>2. Len(e) # Len(d)
    BY <1>1, <2>1, <1>7 DEF IsStrictPrefix
  <2>3. Len(e) <= Len(Directory(f)) /\ \A k \in 1 .. Len(e) : e[k] = w[k]
    BY <2>1, <1>3, <1>4, <1>7, PrefixMeans
  <2>4. i \in 1 .. j /\ i \in 0 .. Len(n) /\ i \in 1 .. Len(n) /\ Len(d) + i = Len(e)
    BY <1>1, <1>4, <2>1, <2>2, <2>3
  <2> HIDE DEF i
  <2>5. Place(d, n, i) \in Seq(STRING) /\ Len(Place(d, n, i)) = Len(e)
    BY <1>1, <2>4, PlaceMeans
  <2>6. \A k \in 1 .. Len(e) : Place(d, n, i)[k] = e[k]
    <3> SUFFICES ASSUME NEW k \in 1 .. Len(e) PROVE Place(d, n, i)[k] = e[k]
      OBVIOUS
    <3>1. Place(d, n, i)[k] = w[k]
      BY <1>1, <2>4, PlacesAgree
    <3> QED BY <3>1, <2>3
  <2>7. IsPrefix(Place(d, n, i), e)
    BY <2>1, <2>5, <2>6, PrefixMeans
  <2> QED BY <2>4, <2>7, CrossingRoot
<1>8. Owns(r, f)
  BY <1>6, <1>7 DEF Owns
<1>9. NameBelow(r, f) = Upto(n, j)
  <2>1. f.at = d \o Upto(n, j) /\ Upto(n, j) \in Seq(STRING)
    BY <1>1, UptoMeans DEF Place
  <2>2. f.at = d \o NameBelow(r, f) /\ NameBelow(r, f) \in Seq(STRING)
    BY <1>8, NameIsBelow
  <2> HIDE DEF d
  <2>3. ASSUME NEW s \in Seq(STRING), NEW t \in Seq(STRING), d \o s = d \o t
        PROVE  s = t
    <3>1. Len(d \o s) = Len(d) + Len(s) /\ Len(d \o t) = Len(d) + Len(t)
      BY <1>1
    <3>2. Len(s) = Len(t)
      BY <1>1, <2>3, <3>1
    <3>3. \A k \in 1 .. Len(s) : (d \o s)[k + Len(d)] = s[k] /\ (d \o t)[k + Len(d)] = t[k]
      BY <1>1, <3>2
    <3> QED BY <2>3, <3>2, <3>3
  <2> QED BY <2>1, <2>2, <2>3
<1> QED BY <1>5, <1>8, <1>9
\* The same of the files the catalogue is made of.
LEMMA PlaceIsOwned ==
  ASSUME disk \in Disks, NEW n \in Seq(STRING), ~CrossesRoot(n), NEW j \in 1 .. Len(n),
         NEW r \in DOMAIN Roots, NEW f \in disk.files, f.at = Place(Roots[r], n, j)
  PROVE  /\ f \in Owned(r) /\ NameBelow(r, f) = Upto(n, j)
         /\ IsPrefix(Place(Roots[r], n, j - 1), Directory(f))
BY FilesAreWellFormed, PlaceIsBelow DEF Owned
-----------------------------------------------------------------------------
(* Python's lookup, identifier by identifier                               *)

IsLookup(f, path, n) ==
  f = [k \in 0 .. Len(n) |-> IF k = 0 THEN [Finder!Nothing EXCEPT !.path = path]
                             ELSE Finder!Search(f[k - 1].path, n[k])]

\* The lookup that Finds defines by recursion exists.
LEMMA LookupExists ==
  ASSUME NEW path, NEW n \in Seq(STRING)
  PROVE  \E f : IsLookup(f, path, n)
<1> DEFINE start      == [Finder!Nothing EXCEPT !.path = path]
           Is(f, m)   == f = [k \in 0 .. m |-> IF k = 0 THEN start ELSE Finder!Search(f[k - 1].path, n[k])]
           none       == {m \in Nat : ~ \E f : Is(f, m)}
<1> HIDE DEF start
<1>1. none = {}
  <2> SUFFICES ASSUME none # {} PROVE FALSE
    OBVIOUS
  <2>1. PICK m \in none : \A l \in none : m <= l
    BY LeastElementExists
  <2>2. m # 0
    <3> DEFINE f == [k \in 0 .. 0 |-> start]
    <3>1. Is(f, 0)
      OBVIOUS
    <3> QED BY <3>1
  <2>3. m - 1 \in Nat /\ m - 1 \notin none
    BY <2>1, <2>2
  <2>4. PICK g : Is(g, m - 1)
    BY <2>3
  <2> DEFINE f == [k \in 0 .. m |-> IF k = m THEN Finder!Search(g[m - 1].path, n[m]) ELSE g[k]]
  <2>5. \A k \in 0 .. m : f[k] = IF k = 0 THEN start ELSE Finder!Search(f[k - 1].path, n[k])
    <3> SUFFICES ASSUME NEW k \in 0 .. m
                 PROVE  f[k] = IF k = 0 THEN start ELSE Finder!Search(f[k - 1].path, n[k])
      OBVIOUS
    <3>1. k # 0 => k - 1 \in 0 .. m - 1 /\ k - 1 \in 0 .. m /\ k - 1 # m
      BY <2>1
    <3>2. k # 0 => f[k - 1] = g[k - 1]
      BY <3>1
    <3>3. CASE k = m
      BY <3>2, <3>3, <2>2
    <3>4. CASE k # m
      <4>1. k \in 0 .. m - 1
        BY <2>1, <3>4
      <4>2. g[k] = IF k = 0 THEN start ELSE Finder!Search(g[k - 1].path, n[k])
        BY <4>1, <2>4
      <4> QED BY <4>2, <3>2, <3>4
    <3> QED BY <3>3, <3>4
  <2>6. f = [k \in 0 .. m |-> f[k]]
    OBVIOUS
  <2> HIDE DEF f
  <2>7. Is(f, m)
    BY <2>5, <2>6
  <2> QED BY <2>7, <2>1
<1>2. Len(n) \in Nat
  OBVIOUS
<1> QED BY <1>1, <1>2 DEF IsLookup, start

\* Finds is the end of that lookup.
LEMMA FindsByLookup ==
  ASSUME NEW path, NEW n \in Seq(STRING)
  PROVE  \E f : IsLookup(f, path, n) /\ Finder!Finds(path, n) = f[Len(n)]
<1> DEFINE found == CHOOSE f : IsLookup(f, path, n)
<1>1. IsLookup(found, path, n)
  BY LookupExists
<1>2. Finder!Finds(path, n) = found[Len(n)]
  BY DEF Finder!Finds, IsLookup
<1> QED BY <1>1, <1>2

Stepwise(f, n) == \A j \in 1 .. Len(n) : f[j] = Finder!Search(f[j - 1].path, n[j])

\* How the lookup begins and goes on.
LEMMA LookupSteps ==
  ASSUME NEW path, NEW n \in Seq(STRING), NEW f, IsLookup(f, path, n)
  PROVE  f[0].path = path /\ f[0].loads = {} /\ Stepwise(f, n)
<1>1. f[0] = [Finder!Nothing EXCEPT !.path = path]
  BY DEF IsLookup
<1>2. Stepwise(f, n)
  <2> SUFFICES ASSUME NEW j \in 1 .. Len(n) PROVE f[j] = Finder!Search(f[j - 1].path, n[j])
    BY DEF Stepwise
  <2>1. j \in 0 .. Len(n) /\ j # 0
    OBVIOUS
  <2> QED BY <2>1 DEF IsLookup
<1> QED BY <1>1, <1>2 DEF Finder!Nothing

\* an importable file lies at d
Importable(d) == \E f \in disk.files : f.at = d

\* The finder and the catalogue mean the same files.
LEMMA ImportableFiles ==
  ASSUME disk \in Disks, NEW d
  PROVE  /\ Finder!Importable(d) <=> Importable(d)
         /\ Finder!Package(d) = PackageAt(d)
         /\ \A f \in disk.files : f.at = d => f = IF f.init THEN PackageAt(d) ELSE Finder!Plain(d)
<1>1. \A f \in disk.files : f.init \in BOOLEAN /\ f = [at |-> f.at, init |-> f.init]
  BY FilesAreWellFormed
<1>2. \A f \in disk.files : f.at = d => f = IF f.init THEN PackageAt(d) ELSE Finder!Plain(d)
  BY <1>1 DEF PackageAt, Finder!Plain
<1>3. Finder!Package(d) = PackageAt(d) /\ PackageAt(d).at = d /\ Finder!Plain(d).at = d
  BY DEF Finder!Package, PackageAt, Finder!Plain
<1>4. Finder!Importable(d) <=> Importable(d)
  BY <1>2, <1>3 DEF Finder!Importable, Importable
<1> QED BY <1>2, <1>3, <1>4

\* The finder and the catalogue mean the same directories.
LEMMA DirectoryOfFile ==
  ASSUME disk \in Disks, NEW d \in Seq(STRING)
  PROVE  Finder!IsDirectory(d) <=> \E f \in disk.files : IsPrefix(d, Directory(f))
<1>1. \A f \in disk.files : Finder!Holder(f) = Directory(f)
  BY DEF Finder!Holder, Directory, Finder!Front, Front
<1>2. \A t : Finder!IsPrefix(d, t) <=> IsPrefix(d, t)
  BY DEF Finder!IsPrefix, IsPrefix
<1> QED BY <1>1, <1>2 DEF Finder!IsDirectory

\* No directory of the path has the identifier: what remains is a namespace.
LEMMA SearchMisses ==
  ASSUME disk \in Disks, NEW path, NEW i,
         \A k \in DOMAIN path : ~Importable(Append(path[k], i))
  PROVE  LET found == Finder!Search(path, i)
         IN /\ found.loads = {}
            /\ DOMAIN found.path = {k \in DOMAIN path : Finder!IsDirectory(Append(path[k], i))}
            /\ \A k \in DOMAIN found.path : found.path[k] = Append(path[k], i)
<1> DEFINE hits     == {k \in DOMAIN path : Finder!Importable(Append(path[k], i))}
           portions == {k \in DOMAIN path : Finder!IsDirectory(Append(path[k], i))}
<1>1. hits = {}
  BY ImportableFiles
<1>2. Finder!Search(path, i) = [loads |-> {}, path |-> [k \in portions |-> Append(path[k], i)]]
  BY <1>1 DEF Finder!Search
<1> HIDE DEF portions
<1>3. /\ Finder!Search(path, i).loads = {}
      /\ Finder!Search(path, i).path = [k \in portions |-> Append(path[k], i)]
  BY <1>2
<1> QED BY <1>3 DEF portions

\* Some directory has it: the first of these decides.
LEMMA SearchHits ==
  ASSUME disk \in Disks, NEW path, DOMAIN path \subseteq Nat, NEW i,
         \E k \in DOMAIN path : Importable(Append(path[k], i))
  PROVE  LET found == Finder!Search(path, i)
         IN \E k \in DOMAIN path :
              /\ Importable(Append(path[k], i))
              /\ PackageAt(Append(path[k], i)) \in disk.files =>
                   /\ found.loads = {PackageAt(Append(path[k], i))}
                   /\ DOMAIN found.path = {k} /\ found.path[k] = Append(path[k], i)
              /\ PackageAt(Append(path[k], i)) \notin disk.files =>
                   /\ found.loads = {Finder!Plain(Append(path[k], i))}
                   /\ DOMAIN found.path = {}
<1> DEFINE hits  == {k \in DOMAIN path : Finder!Importable(Append(path[k], i))}
           first == CHOOSE k \in hits : \A l \in hits : k <= l
           at    == Append(path[first], i)
<1>1. hits # {} /\ hits \in SUBSET Nat
  BY ImportableFiles
<1>2. Finder!Search(path, i) =
        IF Finder!Package(at) \in disk.files
        THEN [loads |-> {Finder!Package(at)}, path |-> [k \in {first} |-> Append(path[k], i)]]
        ELSE [loads |-> {Finder!Plain(at)}, path |-> <<>>]
  BY <1>1 DEF Finder!Search
<1> HIDE DEF hits
<1>3. first \in hits
  BY <1>1, LeastElementExists
<1> HIDE DEF first
<1>4. first \in DOMAIN path /\ Importable(at)
  BY <1>3, ImportableFiles DEF hits
<1>5. Finder!Package(at) = PackageAt(at)
  BY ImportableFiles
<1>6. ASSUME PackageAt(at) \in disk.files
      PROVE  /\ Finder!Search(path, i).loads = {PackageAt(at)}
             /\ Finder!Search(path, i).path = [k \in {first} |-> Append(path[k], i)]
  BY <1>2, <1>5, <1>6
<1>7. ASSUME PackageAt(at) \notin disk.files
      PROVE  Finder!Search(path, i).loads = {Finder!Plain(at)} /\ Finder!Search(path, i).path = <<>>
  BY <1>2, <1>5, <1>7
<1>8. DOMAIN <<>> = {}
  OBVIOUS
<1> QED BY <1>4, <1>6, <1>7, <1>8
-----------------------------------------------------------------------------
(* Lookups below the roots                                                 *)

\* A search path has every root, and nothing else.
LEMMA SysPathFacts ==
  ASSUME NEW s \in Finder!SysPaths
  PROVE  /\ DOMAIN s = DOMAIN Roots /\ DOMAIN s \subseteq Nat
         /\ \A k \in DOMAIN s : \E r \in DOMAIN Roots : s[k] = Roots[r]
         /\ \A r \in DOMAIN Roots : \E k \in DOMAIN s : s[k] = Roots[r]
         /\ \A k \in DOMAIN s : s[k] \in Seq(STRING)
<1>1. /\ s \in [DOMAIN Roots -> Finder!Range(Roots)]
      /\ \A d \in Finder!Range(Roots) : \E k \in DOMAIN Roots : s[k] = d
  BY DEF Finder!SysPaths
<1>2. Finder!Range(Roots) = {Roots[r] : r \in DOMAIN Roots}
  BY DEF Finder!Range
<1>3. DOMAIN s = DOMAIN Roots /\ DOMAIN Roots \subseteq Nat
  BY <1>1, RootsArePaths
<1>4. \A k \in DOMAIN s : s[k] \in Finder!Range(Roots)
  BY <1>1
<1>5. \A k \in DOMAIN s : \E r \in DOMAIN Roots : s[k] = Roots[r]
  BY <1>2, <1>4
<1>6. \A r \in DOMAIN Roots : \E k \in DOMAIN s : s[k] = Roots[r]
  BY <1>1, <1>2, <1>3
<1>7. \A k \in DOMAIN s : s[k] \in Seq(STRING)
  BY <1>5, RootsArePaths
<1> QED BY <1>3, <1>5, <1>6, <1>7

\* no root has a file at the first j places of the name
NothingUpto(n, j) == \A r \in DOMAIN Roots : \A i \in 1 .. j : ~Importable(Place(Roots[r], n, i))

\* While nothing was found, every root with the directory is searched on.
LEMMA LookupStaysOpen ==
  ASSUME disk \in Disks, NEW s \in Finder!SysPaths, NEW n \in Seq(STRING),
         NEW f, IsLookup(f, s, n), NEW j \in 0 .. Len(n), NothingUpto(n, j)
  PROVE  /\ f[j].loads = {}
         /\ DOMAIN f[j].path \subseteq DOMAIN s
         /\ \A k \in DOMAIN f[j].path : f[j].path[k] = Place(s[k], n, j)
         /\ \A k \in DOMAIN s :
              (\E g \in disk.files : IsPrefix(Place(s[k], n, j), Directory(g))) => k \in DOMAIN f[j].path
<1> DEFINE Open(i) ==
             /\ f[i].loads = {}
             /\ DOMAIN f[i].path \subseteq DOMAIN s
             /\ \A k \in DOMAIN f[i].path : f[i].path[k] = Place(s[k], n, i)
             /\ \A k \in DOMAIN s :
                  (\E g \in disk.files : IsPrefix(Place(s[k], n, i), Directory(g))) => k \in DOMAIN f[i].path
           bad == {i \in 0 .. j : ~Open(i)}
<1>0. f[0].path = s /\ f[0].loads = {} /\ Stepwise(f, n)
  BY LookupSteps
<1>1. Open(0)
  <2>1. \A k \in DOMAIN s : Place(s[k], n, 0) = s[k]
    BY SysPathFacts DEF Place, Upto
  <2>2. \A k \in DOMAIN f[0].path : f[0].path[k] = Place(s[k], n, 0)
    BY <1>0, <2>1
  <2> QED BY <1>0, <2>2
<1>2. ASSUME NEW i \in 1 .. j, Open(i - 1)
      PROVE  Open(i)
  <2>1. i \in 1 .. Len(n) /\ i - 1 \in 0 .. i /\ i \in 0 .. Len(n)
    OBVIOUS
  <2>2. f[i] = Finder!Search(f[i - 1].path, n[i])
    BY <2>1, <1>0 DEF Stepwise
  <2>3. \A k \in DOMAIN f[i - 1].path : Append(f[i - 1].path[k], n[i]) = Place(s[k], n, i)
    <3> SUFFICES ASSUME NEW k \in DOMAIN f[i - 1].path
                 PROVE  Append(f[i - 1].path[k], n[i]) = Place(s[k], n, i)
      OBVIOUS
    <3>1. f[i - 1].path[k] = Place(s[k], n, i - 1) /\ k \in DOMAIN s
      BY <1>2
    <3>2. s[k] \in Seq(STRING)
      BY <3>1, SysPathFacts
    <3> QED BY <2>1, <3>1, <3>2, PlaceStep
  <2>4. \A k \in DOMAIN s : ~Importable(Place(s[k], n, i))
    BY SysPathFacts DEF NothingUpto
  <2>5. \A k \in DOMAIN f[i - 1].path : ~Importable(Append(f[i - 1].path[k], n[i]))
    BY <1>2, <2>3, <2>4
  <2>6. /\ f[i].loads = {}
        /\ DOMAIN f[i].path =
             {k \in DOMAIN f[i - 1].path : Finder!IsDirectory(Append(f[i - 1].path[k], n[i]))}
        /\ \A k \in DOMAIN f[i].path : f[i].path[k] = Append(f[i - 1].path[k], n[i])
    BY <2>2, <2>5, SearchMisses
  <2>7. ASSUME NEW k \in DOMAIN s, NEW g \in disk.files, IsPrefix(Place(s[k], n, i), Directory(g))
        PROVE  k \in DOMAIN f[i].path
    <3>1. s[k] \in Seq(STRING) /\ Directory(g) \in Seq(STRING)
      BY SysPathFacts, FilesAreWellFormed
    <3>2. IsPrefix(Place(s[k], n, i - 1), Directory(g))
      BY <2>1, <2>7, <3>1, PlacePrefix
    <3>3. k \in DOMAIN f[i - 1].path
      BY <1>2, <3>2
    <3>4. Place(s[k], n, i) \in Seq(STRING)
      BY <2>1, <3>1, PlaceMeans
    <3>5. Finder!IsDirectory(Place(s[k], n, i))
      BY <2>7, <3>4, DirectoryOfFile
    <3> QED BY <2>3, <2>6, <3>3, <3>5
  <2> QED BY <1>2, <2>3, <2>6, <2>7
<1> HIDE DEF Open
<1>3. bad = {}
  <2> SUFFICES ASSUME bad # {} PROVE FALSE
    OBVIOUS
  <2>1. bad \in SUBSET Nat
    OBVIOUS
  <2>2. PICK i \in bad : \A l \in bad : i <= l
    BY <2>1, LeastElementExists
  <2>3. i \in 1 .. j /\ i - 1 \in 0 .. j /\ ~(i <= i - 1)
    BY <2>2, <1>1
  <2>4. Open(i - 1)
    BY <2>2, <2>3
  <2> QED BY <1>2, <2>2, <2>3, <2>4
<1> QED BY <1>3 DEF Open
-----------------------------------------------------------------------------
(* What Python meets on the way                                            *)

\* The first identifiers of a name, as names.
LEMMA PartsOfName ==
  ASSUME NEW n \in Seq(STRING), NEW j \in 1 .. Len(n)
  PROVE  /\ Upto(n, j) # NoName
         /\ Ancestors(Upto(n, j)) = {Upto(n, k) : k \in 1 .. j - 1}
         /\ j < Len(n) => Upto(n, j) \in Ancestors(n)
<1>1. j \in 0 .. Len(n) /\ Len(Upto(n, j)) = j /\ \A k \in 0 .. j : Upto(Upto(n, j), k) = Upto(n, k)
  BY UptoMeans
<1>2. Upto(n, j) # NoName
  <2>1. Len(NoName) = 0
    BY DEF NoName
  <2> QED BY <1>1, <2>1
<1>3. Ancestors(Upto(n, j)) = {Upto(Upto(n, j), k) : k \in 1 .. j - 1}
  BY <1>1 DEF Ancestors, Upto
<1>4. \A k \in 1 .. j - 1 : Upto(Upto(n, j), k) = Upto(n, k)
  BY <1>1
<1>5. j < Len(n) => Upto(n, j) \in Ancestors(n)
  BY DEF Ancestors, Upto
<1> QED BY <1>2, <1>3, <1>4, <1>5

\* The first file that lies on the way to a name is bound when its root is discovered: the
\* regular package, if there is one.
LEMMA FirstFileIsBound ==
  ASSUME disk \in Disks, NEW n \in Seq(STRING), ~CrossesRoot(n), NEW j \in 1 .. Len(n),
         NothingUpto(n, j - 1), NEW o \in DOMAIN Roots, Importable(Place(Roots[o], n, j))
  PROVE  \E y \in Owned(o) :
           /\ y.at = Place(Roots[o], n, j)
           /\ PackageAt(Place(Roots[o], n, j)) \in disk.files => y.init
           /\ Settled(o, y) \in Bound(Assembled(Len(Roots)))
           /\ Settled(o, y).name = Upto(n, j) /\ Settled(o, y).file = y
           /\ Settled(o, y).isPackage = y.init
<1> DEFINE w == Place(Roots[o], n, j)
<1>1. \E y \in disk.files : y.at = w /\ (PackageAt(w) \in disk.files => y.init)
  BY DEF Importable, PackageAt
<1>2. PICK y \in disk.files : y.at = w /\ (PackageAt(w) \in disk.files => y.init)
  BY <1>1
<1>3. y \in Owned(o) /\ NameBelow(o, y) = Upto(n, j)
  BY <1>2, PlaceIsOwned
<1>4. ~Beside(o, y)
  BY <1>2 DEF Beside, Owned
<1>5. ~Blocked(o, y)
  <2> SUFFICES ASSUME NEW p \in Ancestors(Upto(n, j)), p \in PlainNames(o)
               PROVE  FALSE
    BY <1>3 DEF Blocked
  <2>1. PICK k \in 1 .. j - 1 : p = Upto(n, k)
    BY PartsOfName
  <2>2. PICK g \in Owned(o) : NameBelow(o, g) = p
    BY DEF PlainNames
  <2>3. g.at = Place(Roots[o], n, k) /\ g \in disk.files
    BY <2>1, <2>2, OwnedFiles DEF Place
  <2> QED BY <2>3 DEF NothingUpto, Importable
<1>6. /\ Settled(o, y).file = y /\ Settled(o, y).name = Upto(n, j) /\ Settled(o, y).isPackage = y.init
      /\ Settled(o, y).status = "bound"
  BY <1>3, <1>4, <1>5, SettledFields, PartsOfName
<1>7. Settled(o, y) \in Assembled(Len(Roots))
  BY <1>3, AssembledModules, RootsArePaths
<1> QED BY <1>2, <1>3, <1>6, <1>7 DEF Bound

\* Nothing between a root and a source that discovery binds there is a plain module.
LEMMA NothingBlocks ==
  ASSUME disk \in Disks, NEW n \in Seq(STRING), ~CrossesRoot(n), NEW j \in 1 .. Len(n) - 1,
         NEW r \in DOMAIN Roots, NEW g \in Owned(r), NameBelow(r, g) = n, ~Blocked(r, g),
         Importable(Place(Roots[r], n, j))
  PROVE  PackageAt(Place(Roots[r], n, j)) \in disk.files
<1> SUFFICES ASSUME PackageAt(Place(Roots[r], n, j)) \notin disk.files
             PROVE  FALSE
  OBVIOUS
<1>1. PICK x \in disk.files : x.at = Place(Roots[r], n, j)
  BY DEF Importable
<1>2. j \in 1 .. Len(n) /\ j < Len(n)
  OBVIOUS
<1>3. x \in Owned(r) /\ NameBelow(r, x) = Upto(n, j)
  BY <1>1, <1>2, PlaceIsOwned
<1>4. ~x.init /\ ~Beside(r, x)
  <2>1. x = [at |-> x.at, init |-> x.init] /\ x.init \in BOOLEAN
    BY FilesAreWellFormed
  <2> QED BY <1>1, <2>1 DEF PackageAt, Beside, Owned
<1>5. Upto(n, j) \in PlainNames(r) /\ Upto(n, j) \in Ancestors(n)
  BY <1>2, <1>3, <1>4, PartsOfName DEF PlainNames
<1> QED BY <1>5 DEF Blocked

\* A bound source that reconciliation leaves alone is the only one of its name, and what is
\* bound above its name is a package with the source in its directory.
LEMMA MarkingSuffices ==
  ASSUME NEW ms, IsFiniteSet(ms),
         NEW m \in Bound(ms), m.name \notin Conflicting(ms), NEW n \in Bound(ms)
  PROVE  /\ m.name = n.name => m = n
         /\ n.name \in Ancestors(m.name) => n.isPackage /\ InsideDirectory(m, n)
<1>1. ASSUME m.name = n.name, m # n
      PROVE  FALSE
  <2> DEFINE same == {o \in Bound(ms) : o.name = m.name}
  <2>1. IsFiniteSet(same)
    <3>1. same \subseteq ms
      BY DEF Bound
    <3> QED BY <3>1, FS_Subset
  <2>2. m \in same /\ n \in same
    BY <1>1
  <2> HIDE DEF same
  <2>3. Cardinality(same) > 1
    BY <1>1, <2>1, <2>2, TwoMembers
  <2>4. m.name \in ClaimedTwice(ms)
    BY <2>3 DEF ClaimedTwice, same
  <2> QED BY <2>4 DEF Conflicting
<1>2. ASSUME n.name \in Ancestors(m.name), ~n.isPackage
      PROVE  FALSE
  <2>1. n.name \in BoundPlainNames(ms)
    BY <1>2 DEF BoundPlainNames
  <2> DEFINE pair == <<n.name, m.name>>
             below == {<<p, o.name>> : p \in BoundPlainNames(ms), o \in Bound(ms)}
  <2>2. pair \in {q \in below : q[1] \in Ancestors(q[2])}
    BY <1>2, <2>1
  <2>3. m.name \in {pair[1], pair[2]}
    OBVIOUS
  <2>4. m.name \in BelowPlain(ms)
    BY <2>2, <2>3 DEF BelowPlain
  <2> QED BY <2>4 DEF Conflicting
<1>3. ASSUME n.name \in Ancestors(m.name), n.isPackage, ~InsideDirectory(m, n)
      PROVE  FALSE
  <2>1. m.name \in OutsidePackage(ms)
    BY <1>3 DEF OutsidePackage
  <2> QED BY <2>1 DEF Conflicting
<1> QED BY <1>1, <1>2, <1>3

\* The catalogue is finite.
LEMMA AssembledFinite ==
  ASSUME disk \in Disks
  PROVE  IsFiniteSet(Assembled(Len(Roots)))
<1> DEFINE all == Assembled(Len(Roots))
           settled == [f \in disk.files |-> Settled(CHOOSE r \in DOMAIN Roots : Owns(r, f), f)]
<1>1. IsFiniteSet({settled[f] : f \in disk.files})
  <2>1. IsFiniteSet(disk.files)
    BY DisksAssumption
  <2>2. settled = [f \in disk.files |-> settled[f]]
    OBVIOUS
  <2> HIDE DEF settled
  <2> QED BY <2>1, <2>2, FiniteImage
<1>2. all \subseteq {settled[f] : f \in disk.files}
  <2> SUFFICES ASSUME NEW m \in all PROVE m \in {settled[f] : f \in disk.files}
    OBVIOUS
  <2>1. PICK r \in DOMAIN Roots : \E f \in Owned(r) : m = Settled(r, f)
    BY AssembledModules, RootsArePaths
  <2>2. PICK f \in Owned(r) : m = Settled(r, f)
    BY <2>1
  <2>3. f \in disk.files /\ (CHOOSE o \in DOMAIN Roots : Owns(o, f)) = r
    BY <2>2, OneOwner DEF Owned
  <2> QED BY <2>2, <2>3
<1> QED BY <1>1, <1>2, FS_Subset

\* A source bound after the reconciliation, and the root that owns it.
Settles(m, r) ==
  /\ r \in DOMAIN Roots /\ m.file \in Owned(r) /\ m = Settled(r, m.file)
  /\ m \in Bound(Assembled(Len(Roots))) /\ m.name \notin Conflicting(Assembled(Len(Roots)))
  /\ ~CrossesRoot(m.name)

\* Where a bound source lies.
LEMMA SettledSource ==
  ASSUME disk \in Disks, NEW m, NEW r, Settles(m, r)
  PROVE  /\ m.name \in Seq(STRING) /\ Len(m.name) \in Nat \ {0} /\ m.name = NameBelow(r, m.file)
         /\ m.file.at = Place(Roots[r], m.name, Len(m.name))
         /\ ~Beside(r, m.file) /\ ~Blocked(r, m.file)
         /\ m.file \in disk.files /\ Directory(m.file) \in Seq(STRING)
         /\ \A j \in 0 .. Len(m.name) - 1 : IsPrefix(Place(Roots[r], m.name, j), Directory(m.file))
<1> DEFINE n == m.name
<1>1. r \in DOMAIN Roots /\ m.file \in Owned(r) /\ m = Settled(r, m.file) /\ m.status = "bound"
  BY DEF Settles, Bound
<1>2. n = NameBelow(r, m.file) /\ n # NoName /\ ~Beside(r, m.file) /\ ~Blocked(r, m.file)
  BY <1>1, SettledFields
<1>3. n \in Seq(STRING) /\ m.file.at = Roots[r] \o n /\ m.file \in disk.files
  BY <1>1, <1>2, OwnedFiles
<1>4. Len(n) \in Nat \ {0}
  BY <1>2, <1>3 DEF NoName
<1>5. m.file.at = Place(Roots[r], n, Len(n))
  BY <1>3, UptoEnd DEF Place
<1>6. Directory(m.file) \in Seq(STRING) /\ Roots[r] \in Seq(STRING)
  BY <1>1, <1>3, FilesAreWellFormed, RootsArePaths
<1>7. IsPrefix(Place(Roots[r], n, Len(n) - 1), Directory(m.file))
  <2>1. Len(n) \in 1 .. Len(n)
    BY <1>4
  <2> QED BY <1>1, <1>3, <1>5, <2>1, PlaceIsOwned DEF Settles
<1>8. \A j \in 0 .. Len(n) - 1 : IsPrefix(Place(Roots[r], n, j), Directory(m.file))
  <2>1. Len(n) - 1 \in 0 .. Len(n)
    BY <1>4
  <2> QED BY <1>3, <1>6, <1>7, <2>1, PlacePrefix
<1> QED BY <1>2, <1>3, <1>4, <1>5, <1>6, <1>8

\* The first file Python meets above a bound source is a regular package of the same root.
LEMMA FirstOnTheWay ==
  ASSUME disk \in Disks, NEW m, NEW r, Settles(m, r), NEW j \in 1 .. Len(m.name) - 1,
         NothingUpto(m.name, j - 1), NEW o \in DOMAIN Roots, Importable(Place(Roots[o], m.name, j))
  PROVE  o = r /\ PackageAt(Place(Roots[r], m.name, j)) \in disk.files
<1> DEFINE n == m.name
           all == Assembled(Len(Roots))
<1>1. n \in Seq(STRING) /\ Len(n) \in Nat \ {0} /\ m.file.at = Place(Roots[r], n, Len(n))
      /\ m.file \in disk.files /\ Directory(m.file) \in Seq(STRING)
  BY SettledSource
<1>2. j \in 1 .. Len(n) /\ j < Len(n) /\ ~CrossesRoot(n) /\ r \in DOMAIN Roots
  BY <1>1 DEF Settles
<1>3. PICK y \in Owned(o) :
        /\ y.at = Place(Roots[o], n, j)
        /\ Settled(o, y) \in Bound(all)
        /\ Settled(o, y).name = Upto(n, j) /\ Settled(o, y).file = y
        /\ Settled(o, y).isPackage = y.init
  BY <1>1, <1>2, FirstFileIsBound
<1>4. Upto(n, j) \in Ancestors(n)
  BY <1>1, <1>2, PartsOfName
<1>5. y.init /\ InsideDirectory(m, Settled(o, y))
  BY <1>3, <1>4, MarkingSuffices, AssembledFinite DEF Settles
<1>6. y \in disk.files /\ y = PackageAt(y.at) /\ Directory(y) = y.at
  BY <1>3, <1>5, OwnedFiles DEF PackageAt, Directory
<1>7. IsPrefix(Place(Roots[o], n, j), Directory(m.file))
  BY <1>3, <1>5, <1>6 DEF InsideDirectory
<1>8. IsPrefix(Place(Roots[o], n, j), m.file.at)
  <2>1. /\ m.file.at \in Seq(STRING) /\ m.file.init \in BOOLEAN
        /\ m.file.init => Directory(m.file) = m.file.at
        /\ ~m.file.init => m.file.at # <<>> /\ Directory(m.file) = SubSeq(m.file.at, 1, Len(m.file.at) - 1)
    BY <1>1, FilesAreWellFormed
  <2>2. Len(Directory(m.file)) <= Len(m.file.at)
        /\ \A k \in 1 .. Len(Directory(m.file)) : Directory(m.file)[k] = m.file.at[k]
    BY <2>1
  <2>3. Place(Roots[o], n, j) \in Seq(STRING)
    BY <1>1, <1>2, PlaceMeans, RootsArePaths
  <2>4. /\ Len(Place(Roots[o], n, j)) <= Len(Directory(m.file))
        /\ \A k \in 1 .. Len(Place(Roots[o], n, j)) : Place(Roots[o], n, j)[k] = Directory(m.file)[k]
    BY <1>1, <1>7, <2>3, PrefixMeans
  <2>5. /\ Len(Place(Roots[o], n, j)) <= Len(m.file.at)
        /\ \A k \in 1 .. Len(Place(Roots[o], n, j)) : Place(Roots[o], n, j)[k] = m.file.at[k]
    BY <1>1, <2>1, <2>2, <2>3, <2>4
  <2> QED BY <2>1, <2>3, <2>5, PrefixMeans
<1>9. o = r
  BY <1>1, <1>2, <1>8, OneRootOnTheWay
<1> QED BY <1>3, <1>6, <1>9

\* Once Python has come to its name without meeting a file, only its own root offers one.
LEMMA OnlyOwnRoot ==
  ASSUME disk \in Disks, NEW m, NEW r, Settles(m, r), NothingUpto(m.name, Len(m.name) - 1),
         NEW o \in DOMAIN Roots, Importable(Place(Roots[o], m.name, Len(m.name)))
  PROVE  o = r
<1> DEFINE n == m.name
           all == Assembled(Len(Roots))
<1>1. n \in Seq(STRING) /\ Len(n) \in Nat \ {0} /\ Len(n) \in 1 .. Len(n) /\ ~CrossesRoot(n)
  BY SettledSource DEF Settles
<1>2. PICK y \in Owned(o) :
        Settled(o, y) \in Bound(all) /\ Settled(o, y).name = Upto(n, Len(n)) /\ Settled(o, y).file = y
  BY <1>1, FirstFileIsBound
<1>3. Settled(o, y).name = n
  BY <1>1, <1>2, UptoEnd
<1>4. m = Settled(o, y)
  BY <1>2, <1>3, MarkingSuffices, AssembledFinite DEF Settles
<1>5. m.file = y /\ m.file \in disk.files /\ Owns(o, m.file) /\ Owns(r, m.file) /\ r \in DOMAIN Roots
  BY <1>2, <1>4 DEF Settles, Owned
<1> QED BY <1>5, OneOwner

\* What Python loads at the place of a bound source.
LEMMA LoadsOwnFile ==
  ASSUME disk \in Disks, NEW m, NEW r, Settles(m, r)
  PROVE  m.file = IF PackageAt(m.file.at) \in disk.files
                  THEN PackageAt(m.file.at) ELSE Finder!Plain(m.file.at)
<1> DEFINE n == m.name
           f == m.file
<1>1. n \in Seq(STRING) /\ Len(n) \in 1 .. Len(n) /\ f.at = Place(Roots[r], n, Len(n))
      /\ f \in disk.files /\ ~Beside(r, f) /\ ~CrossesRoot(n) /\ r \in DOMAIN Roots
  BY SettledSource DEF Settles
<1>2. f = IF f.init THEN PackageAt(f.at) ELSE Finder!Plain(f.at)
  BY <1>1, ImportableFiles
<1>3. CASE PackageAt(f.at) \in disk.files
  <2>1. PackageAt(f.at).at = f.at
    BY DEF PackageAt
  <2>2. PackageAt(f.at) \in Owned(r)
    BY <1>1, <1>3, <2>1, PlaceIsOwned
  <2>3. f.init
    BY <1>1, <2>2 DEF Beside
  <2> QED BY <1>2, <1>3, <2>3
<1>4. CASE PackageAt(f.at) \notin disk.files
  BY <1>1, <1>2, <1>4
<1> QED BY <1>3, <1>4
-----------------------------------------------------------------------------
(* Steps of a lookup                                                       *)

\* only the directory d is searched next
Only(found, d) == \E k \in Nat : DOMAIN found.path = {k} /\ found.path[k] = d

\* what a lookup that came to d makes of it
Decided(found, d) ==
  IF PackageAt(d) \in disk.files
  THEN found.loads = {PackageAt(d)} /\ Only(found, d)
  ELSE found.loads = {Finder!Plain(d)} /\ DOMAIN found.path = {}

\* Several directories: the first file on the way decides.
LEMMA HitStep ==
  ASSUME disk \in Disks, NEW s \in Finder!SysPaths, NEW n \in Seq(STRING), ~CrossesRoot(n),
         NEW f, IsLookup(f, s, n), NEW j \in 1 .. Len(n), NothingUpto(n, j - 1),
         NEW q \in DOMAIN Roots, Importable(Place(Roots[q], n, j))
  PROVE  \E o \in DOMAIN Roots :
           Importable(Place(Roots[o], n, j)) /\ Decided(f[j], Place(Roots[o], n, j))
<1> DEFINE path == f[j - 1].path
<1>0. Stepwise(f, n)
  BY LookupSteps
<1>1. j - 1 \in 0 .. Len(n)
  OBVIOUS
<1>2. f[j] = Finder!Search(path, n[j])
  BY <1>0 DEF Stepwise
<1>3. /\ DOMAIN path \subseteq DOMAIN s
      /\ \A k \in DOMAIN path : path[k] = Place(s[k], n, j - 1)
      /\ \A k \in DOMAIN s :
           (\E g \in disk.files : IsPrefix(Place(s[k], n, j - 1), Directory(g))) => k \in DOMAIN path
  BY <1>1, LookupStaysOpen
<1> HIDE DEF path
<1>4. \A k \in DOMAIN path : Append(path[k], n[j]) = Place(s[k], n, j)
  <2> SUFFICES ASSUME NEW k \in DOMAIN path PROVE Append(path[k], n[j]) = Place(s[k], n, j)
    OBVIOUS
  <2>1. path[k] = Place(s[k], n, j - 1) /\ s[k] \in Seq(STRING)
    BY <1>3, SysPathFacts
  <2> QED BY <2>1, PlaceStep
<1>5. \E k \in DOMAIN path : Importable(Append(path[k], n[j]))
  <2>1. PICK k \in DOMAIN s : s[k] = Roots[q]
    BY SysPathFacts
  <2>2. PICK g \in disk.files : g.at = Place(Roots[q], n, j)
    BY DEF Importable
  <2>3. IsPrefix(Place(Roots[q], n, j - 1), Directory(g))
    BY <2>2, PlaceIsOwned
  <2>4. k \in DOMAIN path
    BY <1>3, <2>1, <2>3
  <2> QED BY <1>4, <2>1, <2>4
<1>6. DOMAIN path \subseteq Nat
  BY <1>3, SysPathFacts
<1>7. PICK k \in DOMAIN path :
        /\ Importable(Append(path[k], n[j]))
        /\ PackageAt(Append(path[k], n[j])) \in disk.files =>
             /\ f[j].loads = {PackageAt(Append(path[k], n[j]))}
             /\ DOMAIN f[j].path = {k} /\ f[j].path[k] = Append(path[k], n[j])
        /\ PackageAt(Append(path[k], n[j])) \notin disk.files =>
             /\ f[j].loads = {Finder!Plain(Append(path[k], n[j]))}
             /\ DOMAIN f[j].path = {}
  BY <1>2, <1>5, <1>6, SearchHits
<1>8. PICK o \in DOMAIN Roots : s[k] = Roots[o]
  BY <1>3, SysPathFacts
<1>9. Append(path[k], n[j]) = Place(Roots[o], n, j)
  BY <1>4, <1>8
<1> QED BY <1>6, <1>7, <1>9 DEF Decided, Only

\* One directory: the place below it decides, or is searched on, or there is nothing more.
LEMMA OnlyStep ==
  ASSUME disk \in Disks, NEW path, NEW n \in Seq(STRING), NEW f, IsLookup(f, path, n),
         NEW j \in 1 .. Len(n), NEW d, Only(f[j - 1], d)
  PROVE  LET w == Append(d, n[j])
         IN IF Importable(w) THEN Decided(f[j], w)
            ELSE /\ f[j].loads = {}
                 /\ IF Finder!IsDirectory(w) THEN Only(f[j], w) ELSE DOMAIN f[j].path = {}
<1> DEFINE w == Append(d, n[j])
           p == f[j - 1].path
<1>0. Stepwise(f, n)
  BY LookupSteps
<1>1. f[j] = Finder!Search(p, n[j])
  BY <1>0 DEF Stepwise
<1>2. PICK k \in Nat : DOMAIN p = {k} /\ p[k] = d
  BY DEF Only
<1>3. \A l \in DOMAIN p : Append(p[l], n[j]) = w
  BY <1>2
<1> HIDE DEF p, w
<1>4. CASE ~Importable(w)
  <2>1. \A l \in DOMAIN p : ~Importable(Append(p[l], n[j]))
    BY <1>3, <1>4
  <2>2. /\ f[j].loads = {}
        /\ DOMAIN f[j].path = {l \in DOMAIN p : Finder!IsDirectory(Append(p[l], n[j]))}
        /\ \A l \in DOMAIN f[j].path : f[j].path[l] = Append(p[l], n[j])
    BY <1>1, <2>1, SearchMisses
  <2>3. CASE Finder!IsDirectory(w)
    <3>1. DOMAIN f[j].path = {k} /\ f[j].path[k] = w
      BY <1>2, <1>3, <2>2, <2>3
    <3> QED BY <1>4, <2>2, <2>3, <3>1 DEF Only, w
  <2>4. CASE ~Finder!IsDirectory(w)
    <3>1. DOMAIN f[j].path = {}
      BY <1>3, <2>2, <2>4
    <3> QED BY <1>4, <2>2, <2>4, <3>1 DEF w
  <2> QED BY <2>3, <2>4
<1>5. CASE Importable(w)
  <2>1. \E l \in DOMAIN p : Importable(Append(p[l], n[j]))
    BY <1>2, <1>3, <1>5
  <2>p. DOMAIN p \subseteq Nat
    BY <1>2
  <2>2. PICK l \in DOMAIN p :
          /\ PackageAt(Append(p[l], n[j])) \in disk.files =>
               /\ f[j].loads = {PackageAt(Append(p[l], n[j]))}
               /\ DOMAIN f[j].path = {l} /\ f[j].path[l] = Append(p[l], n[j])
          /\ PackageAt(Append(p[l], n[j])) \notin disk.files =>
               /\ f[j].loads = {Finder!Plain(Append(p[l], n[j]))}
               /\ DOMAIN f[j].path = {}
    BY <1>1, <2>1, <2>p, SearchHits
  <2>3. Append(p[l], n[j]) = w
    BY <1>3
  <2>4. Decided(f[j], w)
    BY <2>p, <2>2, <2>3 DEF Decided, Only
  <2> QED BY <1>5, <2>4 DEF w
<1> QED BY <1>4, <1>5

\* No directory: nothing is found.
LEMMA NothingStep ==
  ASSUME disk \in Disks, NEW path, NEW n \in Seq(STRING), NEW f, IsLookup(f, path, n),
         NEW j \in 1 .. Len(n), DOMAIN f[j - 1].path = {}
  PROVE  f[j].loads = {} /\ DOMAIN f[j].path = {}
<1>0. Stepwise(f, n)
  BY LookupSteps
<1>1. f[j] = Finder!Search(f[j - 1].path, n[j])
  BY <1>0 DEF Stepwise
<1> QED BY <1>1, SearchMisses
-----------------------------------------------------------------------------
(* What Python finds                                                       *)

\* On its way to a bound source Python meets nothing, or searches that source's root only.
LEMMA OnTheWay ==
  ASSUME disk \in Disks, NEW m, NEW r, Settles(m, r), NEW s \in Finder!SysPaths,
         NEW f, IsLookup(f, s, m.name), NEW j \in 0 .. Len(m.name) - 1
  PROVE  NothingUpto(m.name, j) \/ Only(f[j], Place(Roots[r], m.name, j))
<1> DEFINE n       == m.name
           Goes(i) == NothingUpto(n, i) \/ Only(f[i], Place(Roots[r], n, i))
           astray  == {i \in 0 .. Len(n) - 1 : ~Goes(i)}
<1>1. /\ n \in Seq(STRING) /\ Len(n) \in Nat \ {0} /\ n = NameBelow(r, m.file)
      /\ ~Blocked(r, m.file) /\ m.file \in disk.files /\ Directory(m.file) \in Seq(STRING)
      /\ \A i \in 0 .. Len(n) - 1 : IsPrefix(Place(Roots[r], n, i), Directory(m.file))
  BY SettledSource
<1>2. r \in DOMAIN Roots /\ m.file \in Owned(r) /\ ~CrossesRoot(n) /\ Roots[r] \in Seq(STRING)
  BY RootsArePaths DEF Settles
<1>3. Goes(0)
  BY DEF NothingUpto
<1>4. ASSUME NEW i \in 1 .. Len(n) - 1, Goes(i - 1)
      PROVE  Goes(i)
  <2> DEFINE w == Place(Roots[r], n, i)
  <2>1. i \in 1 .. Len(n) /\ i \in 0 .. Len(n) /\ i \in 0 .. Len(n) - 1
    BY <1>1
  <2>2. CASE NothingUpto(n, i - 1) /\ ~ \E q \in DOMAIN Roots : Importable(Place(Roots[q], n, i))
    <3>1. \A k \in 1 .. i : k = i \/ k \in 1 .. i - 1
      OBVIOUS
    <3>2. NothingUpto(n, i)
      BY <2>2, <3>1 DEF NothingUpto
    <3> QED BY <3>2
  <2>3. CASE NothingUpto(n, i - 1) /\ \E q \in DOMAIN Roots : Importable(Place(Roots[q], n, i))
    <3>1. PICK o \in DOMAIN Roots :
            Importable(Place(Roots[o], n, i)) /\ Decided(f[i], Place(Roots[o], n, i))
      BY <1>1, <1>2, <2>1, <2>3, HitStep
    <3>2. o = r /\ PackageAt(w) \in disk.files
      BY <2>3, <3>1, FirstOnTheWay
    <3> QED BY <3>1, <3>2 DEF Decided
  <2>4. CASE Only(f[i - 1], Place(Roots[r], n, i - 1))
    <3>1. Append(Place(Roots[r], n, i - 1), n[i]) = w
      BY <1>1, <1>2, <2>1, PlaceStep
    <3>2. IF Importable(w) THEN Decided(f[i], w)
          ELSE /\ f[i].loads = {}
               /\ IF Finder!IsDirectory(w) THEN Only(f[i], w) ELSE DOMAIN f[i].path = {}
      <4>1. PICK d : d = Place(Roots[r], n, i - 1)
        OBVIOUS
      <4>2. Append(d, n[i]) = w /\ Only(f[i - 1], d)
        BY <2>4, <3>1, <4>1
      <4> HIDE DEF w
      <4> QED BY <1>1, <2>1, <4>2, OnlyStep
    <3>3. Importable(w) => PackageAt(w) \in disk.files
      BY <1>1, <1>2, NothingBlocks
    <3>4. Finder!IsDirectory(w)
      <4>1. w \in Seq(STRING)
        BY <1>1, <1>2, <2>1, PlaceMeans
      <4> QED BY <1>1, <2>1, <4>1, DirectoryOfFile
    <3> QED BY <3>2, <3>3, <3>4 DEF Decided
  <2> QED BY <1>4, <2>2, <2>3, <2>4
<1> HIDE DEF Goes
<1>5. astray = {}
  <2> SUFFICES ASSUME astray # {} PROVE FALSE
    OBVIOUS
  <2>1. astray \in SUBSET Nat
    BY <1>1
  <2>2. PICK i \in astray : \A l \in astray : i <= l
    BY <2>1, LeastElementExists
  <2>3. i \in 1 .. Len(n) - 1 /\ i - 1 \in 0 .. Len(n) - 1 /\ ~(i <= i - 1)
    BY <1>1, <1>3, <2>2
  <2> QED BY <1>4, <2>2, <2>3
<1> QED BY <1>5 DEF Goes

\* Whatever the order of the roots, a bound source is what Python loads for its name.
LEMMA BoundIsFound ==
  ASSUME disk \in Disks, NEW m, NEW r, Settles(m, r), NEW s \in Finder!SysPaths
  PROVE  Finder!Finds(s, m.name).loads = {m.file}
<1> DEFINE n == m.name
           w == Place(Roots[r], n, Len(n))
<1>1. n \in Seq(STRING) /\ Len(n) \in 1 .. Len(n) /\ Len(n) - 1 \in 0 .. Len(n) - 1
      /\ m.file.at = w /\ m.file \in disk.files /\ r \in DOMAIN Roots /\ ~CrossesRoot(n)
      /\ Roots[r] \in Seq(STRING)
  BY SettledSource, RootsArePaths DEF Settles
<1>2. PICK f : IsLookup(f, s, n) /\ Finder!Finds(s, n) = f[Len(n)]
  BY <1>1, FindsByLookup
<1>3. Importable(w)
  BY <1>1 DEF Importable
<1>4. Decided(f[Len(n)], w)
  <2>1. CASE NothingUpto(n, Len(n) - 1)
    <3>1. PICK o \in DOMAIN Roots :
            Importable(Place(Roots[o], n, Len(n))) /\ Decided(f[Len(n)], Place(Roots[o], n, Len(n)))
      BY <1>1, <1>2, <1>3, <2>1, HitStep
    <3> QED BY <2>1, <3>1, OnlyOwnRoot
  <2>2. CASE Only(f[Len(n) - 1], Place(Roots[r], n, Len(n) - 1))
    <3>1. Append(Place(Roots[r], n, Len(n) - 1), n[Len(n)]) = w
      BY <1>1, PlaceStep
    <3>2. PICK l, d : l = Len(n) /\ d = Place(Roots[r], n, l - 1)
      OBVIOUS
    <3>3. l \in 1 .. Len(n) /\ Append(d, n[l]) = w /\ Only(f[l - 1], d)
      BY <1>1, <2>2, <3>1, <3>2
    <3> HIDE DEF w
    <3>9. n \in Seq(STRING) /\ IsLookup(f, s, n)
      BY <1>1, <1>2
    <3>4. IF Importable(w) THEN Decided(f[l], w)
          ELSE /\ f[l].loads = {}
               /\ IF Finder!IsDirectory(w) THEN Only(f[l], w) ELSE DOMAIN f[l].path = {}
      BY <3>9, <3>3, OnlyStep
    <3> QED BY <1>3, <3>2, <3>4
  <2> QED BY <1>1, <1>2, <2>1, <2>2, OnTheWay
<1>5. m.file = IF PackageAt(w) \in disk.files THEN PackageAt(w) ELSE Finder!Plain(w)
  BY <1>1, LoadsOwnFile
<1> QED BY <1>2, <1>4, <1>5 DEF Decided

\* Two lookups came to the same.
Alike(found, other) ==
  /\ found.loads = other.loads
  /\ \/ DOMAIN found.path = {} /\ DOMAIN other.path = {}
     \/ \E d : Only(found, d) /\ Only(other, d)

\* Without a conflict the order of the roots makes no difference on the way to a name.
LEMMA OrderMakesNoDifference ==
  ASSUME disk \in Disks, Conflicting(Assembled(Len(Roots))) = {},
         NEW n \in Seq(STRING), ~CrossesRoot(n),
         NEW s \in Finder!SysPaths, NEW t \in Finder!SysPaths,
         NEW f, IsLookup(f, s, n), NEW g, IsLookup(g, t, n), NEW j \in 0 .. Len(n)
  PROVE  NothingUpto(n, j) \/ Alike(f[j], g[j])
<1> DEFINE Goes(i) == NothingUpto(n, i) \/ Alike(f[i], g[i])
           apart   == {i \in 0 .. Len(n) : ~Goes(i)}
<1>1. Goes(0)
  BY DEF NothingUpto
<1>2. ASSUME NEW i \in 1 .. Len(n), Goes(i - 1)
      PROVE  Goes(i)
  <2>1. CASE NothingUpto(n, i - 1) /\ ~ \E q \in DOMAIN Roots : Importable(Place(Roots[q], n, i))
    <3>1. \A k \in 1 .. i : k = i \/ k \in 1 .. i - 1
      OBVIOUS
    <3>2. NothingUpto(n, i)
      BY <2>1, <3>1 DEF NothingUpto
    <3> QED BY <3>2
  <2>2. CASE NothingUpto(n, i - 1) /\ \E q \in DOMAIN Roots : Importable(Place(Roots[q], n, i))
    <3>1. PICK o \in DOMAIN Roots :
            Importable(Place(Roots[o], n, i)) /\ Decided(f[i], Place(Roots[o], n, i))
      BY <2>2, HitStep
    <3>2. PICK q \in DOMAIN Roots :
            Importable(Place(Roots[q], n, i)) /\ Decided(g[i], Place(Roots[q], n, i))
      BY <2>2, HitStep
    <3>3. o = q
      <4> DEFINE all == Assembled(Len(Roots))
      <4>1. PICK x \in Owned(o) :
              Settled(o, x) \in Bound(all) /\ Settled(o, x).name = Upto(n, i) /\ Settled(o, x).file = x
        BY <2>2, <3>1, FirstFileIsBound
      <4>2. PICK y \in Owned(q) :
              Settled(q, y) \in Bound(all) /\ Settled(q, y).name = Upto(n, i) /\ Settled(q, y).file = y
        BY <2>2, <3>2, FirstFileIsBound
      <4>3. Settled(o, x) = Settled(q, y)
        <5>1. IsFiniteSet(all) /\ Settled(o, x).name \notin Conflicting(all)
          BY AssembledFinite
        <5> QED BY <4>1, <4>2, <5>1, MarkingSuffices
      <4>4. x = y /\ x \in disk.files /\ Owns(o, x) /\ Owns(q, x)
        BY <4>1, <4>2, <4>3 DEF Owned
      <4> QED BY <4>4, OneOwner
    <3> QED BY <3>1, <3>2, <3>3 DEF Decided, Alike
  <2>3. CASE DOMAIN f[i - 1].path = {} /\ DOMAIN g[i - 1].path = {}
    <3>1. f[i].loads = {} /\ DOMAIN f[i].path = {} /\ g[i].loads = {} /\ DOMAIN g[i].path = {}
      BY <2>3, NothingStep
    <3> QED BY <3>1 DEF Alike
  <2>4. CASE \E d : Only(f[i - 1], d) /\ Only(g[i - 1], d)
    <3>1. PICK d : Only(f[i - 1], d) /\ Only(g[i - 1], d)
      BY <2>4
    <3> DEFINE w == Append(d, n[i])
    <3>2. IF Importable(w) THEN Decided(f[i], w)
          ELSE /\ f[i].loads = {}
               /\ IF Finder!IsDirectory(w) THEN Only(f[i], w) ELSE DOMAIN f[i].path = {}
      BY <3>1, OnlyStep
    <3>3. IF Importable(w) THEN Decided(g[i], w)
          ELSE /\ g[i].loads = {}
               /\ IF Finder!IsDirectory(w) THEN Only(g[i], w) ELSE DOMAIN g[i].path = {}
      BY <3>1, OnlyStep
    <3> HIDE DEF w
    <3>4. Decided(f[i], w) /\ Decided(g[i], w) => Alike(f[i], g[i])
      BY DEF Decided, Alike
    <3> QED BY <3>2, <3>3, <3>4 DEF Alike
  <2> QED BY <1>2, <2>1, <2>2, <2>3, <2>4 DEF Alike
<1> HIDE DEF Goes
<1>3. apart = {}
  <2> SUFFICES ASSUME apart # {} PROVE FALSE
    OBVIOUS
  <2>1. apart \in SUBSET Nat
    OBVIOUS
  <2>2. PICK i \in apart : \A l \in apart : i <= l
    BY <2>1, LeastElementExists
  <2>3. i \in 1 .. Len(n) /\ i - 1 \in 0 .. Len(n) /\ ~(i <= i - 1)
    BY <1>1, <2>2
  <2> QED BY <1>2, <2>2, <2>3
<1> QED BY <1>3 DEF Goes

\* Hence every order of the roots loads the same.
LEMMA OrderFindsTheSame ==
  ASSUME disk \in Disks, Conflicting(Assembled(Len(Roots))) = {},
         NEW n \in Seq(STRING), ~CrossesRoot(n)
  PROVE  Cardinality({Finder!Finds(s, n).loads : s \in Finder!SysPaths}) \in {0, 1}
<1> DEFINE found == {Finder!Finds(s, n).loads : s \in Finder!SysPaths}
<1>1. ASSUME NEW s \in Finder!SysPaths, NEW t \in Finder!SysPaths
      PROVE  Finder!Finds(s, n).loads = Finder!Finds(t, n).loads
  <2>1. PICK f : IsLookup(f, s, n) /\ Finder!Finds(s, n) = f[Len(n)]
    BY FindsByLookup
  <2>2. PICK g : IsLookup(g, t, n) /\ Finder!Finds(t, n) = g[Len(n)]
    BY FindsByLookup
  <2>3. Len(n) \in 0 .. Len(n)
    OBVIOUS
  <2>4. CASE NothingUpto(n, Len(n))
    <3>1. f[Len(n)].loads = {} /\ g[Len(n)].loads = {}
      BY <2>1, <2>2, <2>3, <2>4, LookupStaysOpen
    <3> QED BY <2>1, <2>2, <3>1
  <2>5. CASE Alike(f[Len(n)], g[Len(n)])
    BY <2>1, <2>2, <2>5 DEF Alike
  <2> QED BY <2>1, <2>2, <2>3, <2>4, <2>5, OrderMakesNoDifference
<1>2. \A a, b \in found : a = b
  BY <1>1
<1> HIDE DEF found
<1>3. found = {} \/ \E a : found = {a}
  BY <1>2
<1>4. Cardinality(found) \in {0, 1}
  BY <1>3, FS_EmptySet, FS_Singleton
<1> QED BY <1>4 DEF found
-----------------------------------------------------------------------------
(* The steps                                                               *)

IInv ==
  /\ disk \in Disks
  /\ visited \in 0 .. Len(Roots)
  /\ reconciled \in BOOLEAN
  /\ reconciled => visited = Len(Roots)
  /\ CatalogueInv

\* A root adds what it contributes.
LEMMA DiscoverKeeps ==
  ASSUME IInv, DiscoverRoot
  PROVE  IInv'
<1> DEFINE r == visited + 1
<1>1. modules' = modules \cup RemoveAmbiguousGroups({Candidate(r, f) : f \in {g \in disk.files : Owns(r, g)}})
      /\ UNCHANGED <<disk, reconciled>> /\ visited < Len(Roots) /\ visited' = r
  BY DEF DiscoverRoot
<1>2. modules' = modules \cup Discovered(r)
  BY <1>1 DEF Discovered, Candidates, Owned
<1>3. visited \in Nat /\ ~reconciled /\ visited' \in 0 .. Len(Roots) /\ ~reconciled'
  BY <1>1, RootsArePaths DEF IInv
<1>4. modules = Assembled(visited)
  BY <1>3 DEF IInv, CatalogueInv
<1>5. 1 .. r = (1 .. visited) \cup {r}
  BY <1>3
<1>6. Assembled(r) = Assembled(visited) \cup Discovered(r)
  BY <1>5 DEF Assembled
<1>7. Assembled(visited)' = Assembled(r)
  BY <1>1 DEF Assembled, Discovered, Candidates, Owned
<1> QED BY <1>1, <1>2, <1>3, <1>4, <1>6, <1>7 DEF IInv, CatalogueInv

\* The reconciliation marks and reports.
LEMMA ReconcileKeeps ==
  ASSUME IInv, Reconcile
  PROVE  IInv'
<1> DEFINE all == Assembled(Len(Roots))
<1>1. /\ visited = Len(Roots) /\ ~reconciled /\ reconciled' = TRUE
      /\ modules' = MarkConflicts(modules) /\ UNCHANGED <<disk, visited>>
      /\ \A n \in Conflicting(modules) : [code |-> "ambiguous_import_binding", name |-> n] \in errors'
  BY DEF Reconcile
<1>2. modules = all
  BY <1>1 DEF IInv, CatalogueInv
<1>3. Assembled(Len(Roots))' = all
  BY <1>1 DEF Assembled, Discovered, Candidates, Owned
<1>4. CatalogueInv'
  BY <1>1, <1>2, <1>3 DEF CatalogueInv
<1> QED BY <1>1, <1>4 DEF IInv

LEMMA InitInv == Init => IInv
<1> SUFFICES ASSUME Init PROVE IInv
  OBVIOUS
<1>1. visited \in 0 .. Len(Roots) /\ 1 .. visited = {}
  BY RootsArePaths DEF Init
<1>2. Assembled(visited) = {}
  BY <1>1 DEF Assembled
<1> QED BY <1>1, <1>2 DEF Init, IInv, CatalogueInv

LEMMA NextKeeps == IInv /\ [Next]_vars => IInv'
<1> SUFFICES ASSUME IInv, [Next]_vars PROVE IInv'
  OBVIOUS
<1>1. CASE DiscoverRoot BY <1>1, DiscoverKeeps
<1>2. CASE Reconcile BY <1>2, ReconcileKeeps
<1>3. CASE UNCHANGED vars
  <2>1. UNCHANGED <<disk, visited, modules, errors, reconciled>>
    BY <1>3 DEF vars
  <2>2. Assembled(visited)' = Assembled(visited) /\ Assembled(Len(Roots))' = Assembled(Len(Roots))
    BY <2>1 DEF Assembled, Discovered, Candidates, Owned
  <2>3. CatalogueInv'
    BY <2>1, <2>2 DEF IInv, CatalogueInv
  <2> QED BY <2>1, <2>3 DEF IInv
<1> QED BY <1>1, <1>2, <1>3 DEF Next

\* The catalogue holds what the roots visited so far contribute, and once
\* BindingReconciler.reconcile has run the same with every conflict marked and reported.
THEOREM InductiveInvariant == Spec => []IInv
BY InitInv, NextKeeps, PTL DEF Spec
-----------------------------------------------------------------------------
(* What the catalogue promises                                             *)

\* Each module is a file of one root, settled there, or the same marked as ambiguous.
LEMMA ModulesOfCatalogue ==
  ASSUME IInv, NEW n \in modules
  PROVE  \E r \in DOMAIN Roots : \E f \in Owned(r) :
           /\ n.file = f /\ n.name = NameBelow(r, f) /\ n.isPackage = f.init
           /\ n = Settled(r, f) \/ n.status = "ambiguous"
<1>0. disk \in Disks /\ visited \in 0 .. Len(Roots)
  BY DEF IInv
<1>1. /\ Len(Roots) \in 0 .. Len(Roots)
      /\ \A k \in 0 .. Len(Roots) : \A r \in 1 .. k : r \in DOMAIN Roots
  <2>1. DOMAIN Roots = 1 .. Len(Roots) /\ Len(Roots) \in Nat
    BY RootsArePaths
  <2> QED BY <2>1
<1>2. CASE ~reconciled
  <2>1. PICK r \in 1 .. visited : \E f \in Owned(r) : n = Settled(r, f)
    BY <1>0, <1>1, <1>2, AssembledModules DEF IInv, CatalogueInv
  <2>2. r \in DOMAIN Roots
    BY <1>0, <1>1
  <2> QED BY <1>0, <1>1, <2>1, <2>2, SettledFields
<1>3. CASE reconciled
  <2>1. PICK m \in Assembled(Len(Roots)) :
          /\ n.file = m.file /\ n.name = m.name /\ n.isPackage = m.isPackage
          /\ n = m \/ n.status = "ambiguous"
    <3>1. PICK m \in Assembled(Len(Roots)) :
            /\ n.file = m.file /\ n.name = m.name /\ n.isPackage = m.isPackage
            /\ n = [m EXCEPT !.status = IF @ = "bound" /\ m.name \in Conflicting(Assembled(Len(Roots)))
                                        THEN "ambiguous" ELSE @]
      BY <1>0, <1>1, <1>3, MarkedFields DEF IInv, CatalogueInv
    <3>2. IsModule(m)
      BY <1>0, <1>1, AssembledModules, ModuleFields
    <3>3. n = m \/ n.status = "ambiguous"
      BY <3>1, <3>2, StatusReplaced
    <3> QED BY <3>1, <3>3
  <2>2. PICK r \in 1 .. Len(Roots) : \E f \in Owned(r) : m = Settled(r, f)
    BY <1>0, <1>1, AssembledModules
  <2>3. r \in DOMAIN Roots
    BY <1>0, <1>1
  <2> QED BY <1>0, <1>1, <2>1, <2>2, <2>3, SettledFields
<1> QED BY <1>2, <1>3 DEF IInv

\* For all roots and disks, every catalogued module comes from a file on disk, only plain
\* modules are shadowed, and a path-only source has no package to import from.
THEOREM TypeCorrect == Spec => []TypeOK
<1>1. IInv => TypeOK
  <2> SUFFICES ASSUME IInv, NEW n \in modules
               PROVE  /\ n.file \in disk.files /\ n.status \in Status /\ n.isPackage = n.file.init
                      /\ n.status = "shadowed" => ~n.isPackage
                      /\ n.status = "path_only" => n.parent = NoName
    BY DEF IInv, TypeOK
  <2>1. PICK r \in DOMAIN Roots : \E f \in Owned(r) :
          /\ n.file = f /\ n.name = NameBelow(r, f) /\ n.isPackage = f.init
          /\ n = Settled(r, f) \/ n.status = "ambiguous"
    BY ModulesOfCatalogue
  <2>2. disk \in Disks
    BY DEF IInv
  <2> QED BY <2>1, <2>2, SettledFields DEF Owned, Status
<1> QED BY <1>1, InductiveInvariant, PTL

\* For all roots and disks, one pass of BindingReconciler.reconcile leaves no two bound
\* sources that dispute a name, a child of a plain module, or a child that the package
\* above it does not search.
THEOREM OnePassReconciles == Spec => []BindingsCompatible
<1>1. IInv => BindingsCompatible
  <2> DEFINE all == Assembled(Len(Roots))
  <2> SUFFICES ASSUME IInv, reconciled, NEW m \in Bound(modules), NEW n \in Bound(modules)
               PROVE  /\ m.name = n.name => m = n
                      /\ n.name \in Ancestors(m.name) => n.isPackage /\ InsideDirectory(m, n)
    BY DEF BindingsCompatible
  <2>1. disk \in Disks /\ modules = MarkConflicts(all)
    BY DEF IInv, CatalogueInv
  <2>2. /\ m \in Bound(all) /\ m.name \notin Conflicting(all)
        /\ n \in Bound(all) /\ n.name \notin Conflicting(all)
    BY <2>1, MarkedFields DEF Bound
  <2> QED BY <2>1, <2>2, MarkingSuffices, AssembledFinite
<1> QED BY <1>1, InductiveInvariant, PTL

\* For all roots, nested ones included, and all disks, SourceCatalogBuilder.build lists each
\* file below a selected root once, and no other.
THEOREM NoFileLostOrDoubled == Spec => []EveryFileIsOneModule
<1>1. IInv => EveryFileIsOneModule
  <2>1. IInv /\ reconciled => EveryFileIsOneModule
    BY FilesAreModules DEF IInv, CatalogueInv
  <2>2. ~reconciled => EveryFileIsOneModule
    BY DEF EveryFileIsOneModule
  <2> QED BY <2>1, <2>2 DEF IInv
<1> QED BY <1>1, InductiveInvariant, PTL

\* For all roots and disks, a name that BindingReconciler.reconcile leaves bound leads
\* Python's finder to that very file whichever way sys.path is ordered.
THEOREM BindingsFollowPython == Spec => []BoundIsWhatPythonFinds
<1>1. IInv => BoundIsWhatPythonFinds
  <2> DEFINE all == Assembled(Len(Roots))
  <2> SUFFICES ASSUME IInv, reconciled, NEW m \in Bound(modules), ~CrossesRoot(m.name),
                      NEW s \in Finder!SysPaths
               PROVE  Finder!Finds(s, m.name).loads = {m.file}
    BY DEF BoundIsWhatPythonFinds
  <2>1. disk \in Disks /\ modules = MarkConflicts(all)
    BY DEF IInv, CatalogueInv
  <2>2. m \in Bound(all) /\ m.name \notin Conflicting(all)
    BY <2>1, MarkedFields DEF Bound
  <2>3. PICK r \in DOMAIN Roots : m.file \in Owned(r) /\ m = Settled(r, m.file)
    <3>1. m.status # "ambiguous"
      BY DEF Bound
    <3> QED BY <3>1, ModulesOfCatalogue DEF Bound
  <2>4. Settles(m, r)
    BY <2>2, <2>3 DEF Settles
  <2> QED BY <2>1, <2>4, BoundIsFound
<1> QED BY <1>1, InductiveInvariant, PTL

\* For all roots and disks, when Python resolves a catalogued name to different files under
\* different orders of the roots, BindingReconciler.reconcile has reported a conflict.
THEOREM OrderIsNeverDecisive == Spec => []OrderConflictIsReported
<1>1. IInv => OrderConflictIsReported
  <2> SUFFICES ASSUME IInv, reconciled, NEW m \in modules, m.name # NoName, ~CrossesRoot(m.name),
                      Cardinality({Finder!Finds(s, m.name).loads : s \in Finder!SysPaths}) > 1,
                      errors = {}
               PROVE  FALSE
    BY DEF OrderConflictIsReported
  <2>1. disk \in Disks /\ Conflicting(Assembled(Len(Roots))) = {}
    BY DEF IInv, CatalogueInv
  <2>2. m.name \in Seq(STRING)
    BY <2>1, ModulesOfCatalogue, OwnedFiles
  <2>3. Cardinality({Finder!Finds(s, m.name).loads : s \in Finder!SysPaths}) \in {0, 1}
    BY <2>1, <2>2, OrderFindsTheSame
  <2> QED BY <2>3
<1> QED BY <1>1, InductiveInvariant, PTL
-----------------------------------------------------------------------------
(* What Python finds when extension modules lie beside the sources          *)

Loadable == disk.files \cup Extensions

\* An extension is a declared target, and a path like a file's.
LEMMA ExtensionFields ==
  ASSUME disk \in Disks, NEW e \in Extensions
  PROVE  /\ WellFormed(e) /\ e = [at |-> e.at, init |-> e.init]
         /\ \E t \in disk.targets : IsExtension(t) /\ WellFormed(t) /\ t.at = e.at /\ t.init = e.init
<1>1. PICK t \in disk.targets : IsExtension(t) /\ e = [at |-> t.at, init |-> t.init]
  BY DEF Extensions
<1>2. t.at \in Seq(STRING) /\ t.init \in BOOLEAN /\ (t.at # <<>> \/ t.init)
  BY TargetsAssumption
<1>3. e.at = t.at /\ e.init = t.init
  BY <1>1
<1> QED BY <1>1, <1>2, <1>3 DEF WellFormed

\* What is loadable is a path and nothing more.
LEMMA LoadableFields ==
  ASSUME disk \in Disks, NEW f \in Loadable
  PROVE  /\ f.at \in Seq(STRING) /\ f.init \in BOOLEAN /\ f = [at |-> f.at, init |-> f.init]
         /\ f = IF f.init THEN Python!Package(f.at) ELSE Python!Plain(f.at)
<1>1. f.at \in Seq(STRING) /\ f.init \in BOOLEAN /\ f = [at |-> f.at, init |-> f.init]
  BY FilesAreWellFormed, ExtensionFields DEF Loadable, WellFormed
<1> QED BY <1>1 DEF Python!Package, Python!Plain

\* What lies at a place is what Python can import there.
LEMMA LoadableAt ==
  ASSUME disk \in Disks, NEW d
  PROVE  /\ Python!Importable(d) <=> \E f \in Loadable : f.at = d
         /\ Python!Package(d) = PackageAt(d) /\ Python!Plain(d) = Finder!Plain(d)
         /\ Python!Package(d).at = d /\ Python!Plain(d).at = d
         /\ Python!Package(d).init /\ ~Python!Plain(d).init
<1>1. /\ Python!Package(d) = PackageAt(d) /\ Python!Plain(d) = Finder!Plain(d)
      /\ Python!Package(d).at = d /\ Python!Plain(d).at = d
      /\ Python!Package(d).init /\ ~Python!Plain(d).init
  BY DEF Python!Package, Python!Plain, PackageAt, Finder!Plain
<1>2. Python!Importable(d) <=> Python!Package(d) \in Loadable \/ Python!Plain(d) \in Loadable
  BY DEF Python!Importable, Loadable
<1>3. ASSUME NEW f \in Loadable, f.at = d PROVE Python!Importable(d)
  BY <1>2, <1>3, LoadableFields
<1> QED BY <1>1, <1>2, <1>3

\* Both finders search the same orders of the roots.
LEMMA SameSysPaths == Python!SysPaths = Finder!SysPaths
BY DEF Python!SysPaths, Finder!SysPaths, Python!Range, Finder!Range

IsSearch(g, path, n) ==
  g = [k \in 0 .. Len(n) |-> IF k = 0 THEN [Python!Nothing EXCEPT !.path = path]
                             ELSE Python!Search(g[k - 1].path, n[k])]

\* The search that Python!Finds defines by recursion exists.
LEMMA SearchExists ==
  ASSUME NEW path, NEW n \in Seq(STRING)
  PROVE  \E g : IsSearch(g, path, n)
<1> DEFINE start      == [Python!Nothing EXCEPT !.path = path]
           Is(g, m)   == g = [k \in 0 .. m |-> IF k = 0 THEN start ELSE Python!Search(g[k - 1].path, n[k])]
           none       == {m \in Nat : ~ \E g : Is(g, m)}
<1> HIDE DEF start
<1>1. none = {}
  <2> SUFFICES ASSUME none # {} PROVE FALSE
    OBVIOUS
  <2>1. PICK m \in none : \A l \in none : m <= l
    BY LeastElementExists
  <2>2. m # 0
    <3> DEFINE g == [k \in 0 .. 0 |-> start]
    <3>1. Is(g, 0)
      OBVIOUS
    <3> QED BY <3>1
  <2>3. m - 1 \in Nat /\ m - 1 \notin none
    BY <2>1, <2>2
  <2>4. PICK h : Is(h, m - 1)
    BY <2>3
  <2> DEFINE g == [k \in 0 .. m |-> IF k = m THEN Python!Search(h[m - 1].path, n[m]) ELSE h[k]]
  <2>5. \A k \in 0 .. m : g[k] = IF k = 0 THEN start ELSE Python!Search(g[k - 1].path, n[k])
    <3> SUFFICES ASSUME NEW k \in 0 .. m
                 PROVE  g[k] = IF k = 0 THEN start ELSE Python!Search(g[k - 1].path, n[k])
      OBVIOUS
    <3>1. k # 0 => k - 1 \in 0 .. m - 1 /\ k - 1 \in 0 .. m /\ k - 1 # m
      BY <2>1
    <3>2. k # 0 => g[k - 1] = h[k - 1]
      BY <3>1
    <3>3. CASE k = m
      BY <3>2, <3>3, <2>2
    <3>4. CASE k # m
      <4>1. k \in 0 .. m - 1
        BY <2>1, <3>4
      <4>2. h[k] = IF k = 0 THEN start ELSE Python!Search(h[k - 1].path, n[k])
        BY <4>1, <2>4
      <4> QED BY <4>2, <3>2, <3>4
    <3> QED BY <3>3, <3>4
  <2>6. g = [k \in 0 .. m |-> g[k]]
    OBVIOUS
  <2> HIDE DEF g
  <2>7. Is(g, m)
    BY <2>5, <2>6
  <2> QED BY <2>7, <2>1
<1>2. Len(n) \in Nat
  OBVIOUS
<1> QED BY <1>1, <1>2 DEF IsSearch, start

\* g is Python's search for n under the order s of the roots
Searches(g, s, n) ==
  /\ g[0].path = s /\ g[0].loads = {}
  /\ \A j \in 1 .. Len(n) : g[j] = Python!Search(g[j - 1].path, n[j])

\* Python!Finds is the end of that search.
LEMMA FindsBySearch ==
  ASSUME NEW path, NEW n \in Seq(STRING)
  PROVE  \E g : Searches(g, path, n) /\ Python!Finds(path, n) = g[Len(n)]
<1> DEFINE found == CHOOSE g : IsSearch(g, path, n)
<1>1. IsSearch(found, path, n)
  BY SearchExists
<1>2. Python!Finds(path, n) = found[Len(n)]
  BY DEF Python!Finds, IsSearch
<1> HIDE DEF found
<1>3. found[0] = [Python!Nothing EXCEPT !.path = path]
  BY <1>1 DEF IsSearch
<1>4. ASSUME NEW j \in 1 .. Len(n) PROVE found[j] = Python!Search(found[j - 1].path, n[j])
  <2>1. j \in 0 .. Len(n) /\ j # 0
    OBVIOUS
  <2> QED BY <2>1, <1>1 DEF IsSearch
<1>5. found[0].path = path /\ found[0].loads = {}
  BY <1>3 DEF Python!Nothing
<1> QED BY <1>2, <1>4, <1>5 DEF Searches

\* One step of a search: where it goes on, and what it may load.
LEMMA SearchStep ==
  ASSUME disk \in Disks, NEW path, DOMAIN path \subseteq Nat, NEW i
  PROVE  LET found == Python!Search(path, i)
         IN /\ DOMAIN found.path \subseteq DOMAIN path
            /\ \A k \in DOMAIN found.path :
                 /\ found.path[k] = Append(path[k], i)
                 /\ Python!Importable(Append(path[k], i)) => PackageAt(Append(path[k], i)) \in Loadable
            /\ \A f \in found.loads :
                 /\ f \in Loadable
                 /\ \E k \in DOMAIN path :
                      /\ f.at = Append(path[k], i)
                      /\ PackageAt(f.at) \in Loadable => f.init
<1> DEFINE hits     == {k \in DOMAIN path : Python!Importable(Append(path[k], i))}
           portions == {k \in DOMAIN path : Python!IsDirectory(Append(path[k], i))}
           first    == CHOOSE k \in hits : \A l \in hits : k <= l
           at       == Append(path[first], i)
           found    == Python!Search(path, i)
<1>1. CASE hits = {}
  <2>1. found = [loads |-> {}, path |-> [k \in portions |-> Append(path[k], i)]]
    BY <1>1 DEF Python!Search
  <2> HIDE DEF found
  <2>2. found.loads = {} /\ DOMAIN found.path = portions
        /\ \A k \in portions : found.path[k] = Append(path[k], i)
    BY <2>1
  <2> QED BY <2>2, <1>1 DEF found
<1>2. CASE hits # {}
  <2>1. hits \in SUBSET Nat
    OBVIOUS
  <2>2. found =
          IF Python!Package(at) \in Loadable
          THEN [loads |-> {Python!Package(at)}, path |-> [k \in {first} |-> Append(path[k], i)]]
          ELSE [loads |-> {Python!Plain(at)}, path |-> <<>>]
    BY <1>2 DEF Python!Search, Loadable
  <2>3. first \in hits
    <3> HIDE DEF hits
    <3> QED BY <1>2, <2>1, LeastElementExists
  <2> HIDE DEF found, first
  <2>4. first \in DOMAIN path /\ Python!Importable(at)
    BY <2>3
  <2>5. /\ Python!Package(at) = PackageAt(at) /\ Python!Package(at).at = at /\ Python!Plain(at).at = at
        /\ Python!Package(at).init
    BY LoadableAt
  <2>6. CASE PackageAt(at) \in Loadable
    <3>1. found.loads = {PackageAt(at)} /\ DOMAIN found.path = {first} /\ found.path[first] = at
      BY <2>2, <2>5, <2>6
    <3> HIDE DEF at
    <3>2. at = Append(path[first], i)
      BY DEF at
    <3> QED BY <3>1, <3>2, <2>4, <2>5, <2>6 DEF found
  <2>7. CASE PackageAt(at) \notin Loadable
    <3>1. found.loads = {Python!Plain(at)} /\ found.path = <<>>
      BY <2>2, <2>5, <2>7
    <3>2. DOMAIN found.path = {}
      BY <3>1
    <3>3. Python!Plain(at) \in Loadable
      BY <2>4, <2>5, <2>7 DEF Python!Importable, Loadable
    <3> HIDE DEF at
    <3>4. at = Append(path[first], i)
      BY DEF at
    <3> QED BY <3>1, <3>2, <3>3, <3>4, <2>4, <2>5, <2>7 DEF found
  <2> QED BY <2>6, <2>7
<1> QED BY <1>1, <1>2

\* A search goes down the places of the name below the roots it began with.
LEMMA SearchGoesDown ==
  ASSUME disk \in Disks, NEW s \in Finder!SysPaths, NEW n \in Seq(STRING), NEW g, Searches(g, s, n),
         NEW j \in 0 .. Len(n)
  PROVE  /\ DOMAIN g[j].path \subseteq DOMAIN s
         /\ \A k \in DOMAIN g[j].path : g[j].path[k] = Place(s[k], n, j)
<1> DEFINE Down(i) == /\ DOMAIN g[i].path \subseteq DOMAIN s
                      /\ \A k \in DOMAIN g[i].path : g[i].path[k] = Place(s[k], n, i)
           bad == {i \in 0 .. Len(n) : ~Down(i)}
<1>1. Down(0)
  <2>1. \A k \in DOMAIN s : Place(s[k], n, 0) = s[k]
    BY SysPathFacts DEF Place, Upto
  <2> QED BY <2>1 DEF Searches
<1>2. ASSUME NEW i \in 1 .. Len(n), Down(i - 1)
      PROVE  Down(i)
  <2>1. g[i] = Python!Search(g[i - 1].path, n[i])
    BY DEF Searches
  <2>2. DOMAIN g[i - 1].path \subseteq Nat
    BY <1>2, SysPathFacts
  <2>3. /\ DOMAIN g[i].path \subseteq DOMAIN g[i - 1].path
        /\ \A k \in DOMAIN g[i].path : g[i].path[k] = Append(g[i - 1].path[k], n[i])
    BY <2>1, <2>2, SearchStep
  <2>4. ASSUME NEW k \in DOMAIN g[i - 1].path
        PROVE  Append(g[i - 1].path[k], n[i]) = Place(s[k], n, i)
    <3>1. s[k] \in Seq(STRING) /\ g[i - 1].path[k] = Place(s[k], n, i - 1)
      BY <1>2, SysPathFacts
    <3> QED BY <3>1, PlaceStep
  <2> QED BY <1>2, <2>3, <2>4
<1> HIDE DEF Down
<1>3. bad = {}
  <2> SUFFICES ASSUME bad # {} PROVE FALSE
    OBVIOUS
  <2>b. bad \in SUBSET Nat
    OBVIOUS
  <2>1. PICK i \in bad : \A l \in bad : i <= l
    BY <2>b, LeastElementExists
  <2>2. i \in 1 .. Len(n) /\ i - 1 \in 0 .. Len(n) /\ ~(i <= i - 1)
    BY <2>1, <1>1
  <2> QED BY <1>2, <2>1, <2>2
<1> QED BY <1>3 DEF Down

\* A directory that a search is still in at one step was searched at every step before.
LEMMA SearchKeepsPlaces ==
  ASSUME disk \in Disks, NEW s \in Finder!SysPaths, NEW n \in Seq(STRING), NEW g, Searches(g, s, n),
         NEW j \in 0 .. Len(n), NEW k \in DOMAIN g[j].path, NEW i \in 0 .. j
  PROVE  k \in DOMAIN g[i].path
<1> DEFINE lost == {d \in Nat : d <= j /\ k \notin DOMAIN g[j - d].path}
<1>1. lost = {}
  <2> SUFFICES ASSUME lost # {} PROVE FALSE
    OBVIOUS
  <2>1. PICK d \in lost : \A l \in lost : d <= l
    BY LeastElementExists
  <2>2. d # 0
    BY <2>1
  <2>3. PICK l : l = j - d + 1
    OBVIOUS
  <2>4. d - 1 \in Nat /\ ~(d <= d - 1) /\ d - 1 <= j /\ l \in 1 .. Len(n) /\ l - 1 = j - d /\ j - (d - 1) = l
        /\ l - 1 \in 0 .. Len(n)
    BY <2>1, <2>2, <2>3
  <2>5. d - 1 \notin lost
    BY <2>1, <2>4
  <2>6. k \in DOMAIN g[l].path
    BY <2>4, <2>5
  <2>7. g[l] = Python!Search(g[l - 1].path, n[l])
    BY <2>4 DEF Searches
  <2>8. DOMAIN g[l - 1].path \subseteq Nat
    BY <2>4, SearchGoesDown, SysPathFacts
  <2>9. k \in DOMAIN g[l - 1].path
    BY <2>6, <2>7, <2>8, SearchStep
  <2> QED BY <2>1, <2>4, <2>9
<1>2. j - i \in Nat /\ j - i <= j /\ j - (j - i) = i
  OBVIOUS
<1> QED BY <1>1, <1>2
-----------------------------------------------------------------------------
\* What lies below a directory, or is a path in it, makes the directory.
LEMMA InDirectory ==
  ASSUME NEW d \in Seq(STRING), NEW i \in STRING
  PROVE  /\ \A t \in Seq(STRING) : IsPrefix(Append(d, i), t) => IsPrefix(d, t)
         /\ \A f : WellFormed(f) /\ f.at = Append(d, i) => IsPrefix(d, Directory(f))
<1>0. /\ Append(d, i) \in Seq(STRING) /\ Len(Append(d, i)) = Len(d) + 1
      /\ \A k \in 1 .. Len(d) : Append(d, i)[k] = d[k]
  BY AppendMeans
<1> DEFINE w == Append(d, i)
<1>1. w \in Seq(STRING) /\ Len(w) = Len(d) + 1 /\ \A k \in 1 .. Len(d) : w[k] = d[k]
  BY <1>0
<1> HIDE DEF w
<1>2. ASSUME NEW t \in Seq(STRING), IsPrefix(w, t) PROVE IsPrefix(d, t)
  <2>1. Len(w) <= Len(t) /\ \A k \in 1 .. Len(w) : w[k] = t[k]
    BY <1>1, <1>2, PrefixMeans
  <2>2. Len(d) <= Len(t) /\ \A k \in 1 .. Len(d) : d[k] = t[k]
    BY <1>1, <2>1
  <2> QED BY <2>2, PrefixMeans
<1>3. ASSUME NEW f, WellFormed(f), f.at = w PROVE IsPrefix(d, Directory(f))
  <2>1. /\ f.at \in Seq(STRING) /\ f.init \in BOOLEAN /\ Directory(f) \in Seq(STRING)
        /\ f.init => Directory(f) = f.at
        /\ ~f.init => Directory(f) = SubSeq(f.at, 1, Len(f.at) - 1)
    BY <1>3, DirectoryFields
  <2>2. Len(d) <= Len(Directory(f)) /\ \A k \in 1 .. Len(d) : d[k] = Directory(f)[k]
    BY <1>1, <1>3, <2>1
  <2> QED BY <2>1, <2>2, PrefixMeans
<1> QED BY <1>2, <1>3 DEF w

\* A directory of the sources is one for Python.
LEMMA DirectoryForPython ==
  ASSUME disk \in Disks, NEW d \in Seq(STRING), Finder!IsDirectory(d)
  PROVE  Python!IsDirectory(d)
<1>1. \A f : Python!Holder(f) = Finder!Holder(f)
  BY DEF Python!Holder, Finder!Holder, Python!Front, Finder!Front
<1>2. \A t : Python!IsPrefix(d, t) <=> Finder!IsPrefix(d, t)
  BY DEF Python!IsPrefix, Finder!IsPrefix
<1> QED BY <1>1, <1>2 DEF Python!IsDirectory, Finder!IsDirectory

\* a lookup among the sources searches the directories of them that Python searches
Agree(found, other) ==
  /\ found.loads = other.loads
  /\ DOMAIN found.path \subseteq DOMAIN other.path
  /\ \A k \in DOMAIN found.path : found.path[k] = other.path[k]
  /\ \A k \in DOMAIN other.path : Finder!IsDirectory(other.path[k]) => k \in DOMAIN found.path

\* Where no extension lies, they stay in agreement.
LEMMA AgreeStep ==
  ASSUME disk \in Disks, NEW i \in STRING, NEW p, NEW q, DOMAIN q \subseteq Nat,
         \A k \in DOMAIN q : q[k] \in Seq(STRING),
         DOMAIN p \subseteq DOMAIN q, \A k \in DOMAIN p : p[k] = q[k],
         \A k \in DOMAIN q : Finder!IsDirectory(q[k]) => k \in DOMAIN p,
         \A k \in DOMAIN q : \A e \in Extensions : e.at # Append(q[k], i)
  PROVE  Agree(Finder!Search(p, i), Python!Search(q, i))
<1> DEFINE hits     == {k \in DOMAIN p : Finder!Importable(Append(p[k], i))}
           others   == {k \in DOMAIN q : Python!Importable(Append(q[k], i))}
           portions == {k \in DOMAIN p : Finder!IsDirectory(Append(p[k], i))}
           parts    == {k \in DOMAIN q : Python!IsDirectory(Append(q[k], i))}
           first    == CHOOSE k \in hits : \A l \in hits : k <= l
           at       == Append(p[first], i)
           a        == Finder!Search(p, i)
           b        == Python!Search(q, i)
<1>1. \A k \in DOMAIN q : Python!Importable(Append(q[k], i)) <=> Finder!Importable(Append(q[k], i))
  BY LoadableAt, ImportableFiles DEF Loadable, Importable
<1>2. ASSUME NEW k \in DOMAIN q, Finder!Importable(Append(q[k], i)) PROVE k \in DOMAIN p
  <2>1. PICK f \in disk.files : f.at = Append(q[k], i)
    BY <1>2, ImportableFiles DEF Importable
  <2>2. WellFormed(f) /\ q[k] \in Seq(STRING)
    BY FilesAreWellFormed
  <2>3. IsPrefix(q[k], Directory(f))
    BY <2>1, <2>2, InDirectory
  <2>4. Finder!IsDirectory(q[k])
    BY <2>2, <2>3, DirectoryOfFile
  <2> QED BY <2>4
<1>3. hits = others
  BY <1>1, <1>2
<1>4. ASSUME NEW k \in DOMAIN q, Finder!IsDirectory(Append(q[k], i))
      PROVE  k \in DOMAIN p /\ Python!IsDirectory(Append(q[k], i))
  <2>1. q[k] \in Seq(STRING) /\ Append(q[k], i) \in Seq(STRING)
    OBVIOUS
  <2>2. PICK f \in disk.files : IsPrefix(Append(q[k], i), Directory(f))
    BY <1>4, <2>1, DirectoryOfFile
  <2>3. IsPrefix(q[k], Directory(f))
    BY <2>1, <2>2, InDirectory, FilesAreWellFormed
  <2>4. Finder!IsDirectory(q[k])
    BY <2>1, <2>3, DirectoryOfFile
  <2> QED BY <1>4, <2>1, <2>4, DirectoryForPython
<1>5. CASE hits = {}
  <2>1. a = [loads |-> {}, path |-> [k \in portions |-> Append(p[k], i)]]
    BY <1>5 DEF Finder!Search
  <2>2. b = [loads |-> {}, path |-> [k \in parts |-> Append(q[k], i)]]
    BY <1>3, <1>5 DEF Python!Search
  <2> HIDE DEF a, b
  <2>3. /\ a.loads = {} /\ DOMAIN a.path = portions /\ \A k \in portions : a.path[k] = Append(p[k], i)
        /\ b.loads = {} /\ DOMAIN b.path = parts /\ \A k \in parts : b.path[k] = Append(q[k], i)
    BY <2>1, <2>2
  <2>4. \A k \in portions : k \in parts /\ a.path[k] = b.path[k]
    BY <1>4, <2>3
  <2>5. \A k \in parts : Finder!IsDirectory(b.path[k]) => k \in portions
    BY <1>4, <2>3
  <2> HIDE DEF portions, parts
  <2>6. Agree(a, b)
    BY <2>3, <2>4, <2>5 DEF Agree
  <2> QED BY <2>6 DEF a, b
<1>6. CASE hits # {}
  <2>1. a = IF Finder!Package(at) \in disk.files
            THEN [loads |-> {Finder!Package(at)}, path |-> [k \in {first} |-> Append(p[k], i)]]
            ELSE [loads |-> {Finder!Plain(at)}, path |-> <<>>]
    BY <1>6 DEF Finder!Search
  <2> DEFINE least == CHOOSE k \in others : \A l \in others : k <= l
             there == Append(q[least], i)
  <2>2. b = IF Python!Package(there) \in Loadable
            THEN [loads |-> {Python!Package(there)}, path |-> [k \in {least} |-> Append(q[k], i)]]
            ELSE [loads |-> {Python!Plain(there)}, path |-> <<>>]
    BY <1>3, <1>6 DEF Python!Search, Loadable
  <2>3. least = first
    BY <1>3
  <2>h. hits \in SUBSET Nat
    OBVIOUS
  <2>4. first \in hits
    <3> HIDE DEF hits
    <3> QED BY <1>6, <2>h, LeastElementExists
  <2> HIDE DEF a, b, first, least
  <2>5. first \in DOMAIN p /\ first \in DOMAIN q /\ p[first] = q[first] /\ there = at
    BY <2>3, <2>4
  <2>6. /\ Python!Package(at) = PackageAt(at) /\ Python!Plain(at) = Finder!Plain(at)
        /\ Finder!Package(at) = PackageAt(at) /\ PackageAt(at).at = at
    BY LoadableAt, ImportableFiles
  <2>7. PackageAt(at) \in Loadable <=> PackageAt(at) \in disk.files
    BY <2>5, <2>6 DEF Loadable
  <2>8. [k \in {first} |-> Append(p[k], i)] = [k \in {least} |-> Append(q[k], i)]
    BY <2>3, <2>5
  <2>9. a = b
    BY <2>1, <2>2, <2>5, <2>6, <2>7, <2>8
  <2>10. DOMAIN a.path \subseteq DOMAIN b.path /\ a.loads = b.loads /\ a.path = b.path
    BY <2>9
  <2> HIDE DEF at
  <2>11. Agree(a, b)
    BY <2>10 DEF Agree
  <2> QED BY <2>11 DEF a, b
<1> QED BY <1>5, <1>6

\* no extension lies at a place of the name
NoExtension(n) ==
  \A r \in DOMAIN Roots : \A j \in 1 .. Len(n) : \A e \in Extensions : e.at # Place(Roots[r], n, j)

\* Where no extension lies, Python loads what it would load from the sources alone.
LEMMA SourcesAlone ==
  ASSUME disk \in Disks, NEW s \in Finder!SysPaths, NEW n \in Seq(STRING), NoExtension(n)
  PROVE  Python!Finds(s, n).loads = Finder!Finds(s, n).loads
<1>1. PICK f : IsLookup(f, s, n) /\ Finder!Finds(s, n) = f[Len(n)]
  BY FindsByLookup
<1>2. PICK g : Searches(g, s, n) /\ Python!Finds(s, n) = g[Len(n)]
  BY FindsBySearch
<1>3. f[0].path = s /\ f[0].loads = {} /\ Stepwise(f, n)
  BY <1>1, LookupSteps
<1> DEFINE apart == {j \in 0 .. Len(n) : ~Agree(f[j], g[j])}
<1>4. Agree(f[0], g[0])
  BY <1>2, <1>3 DEF Agree, Searches
<1>5. ASSUME NEW j \in 1 .. Len(n), Agree(f[j - 1], g[j - 1])
      PROVE  Agree(f[j], g[j])
  <2> DEFINE p == f[j - 1].path
             q == g[j - 1].path
  <2>1. j - 1 \in 0 .. Len(n) /\ n[j] \in STRING
    OBVIOUS
  <2>2. DOMAIN q \subseteq DOMAIN s /\ \A k \in DOMAIN q : q[k] = Place(s[k], n, j - 1)
    BY <1>2, <2>1, SearchGoesDown
  <2>3. f[j] = Finder!Search(p, n[j]) /\ g[j] = Python!Search(q, n[j])
    BY <1>2, <1>3 DEF Searches, Stepwise
  <2>4. /\ DOMAIN p \subseteq DOMAIN q /\ \A k \in DOMAIN p : p[k] = q[k]
        /\ \A k \in DOMAIN q : Finder!IsDirectory(q[k]) => k \in DOMAIN p
    BY <1>5 DEF Agree
  <2> HIDE DEF p, q
  <2>5. ASSUME NEW k \in DOMAIN q
        PROVE  q[k] \in Seq(STRING) /\ \A e \in Extensions : e.at # Append(q[k], n[j])
    <3>1. s[k] \in Seq(STRING) /\ q[k] = Place(s[k], n, j - 1)
      BY <2>2, SysPathFacts
    <3>2. PICK r \in DOMAIN Roots : s[k] = Roots[r]
      BY <2>2, SysPathFacts
    <3>3. Append(q[k], n[j]) = Place(Roots[r], n, j)
      BY <3>1, <3>2, PlaceStep
    <3>4. q[k] \in Seq(STRING)
      BY <2>1, <3>1, PlaceMeans
    <3> QED BY <3>3, <3>4 DEF NoExtension
  <2>6. DOMAIN q \subseteq Nat
    BY <2>2, SysPathFacts
  <2> QED BY <2>1, <2>3, <2>4, <2>5, <2>6, AgreeStep
<1>6. apart = {}
  <2> SUFFICES ASSUME apart # {} PROVE FALSE
    OBVIOUS
  <2>1. apart \in SUBSET Nat
    OBVIOUS
  <2>2. PICK j \in apart : \A l \in apart : j <= l
    BY <2>1, LeastElementExists
  <2>3. j \in 1 .. Len(n) /\ j - 1 \in 0 .. Len(n) /\ ~(j <= j - 1)
    BY <1>4, <2>2
  <2> QED BY <1>5, <2>2, <2>3
<1>7. Agree(f[Len(n)], g[Len(n)])
  BY <1>6
<1> QED BY <1>1, <1>2, <1>7 DEF Agree

\* What Python loads for a name lies at its place below some root, and no plain module of
\* that root is in its way.
LEMMA WhatIsLoaded ==
  ASSUME disk \in Disks, NEW s \in Finder!SysPaths, NEW n \in Seq(STRING),
         NEW f \in Python!Finds(s, n).loads
  PROVE  \E r \in DOMAIN Roots :
           /\ Len(n) # 0 /\ f \in Loadable /\ f.at = Place(Roots[r], n, Len(n))
           /\ PackageAt(f.at) \in Loadable => f.init
           /\ \A j \in 1 .. Len(n) - 1 : \A e \in Loadable :
                e.at = Place(Roots[r], n, j) => PackageAt(e.at) \in Loadable
<1>1. PICK g : Searches(g, s, n) /\ Python!Finds(s, n) = g[Len(n)]
  BY FindsBySearch
<1>2. Len(n) # 0 /\ Len(n) \in 1 .. Len(n) /\ Len(n) - 1 \in 0 .. Len(n)
  BY <1>1 DEF Searches
<1> DEFINE l == Len(n)
           p == g[l - 1].path
<1>3. DOMAIN p \subseteq DOMAIN s /\ \A k \in DOMAIN p : p[k] = Place(s[k], n, l - 1)
  BY <1>1, <1>2, SearchGoesDown
<1>4. g[l] = Python!Search(p, n[l])
  BY <1>1, <1>2 DEF Searches
<1>5. DOMAIN p \subseteq Nat
  BY <1>3, SysPathFacts
<1>6. PICK k \in DOMAIN p :
        f \in Loadable /\ f.at = Append(p[k], n[l]) /\ (PackageAt(f.at) \in Loadable => f.init)
  <2> HIDE DEF p, l
  <2>1. f \in Python!Search(p, n[l]).loads
    BY <1>1, <1>4 DEF l
  <2> QED BY <1>5, <2>1, SearchStep
<1>7. PICK r \in DOMAIN Roots : s[k] = Roots[r]
  BY <1>3, SysPathFacts
<1>8. Roots[r] \in Seq(STRING)
  BY RootsArePaths
<1>9. f.at = Place(Roots[r], n, l)
  <2>1. p[k] = Place(Roots[r], n, l - 1)
    BY <1>3, <1>7
  <2>2. Append(Place(Roots[r], n, l - 1), n[l]) = Place(Roots[r], n, l)
    BY <1>2, <1>8, PlaceStep
  <2> QED BY <1>6, <2>1, <2>2
<1>10. ASSUME NEW j \in 1 .. Len(n) - 1, NEW e \in Loadable, e.at = Place(Roots[r], n, j)
       PROVE  PackageAt(e.at) \in Loadable
  <2> DEFINE q == g[j - 1].path
  <2>1. j \in 0 .. l - 1 /\ j - 1 \in 0 .. l - 1 /\ j \in 0 .. Len(n) /\ j - 1 \in 0 .. Len(n) /\ j \in 1 .. Len(n)
    OBVIOUS
  <2>2. k \in DOMAIN g[j].path
    BY <1>1, <1>2, <2>1, SearchKeepsPlaces
  <2>3. DOMAIN q \subseteq Nat /\ k \in DOMAIN q /\ q[k] = Place(s[k], n, j - 1)
    <3>1. k \in DOMAIN q
      BY <1>1, <1>2, <2>1, SearchKeepsPlaces
    <3>2. DOMAIN q \subseteq DOMAIN s /\ \A h \in DOMAIN q : q[h] = Place(s[h], n, j - 1)
      BY <1>1, <2>1, SearchGoesDown
    <3> QED BY <3>1, <3>2, SysPathFacts
  <2>4. g[j] = Python!Search(q, n[j])
    BY <1>1, <2>1 DEF Searches
  <2> HIDE DEF q
  <2>5. Append(q[k], n[j]) = e.at
    BY <1>7, <1>8, <1>10, <2>1, <2>3, PlaceStep
  <2>6. Python!Importable(Append(q[k], n[j]))
    BY <2>5, LoadableAt
  <2>7. PackageAt(Append(q[k], n[j])) \in Loadable
    BY <2>2, <2>3, <2>4, <2>6, SearchStep
  <2> QED BY <2>5, <2>7
<1> QED BY <1>2, <1>6, <1>9, <1>10
-----------------------------------------------------------------------------
(* The session on a reconciled catalogue                                    *)

\* what interpreting a fact adds to the session
Meaning(f) ==
  IF ~f.from THEN Resolution!Requested(f, f.base, "exact_module")
  ELSE IF f.level = 0 THEN Resolution!FromBase(f, f.base)
  ELSE IF Resolution!PackageContext(f) = {}
       THEN Resolution!Unresolved(f, f.base, "unknown_package_context")
       ELSE UNION {IF Resolution!RelativeFits(f.level, Resolution!PackageOf(m))
                   THEN Resolution!FromBase(f, Resolution!ResolveRelative(f.level, f.base, Resolution!PackageOf(m)))
                   ELSE Resolution!Unresolved(f, f.base, "relative_escape") :
                     m \in Resolution!PackageContext(f)}

\* targets are those of the visited roots; the resolver got the catalogue as it is; its outcomes
\* are what the interpreted facts mean, and what it must report is reported
SessionInv ==
  /\ targets = UNION {TargetsIn(r) : r \in 1 .. visited}
  /\ phase # "idle" => reconciled /\ \E imports \in Imports : catalog = CatalogOf(imports)
  /\ phase = "idle" => catalog.facts = {} /\ pending = {} /\ outcomes = {}
  /\ pending \subseteq catalog.facts
  /\ phase \in {"resolved", "selected"} => pending = {}
  /\ outcomes = UNION {Meaning(f) : f \in catalog.facts \ pending}
  /\ phase # "idle" /\ Resolution!NativeConflicts # {} => importErrors # {}
  /\ \A o \in outcomes :
       o.as = "unresolved" /\ o.how = "unknown_package_context" => importErrors # {}

ProjectInv == IInv /\ SessionInv

\* Each module of the reconciled catalogue has a file of its own, and is its root's, unless a
\* conflict marked it.
LEMMA ReconciledModules ==
  ASSUME IInv, reconciled
  PROVE  /\ disk \in Disks /\ visited = Len(Roots)
         /\ \A m, n \in modules : m.file = n.file => m = n
         /\ \A m \in modules : m.file \in disk.files /\ m.name \in Seq(STRING)
         /\ \A m \in Bound(modules) :
              /\ m \in Bound(Assembled(Len(Roots))) /\ m.name \notin Conflicting(Assembled(Len(Roots)))
              /\ \E r \in DOMAIN Roots : m.file \in Owned(r) /\ m = Settled(r, m.file)
<1> DEFINE all == Assembled(Len(Roots))
<1>1. disk \in Disks /\ visited = Len(Roots) /\ modules = MarkConflicts(all)
  BY DEF IInv, CatalogueInv
<1>2. \A m \in modules : m.file \in disk.files /\ m.name \in Seq(STRING)
  BY <1>1, ModulesOfCatalogue, OwnedFiles
<1>3. ASSUME NEW m \in modules, NEW n \in modules, m.file = n.file PROVE m = n
  <2>1. PICK a \in all : m.file = a.file
          /\ m = [a EXCEPT !.status = IF @ = "bound" /\ a.name \in Conflicting(all) THEN "ambiguous" ELSE @]
    BY <1>1, MarkedFields
  <2>2. PICK b \in all : n.file = b.file
          /\ n = [b EXCEPT !.status = IF @ = "bound" /\ b.name \in Conflicting(all) THEN "ambiguous" ELSE @]
    BY <1>1, MarkedFields
  <2>3. a = b
    BY <1>1, <1>2, <1>3, <2>1, <2>2, OneModulePerFile
  <2> QED BY <2>1, <2>2, <2>3
<1>4. ASSUME NEW m \in Bound(modules)
      PROVE  /\ m \in Bound(all) /\ m.name \notin Conflicting(all)
             /\ \E r \in DOMAIN Roots : m.file \in Owned(r) /\ m = Settled(r, m.file)
  <2>1. m \in Bound(all) /\ m.name \notin Conflicting(all)
    BY <1>1, MarkedFields DEF Bound
  <2>2. m.status # "ambiguous"
    BY DEF Bound
  <2> QED BY <2>1, <2>2, ModulesOfCatalogue DEF Bound
<1> QED BY <1>1, <1>2, <1>3, <1>4

\* The resolver's arguments are the catalogue.
LEMMA Handed ==
  ASSUME ProjectInv, phase # "idle"
  PROVE  /\ IInv /\ reconciled /\ disk \in Disks
         /\ catalog.modules = {Source(m) : m \in modules} /\ catalog.targets = targets
         /\ \A f \in catalog.facts :
              /\ f.base \in Seq(STRING) /\ f.imported \in STRING /\ f.level \in Nat
              /\ f.level > 0 => f.from
              /\ ~f.from => f.imported = "none"
<1>1. PICK imports \in Imports : catalog = CatalogOf(imports)
  BY DEF ProjectInv, SessionInv
<1>2. /\ catalog.modules = {Source(m) : m \in modules} /\ catalog.targets = targets
      /\ catalog.facts = {Fact(i) : i \in {j \in imports : \E m \in modules : m.file = j.file}}
  BY <1>1 DEF CatalogOf
<1>3. ASSUME NEW i \in imports
      PROVE  /\ Fact(i).base \in Seq(STRING) /\ Fact(i).imported \in STRING /\ Fact(i).level \in Nat
             /\ Fact(i).level > 0 => Fact(i).from
             /\ ~Fact(i).from => Fact(i).imported = "none"
  <2>1. /\ Fact(i).base = i.base /\ Fact(i).imported = i.imported /\ Fact(i).level = i.level
        /\ Fact(i).from = i.from
    BY DEF Fact
  <2> QED BY <2>1, ImportsAssumption
<1>4. IInv /\ reconciled /\ disk \in Disks
  BY DEF ProjectInv, SessionInv, IInv
<1> QED BY <1>2, <1>3, <1>4

\* A source record repeats its module.
LEMMA SourceFields ==
  ASSUME NEW m
  PROVE  /\ Source(m).id = m.file /\ Source(m).name = m.name /\ Source(m).isPackage = m.isPackage
         /\ Source(m).parent = m.parent /\ Source(m).status = m.status
BY DEF Source

\* What a bound name is bound to.
LEMMA BoundSource ==
  ASSUME NEW n \in Resolution!BoundNames
  PROVE  /\ Resolution!BoundTo(n) \in catalog.modules
         /\ Resolution!BoundTo(n).name = n /\ n # NoName
         /\ Resolution!BoundTo(n).status = "bound"
<1>1. Resolution!NamedBy(n) # {} /\ ~Resolution!Contested(n)
  BY DEF Resolution!BoundNames, Resolution!Names
<1>2. Resolution!BoundTo(n) \in Resolution!NamedBy(n)
  BY <1>1 DEF Resolution!BoundTo
<1>3. Resolution!NoName = NoName
  BY DEF Resolution!NoName, NoName
<1> QED BY <1>1, <1>2, <1>3 DEF Resolution!NamedBy, Resolution!Contested

\* A dependency leads to the source of an uncontested name.
LEMMA DependencyMeans ==
  ASSUME NEW f, NEW o \in Meaning(f), o.as = "dependency"
  PROVE  \E n \in Resolution!BoundNames :
           ~Resolution!AmbiguousName(n) /\ o.target = Resolution!BoundTo(n).id
<1> DEFINE Leads == \E n \in Resolution!BoundNames :
                      ~Resolution!AmbiguousName(n) /\ o.target = Resolution!BoundTo(n).id
<1>1. \A n, reason : o \notin Resolution!Unresolved(f, n, reason)
  BY DEF Resolution!Unresolved
<1>2. \A n : o \notin Resolution!Absent(f, n)
  BY <1>1 DEF Resolution!Absent
<1>3. ASSUME NEW n, NEW how, o \in Resolution!Requested(f, n, how) PROVE Leads
  <2>1. n \in Resolution!BoundNames /\ ~Resolution!AmbiguousName(n) /\ o \in Resolution!Dependency(f, n, how)
    BY <1>1, <1>2, <1>3 DEF Resolution!Requested
  <2>2. o.target = Resolution!BoundTo(n).id
    BY <2>1 DEF Resolution!Dependency
  <2> QED BY <2>1, <2>2
<1>4. ASSUME NEW base, o \in Resolution!Child(f, base) PROVE Leads
  BY <1>2, <1>3, <1>4 DEF Resolution!Child
<1>5. ASSUME NEW base, o \in Resolution!FromBase(f, base) PROVE Leads
  BY <1>3, <1>4, <1>5 DEF Resolution!FromBase
<1> HIDE DEF Leads
<1>6. Leads
  BY <1>1, <1>3, <1>5 DEF Meaning
<1> QED BY <1>6 DEF Leads

\* An extension module at a place of a name is declared, as a target of that name.
LEMMA ExtensionDeclared ==
  ASSUME ProjectInv, reconciled, NEW r \in DOMAIN Roots, NEW e \in Extensions, Owns(r, e)
  PROVE  \E t \in targets : IsExtension(t) /\ t.name = NameBelow(r, e)
<1>1. disk \in Disks /\ visited = Len(Roots) /\ DOMAIN Roots = 1 .. Len(Roots)
  BY RootsArePaths DEF ProjectInv, IInv
<1>2. PICK t \in disk.targets : IsExtension(t) /\ t.at = e.at /\ t.init = e.init
  BY <1>1, ExtensionFields
<1>3. Directory(t) = Directory(e)
  BY <1>2 DEF Directory
<1>4. Owns(r, t) /\ NameBelow(r, t) = NameBelow(r, e)
  BY <1>2, <1>3 DEF Owns, NameBelow
<1> DEFINE u == [name |-> NameBelow(r, t), kind |-> t.kind, directory |-> Directory(t), shape |-> t.shape,
                 acknowledged |-> t.acknowledged]
<1>5. u \in TargetsIn(r)
  BY <1>4 DEF TargetsIn
<1>6. u \in targets
  BY <1>1, <1>5 DEF ProjectInv, SessionInv
<1>7. IsExtension(u) /\ u.name = NameBelow(r, e)
  BY <1>2, <1>4 DEF IsExtension
<1> QED BY <1>6, <1>7

\* Beside the source of its name it is a conflict.
LEMMA ExtensionConflicts ==
  ASSUME ProjectInv, phase # "idle", NEW r \in DOMAIN Roots, NEW e \in Extensions, Owns(r, e),
         NameBelow(r, e) \in Resolution!BoundNames
  PROVE  NameBelow(r, e) \in Resolution!NativeConflicts
<1>1. reconciled /\ catalog.targets = targets
  BY Handed
<1>2. PICK t \in targets : IsExtension(t) /\ t.name = NameBelow(r, e)
  BY <1>1, ExtensionDeclared
<1>3. t \in Resolution!Natives(NameBelow(r, e)) /\ t.shape = "artifact"
  BY <1>1, <1>2 DEF IsExtension, Resolution!Natives
<1> QED BY <1>1, <1>2, <1>3 DEF Resolution!NativeConflicts

\* The name itself is among those that make it ambiguous.
LEMMA OwnNameCounts ==
  ASSUME NEW n \in Seq(STRING), n # NoName, n \in Resolution!Ambiguous
  PROVE  Resolution!AmbiguousName(n)
<1>1. Len(n) \in 1 .. Len(n) /\ SubSeq(n, 1, Len(n)) = n
  BY DEF NoName
<1>2. n \in Resolution!Lineage(n)
  BY <1>1 DEF Resolution!Lineage
<1> QED BY <1>2 DEF Resolution!AmbiguousName
-----------------------------------------------------------------------------
\* Every dependency leads to what Python loads, and to nothing an extension replaces.
LEMMA InvDependencies == ProjectInv => DependenciesFollowPython
<1> SUFFICES ASSUME ProjectInv, NEW o \in Resolution!Dependencies, NEW m \in modules, m.file = o.target
             PROVE  /\ m.file \notin Extensions
                    /\ ~CrossesRoot(m.name) /\ ~BelowExtension(m.name) =>
                         \A s \in Python!SysPaths : Python!Finds(s, m.name).loads = {m.file}
  BY DEF DependenciesFollowPython
<1>1. o \in outcomes /\ o.as = "dependency"
  BY DEF Resolution!Dependencies
<1>2. phase # "idle"
  BY <1>1 DEF ProjectInv, SessionInv
<1>3. PICK f \in catalog.facts \ pending : o \in Meaning(f)
  BY <1>1 DEF ProjectInv, SessionInv
<1>4. PICK n \in Resolution!BoundNames : ~Resolution!AmbiguousName(n) /\ o.target = Resolution!BoundTo(n).id
  BY <1>1, <1>3, DependencyMeans
<1>5. /\ IInv /\ reconciled /\ disk \in Disks
      /\ catalog.modules = {Source(k) : k \in modules} /\ catalog.targets = targets
  BY <1>2, Handed
<1>6. m.name = n /\ n # NoName /\ m \in Bound(modules)
  <2>1. PICK k \in modules : Resolution!BoundTo(n) = Source(k)
    BY <1>5, BoundSource
  <2>2. k.file = m.file /\ k.name = n /\ k.status = "bound" /\ n # NoName
    BY <1>4, <2>1, BoundSource, SourceFields
  <2>3. k = m
    BY <1>5, <2>2, ReconciledModules
  <2> QED BY <2>2, <2>3 DEF Bound
<1>7. /\ m \in Bound(Assembled(Len(Roots))) /\ m.name \notin Conflicting(Assembled(Len(Roots)))
      /\ m.file \in disk.files /\ n \in Seq(STRING)
  BY <1>5, <1>6, ReconciledModules
<1>8. PICK r \in DOMAIN Roots : m.file \in Owned(r) /\ m = Settled(r, m.file)
  BY <1>5, <1>6, ReconciledModules
<1>9. NameBelow(r, m.file) = n /\ Owns(r, m.file)
  BY <1>5, <1>6, <1>8, SettledFields DEF Owned
<1>10. n \notin Resolution!NativeConflicts
  BY <1>4, <1>6, <1>7, OwnNameCounts DEF Resolution!Ambiguous
<1>11. m.file \notin Extensions
  BY <1>2, <1>8, <1>9, <1>10, ExtensionConflicts
<1>12. ASSUME ~CrossesRoot(n), ~BelowExtension(n), NEW s \in Python!SysPaths
       PROVE  Python!Finds(s, n).loads = {m.file}
  <2>1. ASSUME NEW q \in DOMAIN Roots, NEW j \in 1 .. Len(n), NEW e \in Extensions, e.at = Place(Roots[q], n, j)
        PROVE  FALSE
    <3>1. WellFormed(e)
      BY <1>5, ExtensionFields
    <3>2. Owns(q, e) /\ NameBelow(q, e) = Upto(n, j)
      BY <1>7, <1>12, <2>1, <3>1, PlaceIsBelow
    <3>3. CASE j < Len(n)
      <4>1. Upto(n, j) \in Ancestors(n)
        BY <1>7, <3>3, PartsOfName
      <4>2. PICK t \in targets : IsExtension(t) /\ t.name = Upto(n, j)
        BY <1>5, <3>2, ExtensionDeclared
      <4> QED BY <1>12, <4>1, <4>2 DEF BelowExtension
    <3>4. CASE j = Len(n)
      <4>1. Upto(n, j) = n
        BY <1>7, <3>4, UptoEnd
      <4> QED BY <1>2, <1>10, <3>2, <4>1, ExtensionConflicts
    <3> QED BY <3>3, <3>4
  <2>2. NoExtension(n)
    BY <2>1 DEF NoExtension
  <2>3. s \in Finder!SysPaths
    BY SameSysPaths
  <2>4. Settles(m, r)
    BY <1>6, <1>7, <1>8, <1>12 DEF Settles
  <2>5. Finder!Finds(s, n).loads = {m.file}
    BY <1>5, <1>6, <2>3, <2>4, BoundIsFound
  <2> QED BY <1>5, <1>7, <2>2, <2>3, <2>5, SourcesAlone
<1> QED BY <1>6, <1>11, <1>12
-----------------------------------------------------------------------------
(* What Python loads, when nothing is reported                              *)

\* Without a conflict the catalogue is what the roots contribute.
LEMMA NothingMarked ==
  ASSUME IInv, reconciled, errors = {}
  PROVE  /\ modules = Assembled(Len(Roots)) /\ Conflicting(Assembled(Len(Roots))) = {}
         /\ \A m \in modules : m.status # "ambiguous" /\ m.parent \in Seq(STRING)
<1> DEFINE all == Assembled(Len(Roots))
<1>1. disk \in Disks /\ modules = MarkConflicts(all) /\ Conflicting(all) = {}
  BY DEF IInv, CatalogueInv
<1>2. \A m \in all : \E r \in DOMAIN Roots : \E f \in Owned(r) : m = Settled(r, f)
  BY <1>1, AssembledModules, RootsArePaths
<1>3. \A m \in all : IsModule(m)
  BY <1>2, ModuleFields
<1>4. modules = {[m EXCEPT !.status = IF @ = "bound" /\ m.name \in Conflicting(all) THEN "ambiguous" ELSE @] :
                   m \in all}
  BY <1>1 DEF MarkConflicts
<1>5. \A m \in all : [m EXCEPT !.status = IF @ = "bound" /\ m.name \in Conflicting(all) THEN "ambiguous" ELSE @] = m
  BY <1>1, <1>3, StatusReplaced
<1>6. modules = all
  BY <1>4, <1>5
<1>7. ASSUME NEW r \in DOMAIN Roots, NEW f \in Owned(r)
      PROVE  Settled(r, f).status # "ambiguous" /\ Settled(r, f).parent \in Seq(STRING)
  <2> DEFINE name == NameBelow(r, f)
             p    == Candidate(r, f).parent
  <2>1. Settled(r, f).status # "ambiguous"
    BY <1>1, SettledFields
  <2>2. p = IF name = NoName THEN NoName ELSE Front(name)
    BY DEF Candidate
  <2>3. name \in Seq(STRING)
    BY <1>1, OwnedFiles
  <2> HIDE DEF p, name
  <2>4. p \in Seq(STRING)
    <3>1. Front(name) = SubSeq(name, 1, Len(name) - 1)
      BY DEF Front
    <3>2. name # <<>> => SubSeq(name, 1, Len(name) - 1) \in Seq(STRING)
      BY <2>3
    <3>3. <<>> \in Seq(STRING)
      OBVIOUS
    <3> QED BY <2>2, <3>1, <3>2, <3>3 DEF NoName
  <2>5. Selected(r, f).parent = p /\ IsModule(Selected(r, f))
    BY DEF Selected, IsModule, p
  <2>6. Settled(r, f).parent \in {p, NoName}
    BY <2>5 DEF Settled, IsModule
  <2>7. NoName \in Seq(STRING)
    BY DEF NoName
  <2> QED BY <2>1, <2>4, <2>6, <2>7
<1> QED BY <1>1, <1>2, <1>6, <1>7

\* The resolver counts as the catalogue does.
LEMMA SameCardinality ==
  ASSUME NEW S
  PROVE  Resolution!Cardinality(S) = Cardinality(S)
BY DEF Resolution!Cardinality, Cardinality

\* Then each bound source has its name to itself.
LEMMA NothingContested ==
  ASSUME ProjectInv, phase # "idle", errors = {}, importErrors = {}
  PROVE  /\ Resolution!NativeConflicts = {} /\ Resolution!Ambiguous = {}
         /\ \A m \in Bound(modules) :
              m.name # NoName =>
                m.name \in Resolution!BoundNames /\ Resolution!BoundTo(m.name) = Source(m)
<1> DEFINE all == Assembled(Len(Roots))
<1>1. /\ IInv /\ reconciled /\ disk \in Disks /\ catalog.modules = {Source(m) : m \in modules}
  BY Handed
<1>2. modules = all /\ Conflicting(all) = {} /\ \A m \in modules : m.status # "ambiguous"
  BY <1>1, NothingMarked
<1>3. Resolution!NativeConflicts = {}
  BY DEF ProjectInv, SessionInv
<1>4. \A n : \A s \in Resolution!NamedBy(n) : \E m \in Bound(modules) : s = Source(m) /\ m.name = n /\ n # NoName
  <2> SUFFICES ASSUME NEW n, NEW s \in Resolution!NamedBy(n)
               PROVE  \E m \in Bound(modules) : s = Source(m) /\ m.name = n /\ n # NoName
    OBVIOUS
  <2>1. s \in catalog.modules /\ s.name = n /\ n # NoName /\ s.status \in {"bound", "ambiguous"}
    BY DEF Resolution!NamedBy, Resolution!NoName, NoName
  <2>2. PICK m \in modules : s = Source(m)
    BY <1>1, <2>1
  <2>3. m.name = n /\ m.status = "bound"
    BY <1>2, <2>1, <2>2, SourceFields
  <2> QED BY <2>1, <2>2, <2>3 DEF Bound
<1>5. ASSUME NEW m \in Bound(modules), m.name # NoName
      PROVE  Resolution!NamedBy(m.name) = {Source(m)}
  <2>1. Source(m) \in Resolution!NamedBy(m.name)
    <3>1. m \in modules /\ m.status = "bound"
      BY DEF Bound
    <3>2. Source(m) \in catalog.modules /\ Source(m).name = m.name /\ Source(m).status = "bound"
      BY <1>1, <3>1, SourceFields
    <3> QED BY <1>5, <3>2 DEF Resolution!NamedBy, Resolution!NoName, NoName
  <2>2. \A s \in Resolution!NamedBy(m.name) : s = Source(m)
    <3>1. \A k \in Bound(modules) : k.name = m.name => k = m
      <4>1. IsFiniteSet(modules) /\ m.name \notin Conflicting(modules)
        BY <1>1, <1>2, AssembledFinite
      <4> QED BY <4>1, MarkingSuffices
    <3> QED BY <3>1, <1>4
  <2> QED BY <2>1, <2>2
<1>6. ASSUME NEW m \in Bound(modules), m.name # NoName
      PROVE  ~Resolution!Contested(m.name)
  <2>1. Resolution!NamedBy(m.name) = {Source(m)} /\ Source(m).status = "bound"
    BY <1>5, <1>6, SourceFields DEF Bound
  <2>2. Cardinality({Source(m)}) = 1
    BY FS_Singleton
  <2>3. Resolution!Cardinality(Resolution!NamedBy(m.name)) = 1
    BY <2>1, <2>2, SameCardinality
  <2> QED BY <2>1, <2>3 DEF Resolution!Contested
<1>7. ASSUME NEW m \in Bound(modules), m.name # NoName
      PROVE  m.name \in Resolution!BoundNames /\ Resolution!BoundTo(m.name) = Source(m)
  <2>1. Resolution!NamedBy(m.name) = {Source(m)}
    BY <1>5, <1>7
  <2>2. m.name \in Resolution!Names
    <3>1. Source(m) \in catalog.modules /\ Source(m).name = m.name
      BY <2>1 DEF Resolution!NamedBy
    <3> QED BY <2>1, <3>1 DEF Resolution!Names
  <2>3. Resolution!BoundTo(m.name) = Source(m)
    BY <2>1 DEF Resolution!BoundTo
  <2> QED BY <1>6, <1>7, <2>2, <2>3 DEF Resolution!BoundNames
<1>8. Resolution!Ambiguous = {}
  <2> SUFFICES ASSUME NEW n \in Resolution!Names, Resolution!Contested(n) PROVE FALSE
    BY <1>3 DEF Resolution!Ambiguous
  <2>1. PICK m \in Bound(modules) : m.name = n /\ n # NoName
    BY <1>4 DEF Resolution!Names
  <2> QED BY <1>6, <2>1
<1> QED BY <1>3, <1>7, <1>8

\* An analysed source that Python loads for a name is bound to that name.
LEMMA LoadedIsBound ==
  ASSUME ProjectInv, phase # "idle", errors = {}, importErrors = {},
         NEW n \in Seq(STRING), ~CrossesRoot(n), NEW s \in Finder!SysPaths,
         NEW m \in modules, m.file \in Python!Finds(s, n).loads
  PROVE  m \in Bound(modules) /\ m.name = n /\ n # NoName
<1> DEFINE all == Assembled(Len(Roots))
           f   == m.file
<1>1. IInv /\ reconciled /\ disk \in Disks /\ f \in disk.files /\ modules = all
  BY Handed, ReconciledModules, NothingMarked
<1>2. PICK r \in DOMAIN Roots :
        /\ Len(n) # 0 /\ f.at = Place(Roots[r], n, Len(n))
        /\ PackageAt(f.at) \in Loadable => f.init
        /\ \A j \in 1 .. Len(n) - 1 : \A e \in Loadable :
             e.at = Place(Roots[r], n, j) => PackageAt(e.at) \in Loadable
  BY <1>1, WhatIsLoaded
<1>3. Len(n) \in 1 .. Len(n) /\ n # NoName
  BY <1>2 DEF NoName
<1>4. f \in Owned(r) /\ NameBelow(r, f) = n
  BY <1>1, <1>2, <1>3, PlaceIsOwned, UptoEnd
<1>5. m = Settled(r, f)
  <2>1. Settled(r, f) \in all /\ Settled(r, f).file = f
    BY <1>1, <1>4, AssembledModules, SettledFields, RootsArePaths
  <2> QED BY <1>1, <2>1, OneModulePerFile
<1>6. ~Beside(r, f)
  BY <1>2 DEF Beside, Owned, Loadable
<1>7. ASSUME Blocked(r, f) PROVE FALSE
  <2> DEFINE blockers == {j \in 1 .. Len(n) - 1 : Upto(n, j) \in PlainNames(r)}
  <2>1. blockers # {} /\ blockers \in SUBSET Nat
    <3>1. Ancestors(n) = {Upto(n, k) : k \in 1 .. Len(n) - 1}
      BY <1>3, PartsOfName, UptoEnd
    <3> QED BY <1>4, <1>7, <3>1 DEF Blocked
  <2>2. PICK j \in blockers : \A l \in blockers : j <= l
    BY <2>1, LeastElementExists
  <2>3. PICK x \in Owned(r) : NameBelow(r, x) = Upto(n, j) /\ ~x.init /\ ~Beside(r, x)
    BY <2>2 DEF PlainNames
  <2>4. j \in 1 .. Len(n) /\ j \in 1 .. Len(n) - 1 /\ \A k \in 1 .. j - 1 : k \in 1 .. Len(n) - 1 /\ ~(j <= k)
    BY <2>2
  <2>5. x.at = Place(Roots[r], n, j) /\ x \in disk.files
    BY <1>1, <2>3, OwnedFiles DEF Place
  <2> DEFINE e == PackageAt(x.at)
  <2>6. e \in Loadable /\ e.at = Place(Roots[r], n, j)
    BY <1>2, <2>4, <2>5 DEF Loadable, PackageAt
  <2>7. e \notin disk.files
    <3>1. e \in disk.files => e \in Owned(r)
      BY <1>1, <2>4, <2>6, PlaceIsOwned
    <3> QED BY <2>3, <3>1 DEF Beside
  <2> HIDE DEF e
  <2>8. e \in Extensions /\ WellFormed(e)
    BY <1>1, <2>6, <2>7, ExtensionFields DEF Loadable
  <2>9. Owns(r, e) /\ NameBelow(r, e) = Upto(n, j)
    BY <2>4, <2>6, <2>8, PlaceIsBelow
  <2>10. Settled(r, x) \in Bound(modules) /\ Settled(r, x).name = Upto(n, j) /\ Upto(n, j) # NoName
    <3>1. ~Blocked(r, x)
      <4>1. Ancestors(Upto(n, j)) = {Upto(n, k) : k \in 1 .. j - 1}
        BY <2>4, PartsOfName
      <4>2. \A k \in 1 .. j - 1 : Upto(n, k) \notin PlainNames(r)
        BY <2>2, <2>4
      <4> QED BY <2>3, <4>1, <4>2 DEF Blocked
    <3>2. Upto(n, j) # NoName
      BY <2>4, PartsOfName
    <3>3. Settled(r, x).status = "bound" /\ Settled(r, x).name = Upto(n, j)
      BY <1>1, <2>3, <3>1, <3>2, SettledFields
    <3>4. Settled(r, x) \in modules
      BY <1>1, AssembledModules, RootsArePaths
    <3> QED BY <3>2, <3>3, <3>4 DEF Bound
  <2>11. Upto(n, j) \in Resolution!BoundNames /\ Resolution!NativeConflicts = {}
    BY <2>10, NothingContested
  <2> QED BY <2>8, <2>9, <2>11, ExtensionConflicts
<1>8. m.status = "bound" /\ m.name = n
  BY <1>1, <1>3, <1>4, <1>5, <1>6, <1>7, SettledFields
<1> QED BY <1>3, <1>8 DEF Bound

\* A request for a bound name is a dependency on its source.
LEMMA RequestedIsDependency ==
  ASSUME ProjectInv, phase # "idle", errors = {}, importErrors = {},
         NEW m \in Bound(modules), m.name # NoName, NEW f, NEW how
  PROVE  \E o \in Resolution!Requested(f, m.name, how) :
           o.as = "dependency" /\ o.fact = f.id /\ o.target = m.file
<1> DEFINE o == [as |-> "dependency", fact |-> f.id, source |-> f.source,
                 target |-> Resolution!BoundTo(m.name).id, how |-> how]
<1>1. /\ Resolution!Ambiguous = {} /\ m.name \in Resolution!BoundNames
      /\ Resolution!BoundTo(m.name) = Source(m)
  BY NothingContested
<1>2. ~Resolution!AmbiguousName(m.name)
  BY <1>1 DEF Resolution!AmbiguousName
<1>3. Resolution!Requested(f, m.name, how) = {o}
  BY <1>1, <1>2 DEF Resolution!Requested, Resolution!Dependency
<1>4. o.as = "dependency" /\ o.fact = f.id /\ o.target = m.file
  BY <1>1, SourceFields
<1> QED BY <1>3, <1>4

\* So it is when it stands for the base of a fact, or for its item, unless the source
\* imports from itself.
LEMMA FromBaseDepends ==
  ASSUME ProjectInv, phase # "idle", errors = {}, importErrors = {},
         NEW m \in Bound(modules), m.name # NoName, NEW f, m.file # f.source, NEW base,
         m.name = base \/ (m.name = Append(base, f.imported) /\ f.imported \notin {"none", "*"})
  PROVE  \E o \in Resolution!FromBase(f, base) :
           o.as = "dependency" /\ o.fact = f.id /\ o.target = m.file
<1>1. m.name \in Resolution!BoundNames /\ Resolution!BoundTo(m.name) = Source(m)
  BY NothingContested
<1>2. CASE m.name = base
  <2>1. ~Resolution!OwnInitializer(f, base)
    BY <1>1, <1>2, SourceFields DEF Resolution!OwnInitializer
  <2>2. Resolution!Requested(f, base, "exact_base") \subseteq Resolution!FromBase(f, base)
    BY <2>1 DEF Resolution!FromBase
  <2> QED BY <1>2, <2>2, RequestedIsDependency
<1>3. CASE m.name = Append(base, f.imported) /\ f.imported \notin {"none", "*"}
  <2>1. m.name \in Resolution!Names
    BY <1>1 DEF Resolution!BoundNames
  <2>2. Resolution!Child(f, base) = Resolution!Requested(f, m.name, "probable_submodule")
    BY <1>3, <2>1 DEF Resolution!Child, Resolution!None
  <2>3. Resolution!Child(f, base) \subseteq Resolution!FromBase(f, base)
    BY DEF Resolution!FromBase
  <2> QED BY <2>2, <2>3, RequestedIsDependency
<1> QED BY <1>2, <1>3

\* Nothing that a statement asks for is missed.
LEMMA InvRequested == ProjectInv => RequestedSourcesAreDependencies
<1> SUFFICES ASSUME ProjectInv, phase = "selected", errors = {}, importErrors = {},
                    NEW f \in catalog.facts, NEW n \in Asked(f), ~CrossesRoot(n),
                    NEW s \in Python!SysPaths, NEW m \in modules,
                    m.file \in Python!Finds(s, n).loads, m.file # f.source
             PROVE  \E o \in Resolution!Dependencies : o.fact = f.id /\ o.target = m.file
  BY DEF RequestedSourcesAreDependencies, Unreported
<1>1. /\ IInv /\ reconciled /\ disk \in Disks /\ phase # "idle"
      /\ catalog.modules = {Source(k) : k \in modules}
      /\ f.base \in Seq(STRING) /\ f.imported \in STRING /\ f.level \in Nat
      /\ f.level > 0 => f.from
      /\ ~f.from => f.imported = "none"
  BY Handed
<1>2. Meaning(f) \subseteq outcomes
  BY DEF ProjectInv, SessionInv
<1>3. SUFFICES \E o \in Meaning(f) : o.as = "dependency" /\ o.fact = f.id /\ o.target = m.file
  BY <1>2 DEF Resolution!Dependencies
<1>4. s \in Finder!SysPaths
  BY SameSysPaths
<1>5. ASSUME NEW base \in Seq(STRING),
             n = base \/ (n = Append(base, f.imported) /\ f.imported \notin {"none", "*"})
      PROVE  /\ m \in Bound(modules) /\ m.name = n /\ n # NoName
             /\ \E o \in Resolution!FromBase(f, base) :
                  o.as = "dependency" /\ o.fact = f.id /\ o.target = m.file
  <2>1. n \in Seq(STRING)
    BY <1>1, <1>5
  <2>2. m \in Bound(modules) /\ m.name = n /\ n # NoName
    BY <1>1, <1>4, <2>1, LoadedIsBound
  <2> QED BY <1>1, <1>5, <2>2, FromBaseDepends
<1>6. CASE f.level = 0
  <2>1. n = f.base \/ (n = Append(f.base, f.imported) /\ f.imported \notin {"none", "*"})
    BY <1>6 DEF Asked
  <2>2. CASE f.from
    BY <1>1, <1>5, <1>6, <2>1, <2>2 DEF Meaning
  <2>3. CASE ~f.from
    <3>1. n = f.base
      BY <1>1, <2>1, <2>3
    <3>2. m \in Bound(modules) /\ m.name = n /\ n # NoName
      BY <1>1, <1>5, <3>1
    <3>3. Meaning(f) = Resolution!Requested(f, m.name, "exact_module")
      BY <2>3, <3>1, <3>2 DEF Meaning
    <3> QED BY <1>1, <3>2, <3>3, RequestedIsDependency
  <2> QED BY <2>2, <2>3
<1>7. CASE f.level # 0
  <2> DEFINE context == Resolution!PackageContext(f)
  <2>0. f.level > 0 /\ f.from
    BY <1>1, <1>7
  <2>1. context # {}
    <3> SUFFICES ASSUME context = {} PROVE FALSE
      OBVIOUS
    <3> DEFINE u == [as |-> "unresolved", fact |-> f.id, source |-> f.source, requested |-> f.base,
                     how |-> "unknown_package_context"]
    <3>1. u \in Meaning(f)
      BY <2>0, <1>7 DEF Meaning, Resolution!Unresolved
    <3> QED BY <1>2, <3>1 DEF ProjectInv, SessionInv
  <2>2. PICK c \in context : TRUE
    BY <2>1
  <2>3. c \in catalog.modules /\ c.id = f.source
    BY <2>2 DEF Resolution!PackageContext, Resolution!SourceOf
  <2>4. PICK k \in modules : c = Source(k)
    BY <1>1, <2>3
  <2>5. k.file = f.source /\ \A l \in modules : l.file = f.source => l = k
    BY <1>1, <2>3, <2>4, SourceFields, ReconciledModules
  <2> DEFINE p == IF k.isPackage THEN {k.name} ELSE {k.parent}
             q == Resolution!PackageOf(c)
  <2>6. p = {q} /\ q \in Seq(STRING)
    BY <1>1, <2>4, SourceFields, ReconciledModules, NothingMarked DEF Resolution!PackageOf
  <2>7. {l \in modules : l.file = f.source} = {k}
    BY <2>5
  <2>8. UNION {IF l.isPackage THEN {l.name} ELSE {l.parent} : l \in {h \in modules : h.file = f.source}} = {q}
    BY <2>6, <2>7
  <2> HIDE DEF p, q
  <2> DEFINE base == ResolveRelative(f.level, f.base, q)
  <2>9. RelativeFits(f.level, q) /\ (n = base \/ (n = Append(base, f.imported) /\ f.imported \notin {"none", "*"}))
    BY <1>7, <2>8 DEF Asked
  <2>10. base \in Seq(STRING)
    BY <1>1, <2>6, <2>9 DEF RelativeFits, ResolveRelative
  <2>11. Resolution!FromBase(f, base) \subseteq Meaning(f)
    <3>1. Resolution!ResolveRelative(f.level, f.base, q) = base
      BY DEF Resolution!ResolveRelative, ResolveRelative
    <3>2. Resolution!RelativeFits(f.level, q)
      BY <2>9 DEF Resolution!RelativeFits, RelativeFits
    <3> HIDE DEF base
    <3>3. Meaning(f) = UNION {IF Resolution!RelativeFits(f.level, Resolution!PackageOf(l))
                   THEN Resolution!FromBase(f, Resolution!ResolveRelative(f.level, f.base, Resolution!PackageOf(l)))
                   ELSE Resolution!Unresolved(f, f.base, "relative_escape") : l \in context}
      BY <1>7, <2>0, <2>1 DEF Meaning
    <3> QED BY <2>2, <3>1, <3>2, <3>3 DEF q
  <2> HIDE DEF base
  <2> QED BY <1>5, <2>9, <2>10, <2>11
<1> QED BY <1>6, <1>7
-----------------------------------------------------------------------------
(* The steps of the project                                                 *)

\* What a fact means depends on the catalogue only.
LEMMA MeaningUnchanged ==
  ASSUME UNCHANGED catalog
  PROVE  /\ \A f : Meaning(f)' = Meaning(f)
         /\ Resolution!NativeConflicts' = Resolution!NativeConflicts
<1>1. \A n : Resolution!NamedBy(n)' = Resolution!NamedBy(n) /\ Resolution!Natives(n)' = Resolution!Natives(n)
  BY DEF Resolution!NamedBy, Resolution!Natives
<1>2. Resolution!Names' = Resolution!Names
  BY <1>1 DEF Resolution!Names
<1>3. \A n : Resolution!Contested(n)' = Resolution!Contested(n) /\ Resolution!BoundTo(n)' = Resolution!BoundTo(n)
  BY <1>1 DEF Resolution!Contested, Resolution!BoundTo
<1>4. /\ Resolution!BoundNames' = Resolution!BoundNames
      /\ Resolution!Owned' = Resolution!Owned /\ Resolution!Namespaces' = Resolution!Namespaces
  BY <1>2, <1>3 DEF Resolution!BoundNames, Resolution!Owned, Resolution!Namespaces
<1>5. Resolution!NativeConflicts' = Resolution!NativeConflicts
  BY <1>1, <1>4 DEF Resolution!NativeConflicts
<1>6. Resolution!Ambiguous' = Resolution!Ambiguous
  BY <1>2, <1>3, <1>5 DEF Resolution!Ambiguous
<1>7. \A n : Resolution!AmbiguousName(n)' = Resolution!AmbiguousName(n)
  BY <1>6 DEF Resolution!AmbiguousName
<1>8. \A n : Resolution!Declarations(n)' = Resolution!Declarations(n)
  BY DEF Resolution!Declarations
<1>9. \A n : Resolution!Boundary(n)' = Resolution!Boundary(n)
  BY <1>8 DEF Resolution!Boundary
<1>10. \A f, n : Resolution!Absent(f, n)' = Resolution!Absent(f, n)
  BY <1>4, <1>7, <1>8, <1>9 DEF Resolution!Absent, Resolution!Unresolved
<1>11. \A f, n, how : Resolution!Requested(f, n, how)' = Resolution!Requested(f, n, how)
  BY <1>3, <1>4, <1>7, <1>10 DEF Resolution!Requested, Resolution!Dependency, Resolution!Unresolved
<1>12. \A f, n : Resolution!Child(f, n)' = Resolution!Child(f, n)
  BY <1>2, <1>4, <1>8, <1>10, <1>11 DEF Resolution!Child
<1>13. \A f, n : Resolution!OwnInitializer(f, n)' = Resolution!OwnInitializer(f, n)
  BY <1>3, <1>4 DEF Resolution!OwnInitializer
<1>14. \A f, n : Resolution!FromBase(f, n)' = Resolution!FromBase(f, n)
  BY <1>11, <1>12, <1>13 DEF Resolution!FromBase
<1>15. \A f : Resolution!PackageContext(f)' = Resolution!PackageContext(f)
  BY DEF Resolution!PackageContext, Resolution!SourceOf
<1>16. \A f, n, reason : Resolution!Unresolved(f, n, reason)' = Resolution!Unresolved(f, n, reason)
  BY DEF Resolution!Unresolved
<1>17. \A f : Meaning(f)' = Meaning(f)
  BY <1>11, <1>14, <1>15, <1>16 DEF Meaning
<1> QED BY <1>5, <1>17

\* A source has one package context at most.
LEMMA OneContext ==
  ASSUME ProjectInv, phase # "idle", NEW f, NEW m \in Resolution!PackageContext(f)
  PROVE  Resolution!PackageContext(f) = {m}
<1>1. IInv /\ reconciled /\ catalog.modules = {Source(k) : k \in modules}
  BY Handed
<1>2. ASSUME NEW k \in Resolution!PackageContext(f) PROVE k = m
  <2>1. k \in catalog.modules /\ m \in catalog.modules /\ k.id = m.id
    BY DEF Resolution!PackageContext, Resolution!SourceOf
  <2>2. PICK a \in modules : k = Source(a)
    BY <1>1, <2>1
  <2>3. PICK b \in modules : m = Source(b)
    BY <1>1, <2>1
  <2>4. a = b
    BY <1>1, <2>1, <2>2, <2>3, SourceFields, ReconciledModules
  <2> QED BY <2>2, <2>3, <2>4
<1> QED BY <1>2

\* Building the catalogue keeps the session as it is: it has not begun.
LEMMA BindKeeps ==
  ASSUME ProjectInv, Bind
  PROVE  ProjectInv'
<1>1. Next /\ UNCHANGED resolutionVars /\ IInv'
  BY NextKeeps DEF Bind, ProjectInv
<1>2. UNCHANGED <<catalog, phase, pending, outcomes, importErrors>>
  BY <1>1 DEF resolutionVars
<1>3. phase = "idle"
  <2>1. reconciled => visited = Len(Roots)
    BY DEF ProjectInv, IInv
  <2>2. ~reconciled
    BY <1>1, <2>1, RootsArePaths DEF Next, DiscoverRoot, Reconcile
  <2> QED BY <2>2 DEF ProjectInv, SessionInv
<1>4. targets' = UNION {TargetsIn(r)' : r \in 1 .. visited'}
  <2>1. disk' = disk /\ \A r : TargetsIn(r)' = TargetsIn(r)
    BY <1>1 DEF Next, DiscoverRoot, Reconcile, TargetsIn
  <2>2. targets = UNION {TargetsIn(r) : r \in 1 .. visited} /\ visited \in Nat
    <3>1. targets = UNION {TargetsIn(r) : r \in 1 .. visited}
      BY DEF ProjectInv, SessionInv
    <3>2. visited \in 0 .. Len(Roots)
      BY DEF ProjectInv, IInv
    <3> QED BY <3>1, <3>2, RootsArePaths
  <2>3. CASE DiscoverRoot
    <3>1. targets' = targets \cup TargetsIn(visited + 1) /\ visited' = visited + 1
      BY <2>3 DEF DiscoverRoot
    <3>2. 1 .. visited + 1 = (1 .. visited) \cup {visited + 1}
      BY <2>2
    <3> QED BY <2>1, <2>2, <3>1, <3>2
  <2>4. CASE Reconcile
    <3>1. UNCHANGED <<targets, visited>>
      BY <2>4 DEF Reconcile
    <3> QED BY <2>1, <2>2, <3>1
  <2> QED BY <1>1, <2>3, <2>4 DEF Next
<1>5. SessionInv'
  BY <1>2, <1>3, <1>4 DEF ProjectInv, SessionInv
<1> QED BY <1>1, <1>5 DEF ProjectInv

\* The session begins with the reconciled catalogue.
LEMMA BeginKeeps ==
  ASSUME ProjectInv, Begin
  PROVE  ProjectInv'
<1>1. PICK imports \in Imports : Resolution!Begin(CatalogOf(imports))
  BY DEF Begin
<1>2. /\ reconciled /\ UNCHANGED vars /\ IInv'
  BY NextKeeps DEF Begin, ProjectInv
<1>3. UNCHANGED <<disk, visited, modules, targets, namespaces, errors, reconciled>>
  BY <1>2 DEF vars
<1>4. /\ phase = "idle" /\ catalog' = CatalogOf(imports) /\ phase' = "resolving"
      /\ pending' = catalog'.facts
      /\ importErrors' = {[code |-> "ambiguous_target", facts |-> {}, requested |-> n] :
                            n \in Resolution!NativeConflicts'}
      /\ outcomes' = outcomes
  BY <1>1 DEF Resolution!Begin
<1>5. CatalogOf(imports)' = CatalogOf(imports)
  BY <1>3 DEF CatalogOf
<1>6. \A r : TargetsIn(r)' = TargetsIn(r)
  BY <1>3 DEF TargetsIn
<1>7. outcomes' = {}
  BY <1>4 DEF ProjectInv, SessionInv
<1>8. Resolution!NativeConflicts' # {} => importErrors' # {}
  BY <1>4
<1>9. targets' = UNION {TargetsIn(r)' : r \in 1 .. visited'}
  BY <1>3, <1>6 DEF ProjectInv, SessionInv
<1>10. SessionInv'
  BY <1>2, <1>3, <1>4, <1>5, <1>7, <1>8, <1>9 DEF SessionInv
<1> QED BY <1>2, <1>10 DEF ProjectInv

\* Interpreting a pending fact records what it means.
LEMMA FactIsInterpreted ==
  ASSUME ProjectInv, Resolution!ResolveFact
  PROVE  \E f \in pending : Resolution!Record(f, Meaning(f))
<1>1. phase = "resolving"
  BY DEF Resolution!ResolveFact
<1>2. PICK f \in pending :
        \/ Resolution!ResolveImport(f) \/ Resolution!ResolveAbsoluteFrom(f)
        \/ Resolution!ResolveWithoutContext(f) \/ Resolution!ResolveEscape(f)
        \/ Resolution!ResolveRelativeFrom(f)
  BY DEF Resolution!ResolveFact
<1>3. f.level \in Nat /\ (f.level > 0 => f.from)
  BY <1>1, Handed DEF ProjectInv, SessionInv
<1>4. CASE Resolution!ResolveImport(f)
  BY <1>4 DEF Resolution!ResolveImport, Meaning
<1>5. CASE Resolution!ResolveAbsoluteFrom(f)
  BY <1>5 DEF Resolution!ResolveAbsoluteFrom, Meaning
<1>6. CASE Resolution!ResolveWithoutContext(f)
  BY <1>3, <1>6 DEF Resolution!ResolveWithoutContext, Meaning
<1>7. CASE Resolution!ResolveEscape(f)
  <2>1. f.level > 0 /\ Resolution!Record(f, Resolution!Unresolved(f, f.base, "relative_escape"))
    BY <1>7 DEF Resolution!ResolveEscape
  <2>2. PICK m \in Resolution!PackageContext(f) : ~Resolution!RelativeFits(f.level, Resolution!PackageOf(m))
    BY <1>7 DEF Resolution!ResolveEscape
  <2>3. Resolution!PackageContext(f) = {m}
    BY <1>1, OneContext
  <2>4. Meaning(f) = Resolution!Unresolved(f, f.base, "relative_escape")
    BY <1>3, <2>1, <2>2, <2>3 DEF Meaning
  <2> QED BY <2>1, <2>4
<1>8. CASE Resolution!ResolveRelativeFrom(f)
  <2>1. f.level > 0
    BY <1>8 DEF Resolution!ResolveRelativeFrom
  <2>2. PICK m \in Resolution!PackageContext(f) :
          /\ Resolution!RelativeFits(f.level, Resolution!PackageOf(m))
          /\ Resolution!Record(f, Resolution!FromBase(f,
               Resolution!ResolveRelative(f.level, f.base, Resolution!PackageOf(m))))
    BY <1>8 DEF Resolution!ResolveRelativeFrom
  <2>3. Resolution!PackageContext(f) = {m}
    BY <1>1, OneContext
  <2> DEFINE means(k) == IF Resolution!RelativeFits(f.level, Resolution!PackageOf(k))
                         THEN Resolution!FromBase(f, Resolution!ResolveRelative(f.level, f.base, Resolution!PackageOf(k)))
                         ELSE Resolution!Unresolved(f, f.base, "relative_escape")
  <2>4. Meaning(f) = means(m)
    <3>1. f.from /\ f.level # 0 /\ Resolution!PackageContext(f) # {}
      BY <1>3, <2>1, <2>3
    <3>2. Meaning(f) = UNION {means(k) : k \in Resolution!PackageContext(f)}
      BY <3>1 DEF Meaning
    <3> HIDE DEF means
    <3>3. {means(k) : k \in {m}} = {means(m)}
      OBVIOUS
    <3> QED BY <2>3, <3>2, <3>3
  <2> QED BY <2>2, <2>4
<1> QED BY <1>2, <1>4, <1>5, <1>6, <1>7, <1>8

\* Resolving keeps the catalogue, and the invariant.
LEMMA ResolveKeeps ==
  ASSUME ProjectInv, Resolve
  PROVE  ProjectInv'
<1>1. UNCHANGED vars /\ IInv'
  BY NextKeeps DEF Resolve, ProjectInv
<1>2. UNCHANGED <<disk, visited, modules, targets, namespaces, errors, reconciled>>
  BY <1>1 DEF vars
<1>3. \A r : TargetsIn(r)' = TargetsIn(r)
  BY <1>2 DEF TargetsIn
<1>4. \A imports : CatalogOf(imports)' = CatalogOf(imports)
  BY <1>2 DEF CatalogOf
<1>5. targets' = UNION {TargetsIn(r)' : r \in 1 .. visited'}
  BY <1>2, <1>3 DEF ProjectInv, SessionInv
<1>6. CASE Resolution!ResolveFact
  <2>1. PICK f \in pending : Resolution!Record(f, Meaning(f))
    BY <1>6, FactIsInterpreted
  <2>2. phase = "resolving"
    BY <1>6 DEF Resolution!ResolveFact
  <2>3. /\ pending' = pending \ {f} /\ outcomes' = outcomes \cup Meaning(f)
        /\ importErrors' = importErrors \cup Resolution!ImportErrors(Meaning(f))
        /\ UNCHANGED <<catalog, phase>>
    BY <2>1 DEF Resolution!Record
  <2>4. /\ \A g : Meaning(g)' = Meaning(g)
        /\ Resolution!NativeConflicts' = Resolution!NativeConflicts
    BY <2>3, MeaningUnchanged
  <2>5. outcomes' = UNION {Meaning(g)' : g \in catalog'.facts \ pending'}
    <3>1. f \in catalog.facts /\ outcomes = UNION {Meaning(g) : g \in catalog.facts \ pending}
      BY DEF ProjectInv, SessionInv
    <3>2. catalog'.facts \ pending' = (catalog.facts \ pending) \cup {f}
      BY <2>3, <3>1
    <3> QED BY <2>3, <2>4, <3>1, <3>2
  <2>6. \A o \in outcomes' :
          o.as = "unresolved" /\ o.how = "unknown_package_context" => importErrors' # {}
    <3>1. ASSUME NEW o \in Meaning(f), o.as = "unresolved", o.how = "unknown_package_context"
          PROVE  Resolution!ImportErrors(Meaning(f)) # {}
      BY <3>1 DEF Resolution!ImportErrors
    <3>2. \A o \in outcomes :
            o.as = "unresolved" /\ o.how = "unknown_package_context" => importErrors # {}
      BY DEF ProjectInv, SessionInv
    <3> QED BY <2>3, <3>1, <3>2
  <2>7. SessionInv'
    BY <1>2, <1>4, <1>5, <2>2, <2>3, <2>4, <2>5, <2>6 DEF ProjectInv, SessionInv
  <2> QED BY <1>1, <2>7 DEF ProjectInv
<1>7. CASE Resolution!Finish \/ Resolution!Select
  <2>1. /\ phase # "idle" /\ phase' \in {"resolved", "selected"} /\ pending = {}
        /\ UNCHANGED <<catalog, pending, outcomes, importErrors>>
    BY <1>7 DEF Resolution!Finish, Resolution!Select, ProjectInv, SessionInv
  <2>2. /\ \A g : Meaning(g)' = Meaning(g)
        /\ Resolution!NativeConflicts' = Resolution!NativeConflicts
    BY <2>1, MeaningUnchanged
  <2>3. SessionInv'
    BY <1>2, <1>4, <1>5, <2>1, <2>2 DEF ProjectInv, SessionInv
  <2> QED BY <1>1, <2>3 DEF ProjectInv
<1> QED BY <1>6, <1>7 DEF Resolve

\* The invariant of the composition: the catalogue is what the roots contribute, the resolver
\* gets it only when it is reconciled, and the session holds what the interpreted facts mean.
THEOREM ProjectInvariant == ProjectSpec => []ProjectInv
<1>1. ASSUME ProjectInit PROVE ProjectInv
  <2>1. IInv /\ visited = 0 /\ targets = {}
    BY <1>1, InitInv DEF ProjectInit, Init
  <2>2. phase = "idle" /\ catalog.facts = {} /\ pending = {} /\ outcomes = {}
    BY <1>1 DEF ProjectInit, Resolution!Init
  <2>3. 1 .. visited = {}
    BY <2>1
  <2> QED BY <2>1, <2>2, <2>3 DEF ProjectInv, SessionInv
<1>2. ASSUME ProjectInv, [ProjectNext]_projectVars PROVE ProjectInv'
  <2>1. CASE UNCHANGED projectVars
    <3>1. /\ UNCHANGED <<vars, catalog, phase, pending, outcomes, importErrors>>
          /\ UNCHANGED <<disk, visited, modules, targets, namespaces, errors, reconciled>>
      BY <2>1 DEF projectVars, resolutionVars, vars
    <3>2. IInv'
      BY <1>2, <3>1, NextKeeps DEF ProjectInv
    <3>3. \A r : TargetsIn(r)' = TargetsIn(r)
      BY <3>1 DEF TargetsIn
    <3>4. \A imports : CatalogOf(imports)' = CatalogOf(imports)
      BY <3>1 DEF CatalogOf
    <3>5. /\ \A g : Meaning(g)' = Meaning(g)
          /\ Resolution!NativeConflicts' = Resolution!NativeConflicts
      BY <3>1, MeaningUnchanged
    <3>6. SessionInv'
      BY <1>2, <3>1, <3>3, <3>4, <3>5 DEF ProjectInv, SessionInv
    <3> QED BY <3>2, <3>6 DEF ProjectInv
  <2> QED BY <1>2, <2>1, BindKeeps, BeginKeeps, ResolveKeeps DEF ProjectNext
<1> QED BY <1>1, <1>2, PTL DEF ProjectSpec

\* A dependency edge says what Python would import (DependenciesFollowPython): whatever
\* statements the files hold and in whatever order the resolver interprets them, the target is
\* the one file that name loads under every order of the roots on sys.path, and never an
\* extension module's namesake.
THEOREM DependenciesAreWhatPythonLoads == ProjectSpec => []DependenciesFollowPython
BY ProjectInvariant, InvDependencies, PTL

\* No source that a statement asks for is missed (RequestedSourcesAreDependencies): unless an
\* error is reported, every analysed source that the base or the child of an import statement
\* leads to, under any order of the roots, is a dependency of the importing source when the
\* session ends.  Excepted: that source itself, names that cross a nested root, and the packages
\* above the name, whose initializers run on the way without being asked for.
THEOREM NothingAskedForIsMissed == ProjectSpec => []RequestedSourcesAreDependencies
BY ProjectInvariant, InvRequested, PTL
=============================================================================
