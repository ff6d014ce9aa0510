------------------------ MODULE SourceCollection_proof ------------------------
(***************************************************************************)
(* For every directory tree and every interference: what the catalogue     *)
(* says of a source is what happened to it, and a scan without errors      *)
(* reaches every source that held still.  And for the import facts that    *)
(* the collected sources hold, whatever their digests: their ids differ.   *)
(***************************************************************************)
EXTENDS SourceCollection, FactIdentities, CommonLemmas

\* the sources keep their places in the queue: read once, failed or succeeded once
Reading ==
  /\ phase \in {"walk", "collect", "done"}
  /\ phase = "walk" => unread = {} /\ opening = {} /\ read = {} /\ failed = {}
  /\ phase # "walk" => unread \cup opening \cup read \cup failed = discovered
  /\ phase = "done" => /\ unread = {} /\ opening = {}
                       /\ status = [s \in discovered |-> IF s \in failed THEN "error" ELSE "analyzed"]
  /\ unread \cap (opening \cup read \cup failed) = {}
  /\ opening \cap (read \cup failed) = {} /\ read \cap failed = {}
  /\ \A s, t \in opening : s = t
  /\ \A s \in failed : \E e \in errors : e.path = s

\* only what no pattern matches is listed, and of the files only those are omitted
Listing ==
  /\ agenda \subseteq Directories
  /\ listing \subseteq Files \ Matched
  /\ discovered \subseteq Sources \ Matched
  /\ omitted \cap Files \subseteq Matched

\* s held still so far, and nothing above it was omitted or could not be listed
HeldStill(s) ==
  /\ errors = {} /\ Above[s] \cap changed = {} /\ Above[s] \cap omitted = {}
  /\ \A x \in Above[s] : Present(x)

\* what holds still is not lost on the way from the root to the source
Walking ==
  /\ fs \in [Entries -> DirectoryStates \cup SourceStates \cup StubStates]
  /\ phase # "walk" => agenda = {} /\ listing = {}
  /\ \A d \in agenda \ {Root} : fs[d] = "symlink" => d \in changed
  /\ \A s \in Sources : HeldStill(s) => Above[s] \cap agenda # {} \/ s \in listing \cup discovered

IInv == Reading /\ Listing /\ Walking
-----------------------------------------------------------------------------
LEMMA AboveClosed ==
  ASSUME NEW s \in Entries
  PROVE  /\ s \in Above[s] /\ Above[s] \subseteq Entries
         /\ \A y \in Above[s] \ {Root} : Parent[y] \in Above[s]
<1>1. Above[s] = {d \in Entries : \A up \in SUBSET Entries : Climbs(up, s) => d \in up}
  BY DEF Above
<1>2. ASSUME NEW y \in Above[s] \ {Root} PROVE Parent[y] \in Above[s]
  <2>1. y \in Entries /\ Parent[y] \in Entries
    BY <1>1, TreeAssumption DEF Entries
  <2>2. ASSUME NEW up \in SUBSET Entries, Climbs(up, s) PROVE Parent[y] \in up
    <3>1. y \in up
      BY <1>1, <2>2
    <3> QED BY <3>1, <2>2 DEF Climbs
  <2> QED BY <1>1, <2>1, <2>2
<1>3. s \in Above[s]
  BY <1>1 DEF Climbs
<1> QED BY <1>1, <1>2, <1>3

\* A source lies in directories only.
LEMMA AboveSource ==
  ASSUME NEW s \in Sources
  PROVE  Above[s] \subseteq Directories \cup {s}
<1>1. s \in Entries
  BY DEF Entries, Files
<1>2. Directories \cup {s} \in SUBSET Entries
  BY <1>1 DEF Entries
<1>3. Climbs(Directories \cup {s}, s)
  BY <1>2, TreeAssumption DEF Climbs, Entries
<1>4. Above[s] = {d \in Entries : \A up \in SUBSET Entries : Climbs(up, s) => d \in up}
  BY <1>1 DEF Above
<1> QED BY <1>2, <1>3, <1>4

\* One level below a directory that s lies in, there is another one, or s.
LEMMA OneLevelBelow ==
  ASSUME NEW s \in Entries, NEW d \in Above[s], d # s
  PROVE  \E c \in Above[s] \ {Root} : Parent[c] = d
<1> SUFFICES ASSUME \A c \in Above[s] \ {Root} : Parent[c] # d PROVE FALSE
  OBVIOUS
<1>1. Climbs(Above[s] \ {d}, s)
  BY AboveClosed DEF Climbs
<1>2. Above[s] \ {d} \in SUBSET Entries
  BY AboveClosed
<1>3. d \in {e \in Entries : \A up \in SUBSET Entries : Climbs(up, s) => e \in up}
  BY DEF Above
<1>4. d \in Above[s] \ {d}
  BY <1>1, <1>2, <1>3
<1> QED BY <1>4
-----------------------------------------------------------------------------
LEMMA InitInv == Init => IInv
<1> SUFFICES ASSUME Init PROVE IInv
  OBVIOUS
<1>1. Reading
  BY DEF Init, Reading
<1>2. Listing
  BY TreeAssumption DEF Init, Listing
<1>3. Walking
  <2>1. \A s \in Sources : Root \in Above[s] \cap agenda
    BY TreeAssumption DEF Init, Entries, Files
  <2>2. fs \in [Entries -> DirectoryStates \cup SourceStates \cup StubStates]
    BY TreeAssumption DEF Init
  <2> QED BY <2>1, <2>2 DEF Init, Walking
<1> QED BY <1>1, <1>2, <1>3 DEF IInv

\* A step that leaves the walk alone, forgets no error and touches no file.
LEMMA WalkUntouched ==
  ASSUME IInv, UNCHANGED <<systemVars, walkVars>>, errors \subseteq errors', phase # "walk" => phase' # "walk",
         phase' # "walk" => agenda = {} /\ listing = {}
  PROVE  Listing' /\ Walking'
<1>1. Listing'
  BY DEF IInv, Listing, walkVars
<1>2. \A s \in Sources : HeldStill(s)' => HeldStill(s)
  BY DEF HeldStill, Present, walkVars, systemVars
<1> QED BY <1>1, <1>2 DEF IInv, Walking, walkVars, systemVars
-----------------------------------------------------------------------------
LEMMA ChangePreserves ==
  ASSUME IInv, Change
  PROVE  IInv'
<1>1. PICK x \in DOMAIN fs :
        /\ \E state \in IF x \in Sources THEN SourceStates
                        ELSE IF x \in Stubs THEN StubStates ELSE DirectoryStates :
             state # fs[x] /\ fs' = [fs EXCEPT ![x] = state]
        /\ changed' = changed \cup {x}
  BY DEF Change
<1>2. PICK state \in DirectoryStates \cup SourceStates \cup StubStates : fs' = [fs EXCEPT ![x] = state]
  BY <1>1
<1>3. fs \in [Entries -> DirectoryStates \cup SourceStates \cup StubStates]
  BY DEF IInv, Walking
<1>4. fs' \in [Entries -> DirectoryStates \cup SourceStates \cup StubStates]
  BY <1>2, <1>3
<1>5. \A y \in Entries \ changed' : fs'[y] = fs[y]
  BY <1>1, <1>2, <1>3
<1>6. Reading' /\ Listing'
  BY DEF Change, IInv, Reading, Listing, walkVars, readVars
<1>7. ASSUME NEW s \in Sources, HeldStill(s)' PROVE HeldStill(s)
  <2>1. Above[s] \subseteq Entries
    BY AboveClosed DEF Entries, Files
  <2> QED BY <2>1, <1>1, <1>5, <1>7 DEF HeldStill, Present, Change, walkVars
<1>8. ASSUME NEW d \in agenda' \ {Root}, fs'[d] = "symlink" PROVE d \in changed'
  <2>1. d \in Entries
    BY <1>8 DEF IInv, Listing, Change, walkVars, Entries
  <2> QED BY <2>1, <1>1, <1>5, <1>8 DEF IInv, Walking, Change, walkVars
<1>9. Walking'
  BY <1>4, <1>7, <1>8 DEF IInv, Walking, Change, walkVars
<1> QED BY <1>6, <1>9 DEF IInv

LEMMA ScanFailsPreserves ==
  ASSUME IInv, ScanFails
  PROVE  IInv'
<1>1. Reading'
  BY DEF ScanFails, IInv, Reading, readVars
<1>2. Listing'
  BY DEF ScanFails, IInv, Listing
<1>3. errors' # {}
  BY DEF ScanFails
<1>4. Walking'
  BY <1>3 DEF ScanFails, IInv, Walking, HeldStill, systemVars
<1> QED BY <1>1, <1>2, <1>4 DEF IInv

LEMMA SkipNewLinkPreserves ==
  ASSUME IInv, SkipNewLink
  PROVE  IInv'
<1>1. Reading'
  BY DEF SkipNewLink, IInv, Reading, readVars
<1>2. Listing'
  BY DEF SkipNewLink, IInv, Listing
<1>3. PICK d \in agenda \ {Root} : fs[d] = "symlink" /\ agenda' = agenda \ {d}
  BY DEF SkipNewLink
<1>4. d \in changed
  BY <1>3 DEF IInv, Walking
<1>5. \A s \in Sources : HeldStill(s)' => HeldStill(s) /\ d \notin Above[s]
  BY <1>4 DEF SkipNewLink, HeldStill, Present, systemVars
<1>6. Walking'
  BY <1>3, <1>5 DEF SkipNewLink, IInv, Walking, systemVars
<1> QED BY <1>1, <1>2, <1>6 DEF IInv

LEMMA ScanDirectoryPreserves ==
  ASSUME IInv, ScanDirectory
  PROVE  IInv'
<1>1. PICK d \in agenda :
        LET dirs    == Children(d) \cap Directories
            files   == Children(d) \cap Files
            nested  == dirs \cap Nested
            default == (dirs \cap Defaults) \ nested
            links   == {x \in dirs \ (nested \cup default) : fs[x] = "symlink"}
            ruled   == default \cup (((dirs \cup files) \cap Matched) \ (nested \cup links))
        IN /\ agenda' = (agenda \ {d}) \cup (dirs \ (nested \cup ruled \cup links))
           /\ listing' = files \ ruled
           /\ omitted' = omitted \cup nested \cup ruled \cup links
  BY DEF ScanDirectory
<1> DEFINE dirs    == Children(d) \cap Directories
           files   == Children(d) \cap Files
           nested  == dirs \cap Nested
           default == (dirs \cap Defaults) \ nested
           links   == {x \in dirs \ (nested \cup default) : fs[x] = "symlink"}
           ruled   == default \cup (((dirs \cup files) \cap Matched) \ (nested \cup links))
<1>2. /\ agenda' = (agenda \ {d}) \cup (dirs \ (nested \cup ruled \cup links))
      /\ listing' = files \ ruled
      /\ omitted' = omitted \cup nested \cup ruled \cup links
  BY <1>1
<1>3. dirs \cap Files = {} /\ files \cap Directories = {}
  BY TreeAssumption
<1>4. ruled \cap Files \subseteq Matched /\ nested \cap Files = {} /\ links \cap Files = {}
  BY <1>3
<1>5. files \ ruled \subseteq Files \ Matched
  <2>1. ASSUME NEW x \in files, x \in Matched PROVE x \in ruled
    BY <2>1, <1>3
  <2> QED BY <2>1
<1>6. \A x \in dirs \ (nested \cup ruled \cup links) : fs[x] # "symlink"
  OBVIOUS
<1>7. UNCHANGED <<fs, changed, discovered, errors, phase, unread, opening, read, failed, status>> /\ phase = "walk" /\ listing = {}
  BY DEF ScanDirectory, systemVars, readVars
<1>8. Reading'
  BY <1>7 DEF IInv, Reading
<1>9. Listing'
  <2>1. agenda' \subseteq Directories
    BY <1>2 DEF IInv, Listing
  <2>2. omitted' \cap Files \subseteq Matched
    BY <1>2, <1>4 DEF IInv, Listing
  <2> QED BY <1>2, <1>5, <1>7, <2>1, <2>2 DEF IInv, Listing
<1>10. ASSUME NEW s \in Sources, HeldStill(s)' PROVE Above[s] \cap agenda' # {} \/ s \in listing' \cup discovered'
  <2>1. HeldStill(s) /\ Above[s] \cap (nested \cup ruled \cup links) = {}
    BY <1>2, <1>7, <1>10 DEF HeldStill, Present
  <2>2. CASE s \in discovered
    BY <1>7, <2>2
  <2>3. CASE s \notin discovered /\ d \notin Above[s]
    <3>1. Above[s] \cap agenda # {}
      BY <1>7, <2>1, <2>3 DEF IInv, Walking
    <3> QED BY <1>2, <2>3, <3>1
  <2>4. CASE d \in Above[s]
    <3>1. s \in Entries /\ d # s
      BY TreeAssumption DEF IInv, Listing, Entries, Files
    <3>2. PICK c \in Above[s] \ {Root} : Parent[c] = d
      BY <2>4, <3>1, OneLevelBelow
    <3>3. c \in DOMAIN Parent /\ Present(c)
      BY <2>1, <3>1, AboveClosed, TreeAssumption DEF HeldStill
    <3>4. c \in Children(d)
      BY <3>2, <3>3 DEF Children
    <3>5. CASE c \in Directories
      BY <1>2, <2>1, <3>4, <3>5
    <3>6. CASE c = s
      BY <1>2, <2>1, <3>4, <3>6 DEF Files
    <3> QED BY <3>5, <3>6, AboveSource
  <2> QED BY <2>2, <2>3, <2>4
<1>11. Walking'
  <2>1. \A x \in agenda' \ {Root} : fs'[x] = "symlink" => x \in changed'
    BY <1>2, <1>6, <1>7 DEF IInv, Walking
  <2> QED BY <1>7, <1>10, <2>1 DEF IInv, Walking
<1> QED BY <1>8, <1>9, <1>11 DEF IInv

LEMMA InspectFilePreserves ==
  ASSUME IInv, InspectFile
  PROVE  IInv'
<1>1. PICK x \in listing : listing' = listing \ {x} /\ discovered' = discovered \cup ({x} \cap Sources)
  BY DEF InspectFile
<1>2. UNCHANGED <<fs, changed, agenda, omitted, phase, unread, opening, read, failed, status>> /\ phase = "walk"
  BY DEF InspectFile, systemVars, readVars
<1>3. errors \subseteq errors'
  BY DEF InspectFile
<1>4. Reading'
  BY <1>2, <1>3 DEF IInv, Reading
<1>5. Listing'
  BY <1>1, <1>2 DEF IInv, Listing
<1>6. \A s \in Sources : HeldStill(s)' => HeldStill(s)
  BY <1>2, <1>3 DEF HeldStill, Present
<1>7. Walking'
  BY <1>1, <1>2, <1>6 DEF IInv, Walking
<1> QED BY <1>4, <1>5, <1>7 DEF IInv

LEMMA StartCollectingPreserves ==
  ASSUME IInv, StartCollecting
  PROVE  IInv'
<1>1. Reading'
  BY DEF StartCollecting, IInv, Reading, walkVars
<1>2. Listing' /\ Walking'
  BY WalkUntouched DEF StartCollecting
<1> QED BY <1>1, <1>2 DEF IInv

\* A failure keeps the errors and adds one that names its source.
LEMMA FailureIsNamed ==
  ASSUME IInv, NEW s, NEW code, Fail(s, code)
  PROVE  \A t \in failed' : \E e \in errors' : e.path = t
<1>1. Error(code, s).path = s
  BY DEF Error
<1>2. Error(code, s) \in errors' /\ errors \subseteq errors' /\ failed' = failed \cup {s}
  BY DEF Fail
<1> HIDE DEF Error
<1>3. \A t \in failed : \E e \in errors' : e.path = t
  BY <1>2 DEF IInv, Reading
<1> QED BY <1>1, <1>2, <1>3

LEMMA CheckBeforeOpenPreserves ==
  ASSUME IInv, CheckBeforeOpen
  PROVE  IInv'
<1>1. PICK s \in unread :
        /\ unread' = unread \ {s}
        /\ \/ opening' = {s} /\ UNCHANGED <<errors, failed>>
           \/ \E code : Fail(s, code) /\ UNCHANGED opening
  BY DEF CheckBeforeOpen
<1>2. UNCHANGED <<systemVars, walkVars, hanging, read, phase, status>> /\ phase = "collect" /\ opening = {}
  BY DEF CheckBeforeOpen
<1>3. CASE opening' = {s} /\ UNCHANGED <<errors, failed>>
  <2>1. Reading'
    BY <1>1, <1>2, <1>3 DEF IInv, Reading, walkVars
  <2> QED BY <2>1, <1>2, <1>3, WalkUntouched DEF IInv, Walking
<1>4. ASSUME NEW code, Fail(s, code), UNCHANGED opening PROVE IInv'
  <2>1. \A t \in failed' : \E e \in errors' : e.path = t
    BY <1>4, FailureIsNamed
  <2>2. Reading'
    BY <1>1, <1>2, <1>4, <2>1 DEF IInv, Reading, walkVars, Fail
  <2>3. errors \subseteq errors'
    BY <1>4 DEF Fail
  <2> QED BY <2>2, <2>3, <1>2, WalkUntouched DEF IInv, Walking
<1> QED BY <1>1, <1>3, <1>4

LEMMA OpenFailsPreserves ==
  ASSUME IInv, OpenFails
  PROVE  IInv'
<1>1. PICK s \in opening : \/ Fail(s, "source_read_error") /\ opening' = {}
                           \/ UNCHANGED <<errors, failed, opening>>
  BY DEF OpenFails
<1>2. UNCHANGED <<systemVars, walkVars, unread, read, phase, status>>
  BY DEF OpenFails
<1>3. phase = "collect"
  BY <1>1 DEF IInv, Reading
<1>4. CASE Fail(s, "source_read_error") /\ opening' = {}
  <2>1. \A t \in failed' : \E e \in errors' : e.path = t
    BY <1>4, FailureIsNamed
  <2>2. Reading'
    BY <1>1, <1>2, <1>3, <1>4, <2>1 DEF IInv, Reading, walkVars, Fail
  <2> QED BY <2>2, <1>2, <1>3, <1>4, WalkUntouched DEF IInv, Walking, Fail
<1>5. CASE UNCHANGED <<errors, failed, opening>>
  <2>1. Reading'
    BY <1>2, <1>5 DEF IInv, Reading, walkVars
  <2> QED BY <2>1, <1>2, <1>3, <1>5, WalkUntouched DEF IInv, Walking
<1> QED BY <1>1, <1>4, <1>5

LEMMA ReadSourcePreserves ==
  ASSUME IInv, ReadSource
  PROVE  IInv'
<1>1. PICK s \in opening : \/ Fail(s, FailedContent[fs[s]]) /\ UNCHANGED read
                           \/ read' = read \cup {s} /\ UNCHANGED <<errors, failed>>
  BY DEF ReadSource
<1>2. UNCHANGED <<systemVars, walkVars, unread, hanging, phase, status>> /\ opening' = {}
  BY DEF ReadSource
<1>3. phase = "collect" /\ opening = {s}
  BY <1>1 DEF IInv, Reading
<1>4. CASE Fail(s, FailedContent[fs[s]]) /\ UNCHANGED read
  <2>1. \A t \in failed' : \E e \in errors' : e.path = t
    BY <1>4, FailureIsNamed
  <2>2. Reading'
    BY <1>2, <1>3, <1>4, <2>1 DEF IInv, Reading, walkVars, Fail
  <2> QED BY <2>2, <1>2, <1>3, <1>4, WalkUntouched DEF IInv, Walking, Fail
<1>5. CASE read' = read \cup {s} /\ UNCHANGED <<errors, failed>>
  <2>1. Reading'
    BY <1>2, <1>3, <1>5 DEF IInv, Reading, walkVars
  <2> QED BY <2>1, <1>2, <1>3, <1>5, WalkUntouched DEF IInv, Walking
<1> QED BY <1>1, <1>4, <1>5

LEMMA AssemblePreserves ==
  ASSUME IInv, Assemble
  PROVE  IInv'
<1>1. Reading'
  BY DEF Assemble, IInv, Reading, walkVars, readVars
<1>2. Listing' /\ Walking'
  BY WalkUntouched DEF Assemble, IInv, Walking
<1> QED BY <1>1, <1>2 DEF IInv

\* Every reachable state satisfies the strengthened invariant.
THEOREM InductiveInvariant == Spec => []IInv
<1>1. IInv /\ [Next]_vars => IInv'
  <2> SUFFICES ASSUME IInv, [Next]_vars PROVE IInv'
    OBVIOUS
  <2>1. CASE UNCHANGED vars
    <3>1. Reading' /\ Listing'
      BY <2>1 DEF vars, systemVars, walkVars, readVars, IInv, Reading, Listing
    <3>2. \A s \in Sources : HeldStill(s)' => HeldStill(s)
      BY <2>1 DEF vars, systemVars, walkVars, HeldStill, Present
    <3>3. Walking'
      BY <2>1, <3>2 DEF vars, systemVars, walkVars, IInv, Walking
    <3> QED BY <3>1, <3>3 DEF IInv
  <2> QED BY <2>1, ChangePreserves, ScanFailsPreserves, SkipNewLinkPreserves, ScanDirectoryPreserves, InspectFilePreserves,
             StartCollectingPreserves, CheckBeforeOpenPreserves, OpenFailsPreserves, ReadSourcePreserves, AssemblePreserves
          DEF Next, Analysis
<1> QED BY <1>1, InitInv, PTL DEF Spec
-----------------------------------------------------------------------------
\* "Type invariant: sources are read once, in order of the phases, and fail or succeed once", in
\* every directory tree, whatever other processes do to it.
THEOREM TypeCorrect == Spec => []TypeOK
<1>1. IInv => TypeOK
  <2> SUFFICES ASSUME IInv PROVE TypeOK
    OBVIOUS
  <2>1. discovered \cap omitted = {}
    BY DEF IInv, Listing, Files
  <2> QED BY <2>1 DEF IInv, Reading, TypeOK
<1> QED BY <1>1, InductiveInvariant, PTL

\* A source counts as analyzed exactly when its own facts are in the catalogue.
THEOREM AnalysisStatusIsTrue == Spec => []AnalyzedMeansRead
<1>1. IInv => AnalyzedMeansRead
  <2> SUFFICES ASSUME IInv, phase = "done", NEW s \in discovered PROVE (status[s] = "analyzed") = (s \in read)
    BY DEF AnalyzedMeansRead
  <2>1. status[s] = IF s \in failed THEN "error" ELSE "analyzed"
    BY DEF IInv, Reading
  <2>2. s \in read <=> s \notin failed
    BY DEF IInv, Reading
  <2> QED BY <2>1, <2>2
<1> QED BY <1>1, InductiveInvariant, PTL

\* Whatever happens to a source after it was listed, it is read or an error names it.
THEOREM NoSourceForgotten == Spec => []ListedIsReadOrReported
<1>1. IInv => ListedIsReadOrReported
  BY DEF IInv, Reading, ListedIsReadOrReported
<1> QED BY <1>1, InductiveInvariant, PTL

\* A complete scan reads every source that held still, unless the report lists an excluded path
\* that it lies under: no interleaving of changes elsewhere makes the walk pass over it.
THEOREM NothingPassedOver == Spec => []CompleteScanReadsEverything
<1>1. IInv => CompleteScanReadsEverything
  <2> SUFFICES ASSUME IInv, Complete, NEW s \in Sources,
                      Above[s] \cap changed = {}, \A x \in Above[s] : Present(x), Above[s] \cap omitted = {}
               PROVE  s \in read
    BY DEF CompleteScanReadsEverything
  <2>1. HeldStill(s) /\ agenda = {} /\ listing = {}
    BY DEF Complete, HeldStill, IInv, Walking
  <2>2. s \in discovered
    BY <2>1 DEF IInv, Walking
  <2>3. failed = {}
    BY DEF Complete, IInv, Reading
  <2> QED BY <2>2, <2>3 DEF Complete, IInv, Reading
<1> QED BY <1>1, InductiveInvariant, PTL
-----------------------------------------------------------------------------
(***************************************************************************)
(* The identities of the facts found in the sources.  Comparing neighbours *)
(* suffices because the digests are sorted: of three in order, the outer   *)
(* two share no more digits than either shares with the middle one.        *)
(***************************************************************************)
\* m is the greatest element of S
IsMax(m, S) == m \in S /\ \A x \in S : x <= m

\* A nonempty set of bounded numbers has a maximum, and only one.
LEMMA MaxOfBounded ==
  ASSUME NEW n \in Nat, NEW S \in SUBSET (0 .. n), S # {}
  PROVE  Max(S) \in 0 .. n /\ IsMax(Max(S), S) /\ \A m \in S : IsMax(m, S) => m = Max(S)
<1> DEFINE T == {n - x : x \in S}
<1>1. T \in SUBSET Nat /\ T # {}
  <2>1. \A x \in S : x \in 0 .. n /\ n - x \in Nat
    OBVIOUS
  <2> QED BY <2>1
<1>2. PICK t \in T : \A u \in T : t <= u
  BY <1>1, LeastElementExists
<1>3. PICK m \in S : t = n - m
  BY <1>2
<1>4. m \in 0 .. n /\ \A x \in S : x \in 0 .. n /\ n - m <= n - x
  BY <1>2, <1>3
<1>5. \A x \in S : m >= x
  BY <1>4
<1>6. Max(S) \in S /\ \A x \in S : Max(S) >= x
  BY <1>5 DEF Max
<1>7. ASSUME NEW k \in S, \A x \in S : x <= k PROVE k = Max(S)
  <2>1. Max(S) >= k /\ Max(S) <= k
    BY <1>6, <1>7
  <2>2. k \in 0 .. n /\ Max(S) \in 0 .. n
    BY <1>6
  <2> QED BY <2>1, <2>2
<1> QED BY <1>6, <1>7 DEF IsMax

LEMMA MaxOfTwo ==
  ASSUME NEW x \in Nat, NEW y \in Nat
  PROVE  Max({x, y}) \in Nat /\ IsMax(Max({x, y}), {x, y})
<1> DEFINE n == IF x <= y THEN y ELSE x
<1>1. n \in Nat /\ {x, y} \in SUBSET (0 .. n)
  OBVIOUS
<1> HIDE DEF n
<1> QED BY <1>1, MaxOfBounded

\* A maximum and one more number.
LEMMA MaxWithOneMore ==
  ASSUME NEW S \in SUBSET Nat, NEW l, IsMax(l, S), NEW e \in Nat, NEW m \in {l, e}, l <= m, e <= m
  PROVE  IsMax(m, S \cup {e})
<1>1. l \in Nat /\ m \in Nat /\ l \in S
  BY DEF IsMax
<1>2. \A x \in S : x \in Nat /\ x <= l
  BY DEF IsMax
<1>3. \A x \in S \cup {e} : x <= m
  BY <1>1, <1>2
<1>4. m \in S \cup {e}
  BY <1>1
<1> QED BY <1>3, <1>4 DEF IsMax

\* What two digests of one length share, and where they differ.
LEMMA CommonMeans ==
  ASSUME NEW a \in Seq(Nat), NEW b \in Seq(Nat), Len(a) = Len(b)
  PROVE  /\ Common(a, b) \in 0 .. Len(a)
         /\ \A j \in 1 .. Common(a, b) : a[j] = b[j]
         /\ \A k \in 0 .. Len(a) : (\A j \in 1 .. k : a[j] = b[j]) => k <= Common(a, b)
         /\ a # b => /\ Common(a, b) < Len(a)
                     /\ a[Common(a, b) + 1] # b[Common(a, b) + 1]
         /\ Common(b, a) = Common(a, b)
<1> DEFINE agree == {k \in 0 .. Len(a) : \A j \in 1 .. k : a[j] = b[j]}
           c     == Common(a, b)
<1>1. 0 \in agree /\ agree \in SUBSET (0 .. Len(a)) /\ Len(a) \in Nat
  OBVIOUS
<1>2. c = Max(agree)
  BY DEF Common
<1>3. IsMax(c, agree)
  BY <1>1, <1>2, MaxOfBounded
<1>4. Common(b, a) = Max({k \in 0 .. Len(b) : \A j \in 1 .. k : b[j] = a[j]})
  BY DEF Common
<1>5. {k \in 0 .. Len(b) : \A j \in 1 .. k : b[j] = a[j]} = agree
  OBVIOUS
<1>6. Common(b, a) = c
  BY <1>2, <1>4, <1>5
<1> HIDE DEF c
<1>7. /\ c \in 0 .. Len(a) /\ \A j \in 1 .. c : a[j] = b[j]
      /\ \A k \in 0 .. Len(a) : (\A j \in 1 .. k : a[j] = b[j]) => k <= c
  BY <1>3 DEF IsMax
<1>8. ASSUME a # b PROVE c < Len(a)
  <2> SUFFICES ASSUME c = Len(a) PROVE FALSE
    BY <1>7
  <2>1. \A j \in 1 .. Len(a) : a[j] = b[j]
    BY <1>7
  <2> QED BY <1>8, <2>1
<1>9. ASSUME a # b PROVE a[c + 1] # b[c + 1]
  <2> SUFFICES ASSUME a[c + 1] = b[c + 1] PROVE FALSE
    OBVIOUS
  <2>1. \A j \in 1 .. c + 1 : a[j] = b[j]
    BY <1>7
  <2>2. c + 1 \in 0 .. Len(a)
    BY <1>7, <1>8, <1>9
  <2> QED BY <1>7, <2>1, <2>2
<1> QED BY <1>6, <1>7, <1>8, <1>9 DEF c

\* Of three digests in order the outer two share no more than either does with the middle.
LEMMA NeighboursShareMost ==
  ASSUME NEW a \in Seq(Nat), NEW b \in Seq(Nat), NEW c \in Seq(Nat),
         Len(a) = Len(b), Len(b) = Len(c),
         Before(a, b), Before(b, c), Before(a, c)
  PROVE  Common(a, c) <= Common(a, b) /\ Common(a, c) <= Common(b, c)
<1> DEFINE k == Common(a, b)
           l == Common(b, c)
           m == Common(a, c)
<1>1. a # b /\ b # c /\ a # c /\ a[k + 1] < b[k + 1] /\ b[l + 1] < c[l + 1]
  BY DEF Before
<1>2. /\ k \in 0 .. Len(a) /\ k < Len(a) /\ \A j \in 1 .. k : a[j] = b[j]
      /\ l \in 0 .. Len(a) /\ l < Len(a) /\ \A j \in 1 .. l : b[j] = c[j]
      /\ m \in 0 .. Len(a) /\ m < Len(a) /\ \A j \in 1 .. m : a[j] = c[j]
      /\ a[m + 1] # c[m + 1]
  BY <1>1, CommonMeans
<1>3. \A j \in 1 .. Len(a) : a[j] \in Nat /\ b[j] \in Nat /\ c[j] \in Nat
  OBVIOUS
<1> HIDE DEF k, l, m
<1>4. ASSUME m > k PROVE FALSE
  <2>1. k + 1 \in 1 .. m /\ k + 1 \in 1 .. Len(a)
    BY <1>2, <1>4
  <2>2. a[k + 1] = c[k + 1]
    BY <1>2, <2>1
  <2>3. CASE l > k
    <3>1. b[k + 1] = c[k + 1]
      BY <1>2, <2>3
    <3> QED BY <1>1, <1>3, <2>1, <2>2, <3>1
  <2>4. CASE l = k
    <3>1. a[k + 1] < b[k + 1] /\ b[k + 1] < c[k + 1]
      BY <1>1, <2>4
    <3>2. a[k + 1] \in Nat /\ b[k + 1] \in Nat /\ c[k + 1] \in Nat
      BY <1>3, <2>1
    <3> QED BY <2>2, <3>1, <3>2
  <2>5. CASE l < k
    <3>1. l + 1 \in 1 .. k /\ l + 1 \in 1 .. m /\ l + 1 \in 1 .. Len(a)
      BY <1>2, <1>4, <2>5
    <3>2. a[l + 1] = b[l + 1] /\ a[l + 1] = c[l + 1]
      BY <1>2, <3>1
    <3> QED BY <1>1, <1>3, <3>1, <3>2
  <2> QED BY <1>2, <2>3, <2>4, <2>5
<1>5. ASSUME m > l PROVE FALSE
  <2>1. l + 1 \in 1 .. m /\ l + 1 \in 1 .. Len(a)
    BY <1>2, <1>5
  <2>2. a[l + 1] = c[l + 1]
    BY <1>2, <2>1
  <2>3. CASE k > l
    <3>1. b[l + 1] = c[l + 1] /\ b[l + 1] \in Nat /\ c[l + 1] \in Nat
      BY <1>2, <1>3, <2>1, <2>2, <2>3
    <3> QED BY <1>1, <3>1
  <2>4. CASE k <= l
    <3>1. ~(m > k)
      BY <1>4
    <3> QED BY <1>2, <1>5, <2>4, <3>1
  <2> QED BY <1>2, <2>3, <2>4
<1> QED BY <1>2, <1>4, <1>5 DEF k, l, m
-----------------------------------------------------------------------------
Sorted(s) == \A i, j \in DOMAIN s : i < j => Before(s[i], s[j])

\* the lengths that the pairs passed so far ask of the i-th digest
Asked(i) ==
  {MinLength} \cup
  {Common(ordered[i], ordered[j]) + 1 :
     j \in {k \in DOMAIN ordered : k <= visited /\ i <= visited /\ (k = i - 1 \/ k = i + 1)}}

LengthsAsked == \A i \in DOMAIN ordered : IsMax(lengths[ordered[i]], Asked(i))

\* once sorted, every digest is as long as the pairs passed so far ask
IdsInv ==
  /\ digest \in Drafts /\ visited \in Nat
  /\ result = "assigned" => visited > 0 /\ visited >= Len(ordered)
  /\ visited > 0 =>
       /\ Cardinality(Digests) = Cardinality(DOMAIN digest)
       /\ ordered \in SetToSeqs(Digests) /\ Sorted(ordered)
       /\ lengths \in [Digests -> Nat]
       /\ LengthsAsked

\* The digests of one analysis.
LEMMA DigestsAligned ==
  ASSUME digest \in Drafts
  PROVE  \A a, b \in Digests : a \in Seq(Nat) /\ Len(a) = Len(b) /\ Len(a) >= MinLength
BY DraftsAssumption DEF Digests

\* What it is to be sorted: each digest has one place, and neighbours share most.
LEMMA SortedDigests ==
  ASSUME digest \in Drafts,
         ordered \in SetToSeqs(Digests), Sorted(ordered),
         Cardinality(Digests) = Cardinality(DOMAIN digest)
  PROVE  /\ \E n \in Nat : DOMAIN ordered = 1 .. n /\ Len(ordered) = n
         /\ \A i, j \in DOMAIN ordered : ordered[i] = ordered[j] => i = j
         /\ \A d \in Digests : \E i \in DOMAIN ordered : d = ordered[i]
         /\ \A i \in DOMAIN ordered : ordered[i] \in Digests
         /\ \A x, y \in DOMAIN digest : digest[x] = digest[y] => x = y
<1> DEFINE n == Cardinality(Digests)
<1>1. IsFiniteSet(DOMAIN digest)
  BY DraftsAssumption
<1> DEFINE image == [x \in DOMAIN digest |-> digest[x]]
<1>2. image \in Surjection(DOMAIN digest, Digests)
  BY DEF Surjection, Digests
<1>3. IsFiniteSet(Digests) /\ image \in Injection(DOMAIN digest, Digests)
  BY <1>1, <1>2, FS_Surjection
<1>4. \A x, y \in DOMAIN digest : digest[x] = digest[y] => x = y
  BY <1>3 DEF Injection, IsInjective
<1>5. n \in Nat
  BY <1>3, FS_CardinalityType
<1>6. /\ ordered \in [1 .. n -> Digests]
      /\ \A i, j \in 1 .. n : i # j => ordered[i] # ordered[j]
  BY DEF SetToSeqs
<1> HIDE DEF n
<1>7. IsFiniteSet(1 .. n) /\ Cardinality(1 .. n) = n
  BY <1>5, FS_Interval
<1>8. \A d \in Digests : \E i \in 1 .. n : d = ordered[i]
  <2>1. ordered \in Injection(1 .. n, Digests)
    BY <1>6 DEF Injection, IsInjective
  <2>2. ordered \in Surjection(1 .. n, Digests)
    BY <1>3, <1>7, <2>1, FS_Injection DEF n
  <2> QED BY <2>2 DEF Surjection
<1> QED BY <1>4, <1>5, <1>6, <1>8

\* What is asked are lengths.
LEMMA AskedLengths ==
  ASSUME digest \in Drafts,
         \A i \in DOMAIN ordered : ordered[i] \in Digests, NEW i \in DOMAIN ordered
  PROVE  Asked(i) \in SUBSET Nat
<1>1. ASSUME NEW j \in DOMAIN ordered PROVE Common(ordered[i], ordered[j]) + 1 \in Nat
  <2> DEFINE c == Common(ordered[i], ordered[j])
  <2>1. /\ ordered[i] \in Seq(Nat) /\ ordered[j] \in Seq(Nat) /\ Len(ordered[i]) = Len(ordered[j])
    BY DigestsAligned
  <2>2. c \in 0 .. Len(ordered[i]) /\ Len(ordered[i]) \in Nat
    BY <2>1, CommonMeans
  <2> HIDE DEF c
  <2>3. c + 1 \in Nat
    BY <2>2
  <2> QED BY <2>3 DEF c
<1> QED BY <1>1, MinLengthAssumption DEF Asked

\* Passing a pair lengthens the two digests as far as it asks, and no other.
LEMMA CompareKeeps ==
  ASSUME IdsInv, Compare
  PROVE  IdsInv'
<1> DEFINE left      == ordered[visited]
           right     == ordered[visited + 1]
           c         == Common(left, right)
           Longer(l) == Max({l, Distinguishing(left, right)})
<1>1. /\ visited \in 1 .. Len(ordered) - 1 /\ result = "none" /\ visited' = visited + 1
      /\ lengths' = [lengths EXCEPT ![left] = Longer(@), ![right] = Longer(@)]
      /\ UNCHANGED <<digest, ordered, result>>
  BY DEF Compare
<1>2. /\ digest \in Drafts /\ visited \in Nat /\ visited > 0 /\ MinLength \in Nat
      /\ Cardinality(Digests) = Cardinality(DOMAIN digest)
      /\ ordered \in SetToSeqs(Digests) /\ Sorted(ordered)
      /\ lengths \in [Digests -> Nat]
      /\ \A i \in DOMAIN ordered : IsMax(lengths[ordered[i]], Asked(i))
  BY <1>1, MinLengthAssumption DEF IdsInv, LengthsAsked
<1>3. PICK n \in Nat : DOMAIN ordered = 1 .. n /\ Len(ordered) = n
  BY <1>2, SortedDigests
<1>4. /\ \A i, j \in 1 .. n : ordered[i] = ordered[j] => i = j
      /\ \A d \in Digests : \E i \in 1 .. n : d = ordered[i]
      /\ \A i \in 1 .. n : ordered[i] \in Digests
  BY <1>2, <1>3, SortedDigests
<1>5. visited \in 1 .. n /\ visited + 1 \in 1 .. n
  BY <1>1, <1>3
<1>6. left \in Digests /\ right \in Digests /\ left # right
  BY <1>4, <1>5
<1>7. c \in Nat /\ Common(right, left) = c
  <2>1. /\ left \in Seq(Nat) /\ right \in Seq(Nat) /\ Len(left) = Len(right)
    BY <1>2, <1>6, DigestsAligned
  <2>2. c \in 0 .. Len(left)
    BY <2>1, CommonMeans
  <2>3. Len(left) \in Nat
    BY <2>1
  <2> QED BY <2>1, <2>2, <2>3, CommonMeans
<1>8. ASSUME NEW l \in Nat, MinLength <= l
      PROVE  Longer(l) \in Nat /\ Longer(l) \in {l, c + 1} /\ l <= Longer(l) /\ c + 1 <= Longer(l)
  <2> DEFINE d == Distinguishing(left, right)
  <2>1. d = Max({MinLength, c + 1})
    BY DEF Distinguishing
  <2>2. d \in Nat /\ d \in {MinLength, c + 1} /\ MinLength <= d /\ c + 1 <= d
    <3>1. MinLength \in Nat /\ c + 1 \in Nat
      BY <1>2, <1>7
    <3> HIDE DEF d, c
    <3>2. d \in Nat /\ IsMax(d, {MinLength, c + 1})
      BY <2>1, <3>1, MaxOfTwo
    <3> QED BY <3>2 DEF IsMax
  <2> HIDE DEF d, c
  <2>3. Longer(l) \in Nat /\ Longer(l) \in {l, d} /\ l <= Longer(l) /\ d <= Longer(l)
    BY <2>2, MaxOfTwo DEF IsMax, d
  <2> HIDE DEF Longer
  <2>4. c \in Nat /\ MinLength \in Nat
    BY <1>2, <1>7 DEF c
  <2>5. CASE d = c + 1
    BY <2>2, <2>3, <2>5
  <2>6. CASE d = MinLength
    <3>1. Longer(l) = l
      BY <1>8, <2>3, <2>4, <2>6
    <3> QED BY <1>8, <2>2, <2>3, <2>4, <2>6, <3>1
  <2> QED BY <2>2, <2>5, <2>6
<1>9. \A i \in 1 .. n : lengths[ordered[i]] \in Nat /\ MinLength <= lengths[ordered[i]]
  BY <1>2, <1>3, <1>4 DEF IsMax, Asked
<1> HIDE DEF Longer, c
<1>10. /\ lengths' \in [Digests -> Nat]
       /\ lengths'[left] = Longer(lengths[left]) /\ lengths'[right] = Longer(lengths[right])
       /\ \A i \in 1 .. n : i # visited /\ i # visited + 1 => lengths'[ordered[i]] = lengths[ordered[i]]
  BY <1>1, <1>2, <1>4, <1>5, <1>6, <1>8, <1>9
<1>11. ASSUME NEW i \in 1 .. n PROVE IsMax(lengths'[ordered[i]], Asked(i)')
  <2> DEFINE Of(v) == {k \in 1 .. n : k <= v /\ i <= v /\ (k = i - 1 \/ k = i + 1)}
             length == lengths[ordered[i]]
  <2>0. IsMax(length, Asked(i)) /\ IsMax(Longer(length), Asked(i) \cup {c + 1})
    <3>1. Asked(i) \in SUBSET Nat
      BY <1>2, <1>3, <1>4, AskedLengths
    <3>2. IsMax(length, Asked(i))
      BY <1>2, <1>3
    <3>3. length \in Nat /\ MinLength <= length
      BY <1>9
    <3> HIDE DEF length
    <3>4. c + 1 \in Nat
      BY <1>7
    <3>5. Longer(length) \in {length, c + 1} /\ length <= Longer(length) /\ c + 1 <= Longer(length)
      BY <1>8, <3>3
    <3>6. IsMax(Longer(length), Asked(i) \cup {c + 1})
      BY <3>1, <3>2, <3>4, <3>5, MaxWithOneMore
    <3> QED BY <3>2, <3>6
  <2>1. /\ Asked(i) = {MinLength} \cup {Common(ordered[i], ordered[j]) + 1 : j \in Of(visited)}
        /\ Asked(i)' = {MinLength} \cup {Common(ordered[i], ordered[j]) + 1 : j \in Of(visited + 1)}
    BY <1>1, <1>3 DEF Asked
  <2>2. CASE i = visited
    <3>1. Of(visited + 1) = Of(visited) \cup {visited + 1}
      BY <1>5, <2>2
    <3>2. Asked(i)' = Asked(i) \cup {c + 1}
      BY <2>1, <2>2, <3>1 DEF c
    <3>3. lengths'[ordered[i]] = Longer(length)
      BY <1>10, <2>2
    <3> QED BY <2>0, <3>2, <3>3
  <2>3. CASE i = visited + 1
    <3>1. Of(visited + 1) = Of(visited) \cup {visited}
      BY <1>5, <2>3
    <3>2. Asked(i)' = Asked(i) \cup {c + 1}
      BY <1>7, <2>1, <2>3, <3>1
    <3>3. lengths'[ordered[i]] = Longer(length)
      BY <1>10, <2>3
    <3> QED BY <2>0, <3>2, <3>3
  <2>4. CASE i # visited /\ i # visited + 1
    <3>1. Of(visited + 1) = Of(visited)
      BY <1>5, <2>4
    <3>2. Asked(i)' = Asked(i) /\ lengths'[ordered[i]] = lengths[ordered[i]]
      BY <1>10, <2>1, <2>4, <3>1
    <3> QED BY <2>0, <3>2
  <2> QED BY <2>2, <2>3, <2>4
<1>12. /\ Digests' = Digests /\ Sorted(ordered)' = Sorted(ordered)
  BY <1>1 DEF Digests, Sorted
<1>13. SetToSeqs(Digests)' = SetToSeqs(Digests)
  BY <1>12
<1>14. LengthsAsked'
  BY <1>1, <1>3, <1>11 DEF LengthsAsked, IsMax
<1>15. Cardinality(Digests)' = Cardinality(DOMAIN digest)'
  BY <1>1, <1>2, <1>12
<1> QED BY <1>1, <1>2, <1>10, <1>12, <1>13, <1>14, <1>15 DEF IdsInv

\* Sorting leaves every length at the minimum.
LEMMA SortKeeps ==
  ASSUME IdsInv, Sort
  PROVE  IdsInv'
<1>1. visited = 0 /\ result = "none" /\ UNCHANGED digest /\ digest \in Drafts
  BY DEF Sort, IdsInv
<1>2. Digests' = Digests
  BY <1>1 DEF Digests
<1>3. CASE Cardinality(Digests) # Cardinality(DOMAIN digest)
  <2>1. result' = "raised" /\ visited' = 0
    BY <1>1, <1>3 DEF Sort
  <2> QED BY <1>1, <2>1 DEF IdsInv
<1>4. CASE Cardinality(Digests) = Cardinality(DOMAIN digest)
  <2>1. /\ ordered' \in SetToSeqs(Digests)
        /\ \A i, j \in DOMAIN ordered' : i < j => Before(ordered'[i], ordered'[j])
        /\ lengths' = [d \in Digests |-> MinLength] /\ visited' = 1 /\ result' = "none"
    BY <1>1, <1>4 DEF Sort
  <2>2. Sorted(ordered')
    BY <2>1 DEF Sorted
  <2>3. ordered' \in [1 .. Cardinality(Digests) -> Digests]
    BY <2>1 DEF SetToSeqs
  <2>4. LengthsAsked'
    <3> SUFFICES ASSUME NEW i \in DOMAIN ordered'
                 PROVE  IsMax(lengths'[ordered'[i]], Asked(i)')
      BY DEF LengthsAsked, IsMax
    <3>1. DOMAIN ordered' = 1 .. Cardinality(Digests) /\ ordered'[i] \in Digests
      BY <2>3
    <3>2. {k \in DOMAIN ordered' : k <= visited' /\ i <= visited' /\ (k = i - 1 \/ k = i + 1)} = {}
      BY <2>1, <3>1
    <3>3. Asked(i)' = {MinLength}
      BY <3>2 DEF Asked
    <3>4. lengths'[ordered'[i]] = MinLength
      BY <2>1, <3>1
    <3> QED BY <3>3, <3>4, MinLengthAssumption DEF IsMax
  <2>5. Cardinality(Digests)' = Cardinality(DOMAIN digest)'
    BY <1>1, <1>2, <1>4
  <2>6. SetToSeqs(Digests)' = SetToSeqs(Digests)
    BY <1>2
  <2>7. lengths' \in [Digests' -> Nat]
    BY <1>2, <2>1, MinLengthAssumption
  <2>8. Sorted(ordered)'
    BY <2>2 DEF Sorted
  <2> QED BY <1>1, <2>1, <2>4, <2>5, <2>6, <2>7, <2>8 DEF IdsInv
<1> QED BY <1>3, <1>4

LEMMA IdsInvariant ==
  IdsSpec => []IdsInv
<1>1. IdsInit => IdsInv
  BY DEF IdsInit, IdsInv
<1>2. IdsInv /\ [IdsNext]_idsVars => IdsInv'
  <2> SUFFICES ASSUME IdsInv, [IdsNext]_idsVars PROVE IdsInv'
    OBVIOUS
  <2>1. CASE Sort
    BY <2>1, SortKeeps
  <2>2. CASE Compare
    BY <2>2, CompareKeeps
  <2>3. CASE Assign \/ UNCHANGED idsVars
    <3>1. /\ UNCHANGED <<digest, ordered, visited, lengths>>
          /\ result' = result \/ (visited > 0 /\ visited >= Len(ordered))
      BY <2>3 DEF Assign, idsVars
    <3>2. Digests' = Digests /\ Sorted(ordered)' = Sorted(ordered) /\ \A i : Asked(i)' = Asked(i)
      BY <3>1 DEF Digests, Sorted, Asked
    <3>3. LengthsAsked' = LengthsAsked
      BY <3>1, <3>2 DEF LengthsAsked, IsMax
    <3> QED BY <3>1, <3>2, <3>3 DEF IdsInv
  <2> QED BY <2>1, <2>2, <2>3 DEF IdsNext
<1> QED BY <1>1, <1>2, PTL DEF IdsSpec

\* When every pair is passed, the length of a digest is the maximum over all other digests.
LEMMA AllPairs ==
  ASSUME IdsInv, result = "assigned", NEW d \in Digests
  PROVE  /\ IsMax(lengths[d], {MinLength} \cup {Common(d, e) + 1 : e \in Digests \ {d}})
         /\ {MinLength} \cup {Common(d, e) + 1 : e \in Digests \ {d}} \in SUBSET (0 .. Len(d))
<1>1. /\ digest \in Drafts /\ visited \in Nat /\ visited >= Len(ordered) /\ MinLength \in Nat
      /\ Cardinality(Digests) = Cardinality(DOMAIN digest)
      /\ ordered \in SetToSeqs(Digests) /\ Sorted(ordered)
      /\ \A i \in DOMAIN ordered : IsMax(lengths[ordered[i]], Asked(i))
  BY MinLengthAssumption DEF IdsInv, LengthsAsked
<1>2. PICK n \in Nat : DOMAIN ordered = 1 .. n /\ Len(ordered) = n
  BY <1>1, SortedDigests
<1>3. /\ \A i, j \in 1 .. n : ordered[i] = ordered[j] => i = j
      /\ \A e \in Digests : \E i \in 1 .. n : e = ordered[i]
      /\ \A i \in 1 .. n : ordered[i] \in Digests
  BY <1>1, <1>2, SortedDigests
<1>4. \A a, b \in Digests : a \in Seq(Nat) /\ b \in Seq(Nat) /\ Len(a) = Len(b) /\ Len(a) >= MinLength
  BY <1>1, DigestsAligned
<1>5. PICK i \in 1 .. n : d = ordered[i]
  BY <1>3
<1> DEFINE all == {MinLength} \cup {Common(d, e) + 1 : e \in Digests \ {d}}
<1>6. ASSUME NEW e \in Digests, e # d
      PROVE  Common(d, e) \in Nat /\ Common(d, e) + 1 <= Len(d)
  <2> DEFINE c == Common(d, e)
  <2>1. c \in 0 .. Len(d) /\ c < Len(d) /\ Len(d) \in Nat
    BY <1>4, <1>6, CommonMeans
  <2> HIDE DEF c
  <2>2. c \in Nat /\ c + 1 <= Len(d)
    BY <2>1
  <2> QED BY <2>2 DEF c
<1>7. all \in SUBSET (0 .. Len(d))
  <2>1. MinLength \in 0 .. Len(d)
    BY <1>1, <1>4
  <2>2. Len(d) \in Nat
    BY <1>4
  <2>3. \A e \in Digests \ {d} : Common(d, e) + 1 \in 0 .. Len(d)
    BY <1>6, <2>2
  <2> QED BY <2>1, <2>3
<1>8. Asked(i) \subseteq all
  BY <1>2, <1>3, <1>5 DEF Asked
<1>9. ASSUME NEW j \in 1 .. n, NEW x \in Nat, x = Common(d, ordered[j]), j # i
      PROVE  \E k \in {i - 1, i + 1} \cap (1 .. n) : x <= Common(d, ordered[k])
  <2>1. \A k, l \in 1 .. n : k < l => Before(ordered[k], ordered[l])
    BY <1>1, <1>2 DEF Sorted
  <2>2. CASE j = i - 1 \/ j = i + 1
    BY <1>9, <2>2
  <2>3. CASE i + 1 < j
    <3> DEFINE k == i + 1
    <3>1. k \in 1 .. n /\ i < k /\ k < j /\ i < j
      BY <2>3
    <3>2. Common(d, ordered[j]) <= Common(d, ordered[k])
      BY <1>3, <1>4, <1>5, <2>1, <3>1, NeighboursShareMost
    <3> QED BY <1>9, <3>1, <3>2
  <2>4. CASE j < i - 1
    <3> DEFINE k == i - 1
    <3>1. k \in 1 .. n /\ j < k /\ k < i /\ j < i
      BY <2>4
    <3>2. Common(ordered[j], d) <= Common(ordered[k], d)
      BY <1>3, <1>4, <1>5, <2>1, <3>1, NeighboursShareMost
    <3>3. Common(ordered[j], d) = Common(d, ordered[j]) /\ Common(ordered[k], d) = Common(d, ordered[k])
      BY <1>3, <1>4, <3>1, CommonMeans
    <3> QED BY <1>9, <3>1, <3>2, <3>3
  <2> QED BY <1>9, <2>2, <2>3, <2>4
<1>10. ASSUME NEW x \in all PROVE x <= lengths[d]
  <2>1. IsMax(lengths[d], Asked(i)) /\ lengths[d] \in all
    BY <1>1, <1>2, <1>5, <1>8 DEF IsMax
  <2>2. x \in 0 .. Len(d) /\ lengths[d] \in 0 .. Len(d)
    BY <1>7, <2>1
  <2>3. CASE x = MinLength
    BY <2>1, <2>3 DEF IsMax, Asked
  <2>4. CASE x # MinLength
    <3>1. PICK e \in Digests \ {d} : x = Common(d, e) + 1
      BY <2>4
    <3>2. PICK j \in 1 .. n : e = ordered[j]
      BY <1>3
    <3> DEFINE c == Common(d, e)
    <3>3. j # i /\ c \in Nat
      BY <1>5, <1>6, <3>1, <3>2
    <3>4. PICK k \in {i - 1, i + 1} \cap (1 .. n) : c <= Common(d, ordered[k])
      BY <1>9, <3>2, <3>3
    <3> DEFINE y == Common(d, ordered[k])
    <3>5. y \in Nat
      <4>1. ordered[k] \in Digests /\ ordered[k] # d
        BY <1>3, <1>5
      <4> QED BY <1>6, <4>1
    <3>6. y + 1 \in Asked(i)
      <4>1. k \in DOMAIN ordered /\ k <= visited /\ i <= visited /\ (k = i - 1 \/ k = i + 1)
        BY <1>1, <1>2
      <4> QED BY <1>5, <4>1 DEF Asked
    <3>7. y + 1 <= lengths[d]
      BY <2>1, <3>6 DEF IsMax
    <3>8. x = c + 1 /\ c <= y
      BY <3>1, <3>4
    <3> HIDE DEF c, y
    <3> QED BY <2>2, <3>3, <3>5, <3>7, <3>8
  <2> QED BY <2>3, <2>4
<1>11. lengths[d] \in all
  BY <1>1, <1>2, <1>5, <1>8 DEF IsMax
<1> QED BY <1>7, <1>10, <1>11 DEF IsMax

\* Comparing neighbours finds the length that comparing all pairs of digests would find.
THEOREM NeighboursDecide ==
  IdsSpec => []NeighboursSuffice
<1>1. IdsInv => NeighboursSuffice
  <2> SUFFICES ASSUME IdsInv, result = "assigned", NEW d \in Digests
               PROVE  lengths[d] = Max({MinLength} \cup {Common(d, e) + 1 : e \in Digests \ {d}})
    BY DEF NeighboursSuffice
  <2> DEFINE all == {MinLength} \cup {Common(d, e) + 1 : e \in Digests \ {d}}
  <2>1. all \in SUBSET (0 .. Len(d)) /\ IsMax(lengths[d], all)
    BY AllPairs
  <2>2. Len(d) \in Nat /\ all # {}
    BY DigestsAligned DEF IdsInv
  <2>3. lengths[d] \in all
    BY <2>1 DEF IsMax
  <2> HIDE DEF all
  <2>4. lengths[d] = Max(all)
    BY <2>1, <2>2, <2>3, MaxOfBounded
  <2> QED BY <2>4 DEF all
<1> QED BY <1>1, IdsInvariant, PTL

\* The beginning of a sequence.
LEMMA Beginning ==
  ASSUME NEW s \in Seq(Nat), NEW n \in 0 .. Len(s)
  PROVE  /\ SubSeq(s, 1, n) \in Seq(Nat) /\ Len(SubSeq(s, 1, n)) = n
         /\ \A j \in 1 .. n : SubSeq(s, 1, n)[j] = s[j]
OBVIOUS

\* Different facts get different ids, and none is the beginning of another's.
THEOREM IdsAreUnique ==
  IdsSpec => []IdsDiffer
<1>1. IdsInv => IdsDiffer
  <2> SUFFICES ASSUME IdsInv, result = "assigned", NEW x \in DOMAIN digest, NEW y \in DOMAIN digest, x # y,
                      IsPrefix(Id(x), Id(y))
               PROVE  FALSE
    BY DEF IdsDiffer
  <2> DEFINE a == digest[x]
             b == digest[y]
             c == Common(a, b)
  <2>1. a \in Digests /\ b \in Digests
    BY DEF Digests
  <2>2. a # b
    BY SortedDigests DEF IdsInv
  <2>3. a \in Seq(Nat) /\ b \in Seq(Nat) /\ Len(a) = Len(b) /\ Len(a) \in Nat
    BY <2>1, DigestsAligned DEF IdsInv
  <2>4. c \in 0 .. Len(a) /\ c < Len(a) /\ a[c + 1] # b[c + 1] /\ Common(b, a) = c
    BY <2>2, <2>3, CommonMeans
  <2>5. lengths[a] \in 0 .. Len(a) /\ c + 1 <= lengths[a]
    BY <2>1, <2>2, AllPairs DEF IsMax
  <2>6. lengths[b] \in 0 .. Len(a) /\ c + 1 <= lengths[b]
    BY <2>1, <2>2, <2>3, <2>4, AllPairs DEF IsMax
  <2>7. Id(x) = SubSeq(a, 1, lengths[a]) /\ Id(y) = SubSeq(b, 1, lengths[b])
    BY DEF Id
  <2> HIDE DEF a, b, c
  <2>8. c + 1 \in 1 .. lengths[a] /\ c + 1 \in 1 .. lengths[b]
    BY <2>4, <2>5, <2>6
  <2>9. /\ Len(Id(x)) = lengths[a] /\ Id(x)[c + 1] = a[c + 1] /\ Id(y)[c + 1] = b[c + 1]
        /\ Id(x) \in Seq(Nat) /\ Id(y) \in Seq(Nat) /\ Len(Id(y)) = lengths[b]
    <3>1. lengths[a] \in 0 .. Len(a) /\ lengths[b] \in 0 .. Len(b)
      BY <2>3, <2>5, <2>6
    <3>2. /\ SubSeq(a, 1, lengths[a]) \in Seq(Nat) /\ Len(SubSeq(a, 1, lengths[a])) = lengths[a]
          /\ SubSeq(a, 1, lengths[a])[c + 1] = a[c + 1]
      BY <2>3, <2>8, <3>1, Beginning
    <3>3. /\ SubSeq(b, 1, lengths[b]) \in Seq(Nat) /\ Len(SubSeq(b, 1, lengths[b])) = lengths[b]
          /\ SubSeq(b, 1, lengths[b])[c + 1] = b[c + 1]
      BY <2>3, <2>8, <3>1, Beginning
    <3> QED BY <2>7, <3>2, <3>3
  <2>10. /\ lengths[a] <= lengths[b]
         /\ SubSeq(Id(x), 1, lengths[a]) = SubSeq(Id(y), 1, lengths[a])
    BY <2>9 DEF IsPrefix
  <2>11. Id(x)[c + 1] = Id(y)[c + 1]
    BY <2>8, <2>9, <2>10
  <2> QED BY <2>4, <2>9, <2>11
<1> QED BY <1>1, IdsInvariant, PTL
=============================================================================
