-------------------------- MODULE SourceCollection --------------------------
(***************************************************************************)
(* One import root is walked, its source files are read, and its part of   *)
(* the catalogue is assembled, while the file system changes underneath.   *)
(*                                                                         *)
(*   _DiscoverySession.scan      walks the directories top down, prunes    *)
(*                               omitted ones, lists the source files and  *)
(*                               inspects each with stat                   *)
(*   AstImportFactSource.collect reads every listed source: stat, open,    *)
(*                               decode, parse, extract                    *)
(*   SourceCatalogBuilder.build  gives every source its analysis status    *)
(*                                                                         *)
(* Every system call is a step of its own, so that a file can change       *)
(* between any two of them.                                                *)
(***************************************************************************)
EXTENDS Naturals, FiniteSets

CONSTANTS
  Root,        \* the root directory
  Directories, \* all directories, the root among them
  Sources,     \* the .py files
  Stubs,       \* the other files with an import name: stubs and native sources
  Parent,      \* the directory that each other directory and each file lies in
  Nested,      \* the directories that are selected roots themselves
  Defaults,    \* the directories with a basename that is excluded by default
  Matched,     \* the directories and files a configured pattern excludes
  Initially,   \* the states the file system may start in
  MaxChanges   \* bound on the files and directories that change during the run

Files == Sources \cup Stubs

Entries == Directories \cup Files

\* whether up holds x and the directories that x lies in
Climbs(up, x) == x \in up /\ \A y \in up \ {Root} : Parent[y] \in up

\* x and the directories that it lies in
Above == [x \in Entries |-> {d \in Entries : \A up \in SUBSET Entries : Climbs(up, x) => d \in up}]

\* how a file's content fails to become facts, and the code of the diagnostic
FailedContent == [undecodable |-> "source_decode_error", invalid |-> "source_syntax_error",
                  deep |-> "source_analysis_limit"]

DirectoryStates == {"directory", "symlink", "unreadable", "gone"}
SourceStates    == {"good", "fifo", "unreadable", "gone"} \cup DOMAIN FailedContent
StubStates      == {"good", "fifo", "gone"}

ASSUME TreeAssumption ==
  /\ Root \in Directories
  /\ Parent \in [Entries \ {Root} -> Directories]
  /\ Sources \cap Stubs = {} /\ Directories \cap Files = {}
  /\ \A x \in Entries : Root \in Above[x]
  /\ Initially \subseteq [Entries -> DirectoryStates \cup SourceStates \cup StubStates]
  /\ MaxChanges \in Nat

VARIABLES
  fs,           \* the state of every file and directory
  changed,      \* what has changed since the start
  agenda,       \* the directories still to be scanned
  listing,      \* the files of the scanned directory not inspected yet
  discovered,   \* the sources found
  targets,      \* the target declarations found: [path, kind, acknowledged]
  omitted,      \* the excluded paths
  errors,       \* the ERROR diagnostics: [code, path]
  failed,       \* the sources with an ERROR diagnostic of the collection
  phase,        \* "walk", "collect", "done"
  unread,       \* the sources still to be read
  opening,      \* the source that passed the check before open, as {source}
  hanging,      \* the reader waits in open for a writer of a FIFO
  read,         \* the sources whose facts were collected
  status        \* the analysis status of every catalogued source

walkVars    == <<agenda, listing, discovered, targets, omitted>>
readVars    == <<failed, unread, opening, hanging, read>>
systemVars  == <<fs, changed>>
vars        == <<systemVars, walkVars, readVars, errors, phase, status>>
-----------------------------------------------------------------------------
Init ==
  /\ fs \in Initially
  /\ changed = {}
  /\ agenda = {Root}
  /\ listing = {} /\ discovered = {} /\ targets = {} /\ omitted = {}
  /\ errors = {}
  /\ failed = {} /\ unread = {} /\ opening = {} /\ hanging = FALSE /\ read = {}
  /\ phase = "walk"
  /\ status = [s \in {} |-> "pending"]

\* other processes replace, remove and create files and directories, the same ones repeatedly
Change ==
  /\ phase # "done"
  /\ \E x \in DOMAIN fs :
       /\ Cardinality(changed \cup {x}) <= MaxChanges
       /\ \E state \in IF x \in Sources THEN SourceStates
                       ELSE IF x \in Stubs THEN StubStates ELSE DirectoryStates :
            state # fs[x] /\ fs' = [fs EXCEPT ![x] = state]
       /\ changed' = changed \cup {x}
  /\ UNCHANGED <<walkVars, readVars, errors, phase, status>>
-----------------------------------------------------------------------------
Error(code, path) == [code |-> code, path |-> path]

Present(x) == fs[x] # "gone"

Children(d) == {x \in DOMAIN Parent : Parent[x] = d /\ Present(x)}

\* omit: an excluded directory or file is an accepted boundary, a symlink is not
Omission(x, accepted) == [path |-> x, kind |-> "excluded", acknowledged |-> accepted]

\* mutant: os.walk reports no error
ScanSilently ==
  /\ phase = "walk" /\ listing = {}
  /\ \E d \in agenda :
       /\ fs[d] \in {"gone", "unreadable"}
       /\ agenda' = agenda \ {d}
  /\ UNCHANGED <<systemVars, readVars, listing, discovered, targets, omitted, errors, phase, status>>

\* os.walk cannot list a directory it was about to enter: record_walk_error
ScanFails ==
  /\ phase = "walk" /\ listing = {}
  /\ \E d \in agenda :
       /\ fs[d] \in {"gone", "unreadable"}
       /\ agenda' = agenda \ {d}
       /\ errors' = errors \cup {Error("source_read_error", d)}
  /\ UNCHANGED <<systemVars, readVars, listing, discovered, targets, omitted, phase, status>>

\* os.walk looks at the links again: a directory replaced by one after the listing of its
\* parent is either passed over here, or followed by ScanDirectory when it is replaced later
SkipNewLink ==
  /\ phase = "walk" /\ listing = {}
  /\ \E d \in agenda \ {Root} :
       /\ fs[d] = "symlink"
       /\ agenda' = agenda \ {d}
  /\ UNCHANGED <<systemVars, readVars, listing, discovered, targets, omitted, errors, phase, status>>

\* one directory is listed: nested roots, excluded directories and links are left out
ScanDirectory ==
  /\ phase = "walk" /\ listing = {}
  /\ \E d \in agenda :
       /\ fs[d] \in {"directory", "symlink"}
       /\ LET dirs    == Children(d) \cap Directories
              files   == Children(d) \cap Files
              nested  == dirs \cap Nested
              default == (dirs \cap Defaults) \ nested
              links   == {x \in dirs \ (nested \cup default) : fs[x] = "symlink"}
              ruled   == default \cup (((dirs \cup files) \cap Matched) \ (nested \cup links))
          IN /\ agenda' = (agenda \ {d}) \cup (dirs \ (nested \cup ruled \cup links))
             /\ listing' = files \ ruled
             /\ omitted' = omitted \cup nested \cup ruled \cup links
             /\ targets' = targets \cup {Omission(x, TRUE) : x \in ruled}
                                   \cup {Omission(x, FALSE) : x \in links}
  /\ UNCHANGED <<systemVars, readVars, discovered, errors, phase, status>>

\* one listed file is inspected; a source stays discovered whatever stat says
InspectFile ==
  /\ phase = "walk"
  /\ \E x \in listing :
       /\ listing' = listing \ {x}
       /\ discovered' = discovered \cup ({x} \cap Sources)
       /\ errors' = errors \cup
            CASE fs[x] = "gone" -> {Error("source_read_error", x)}
              [] fs[x] = "fifo" -> {Error("source_not_regular", x)}
              [] OTHER          -> {}
       /\ targets' = targets \cup
            {[path |-> s, kind |-> "declared", acknowledged |-> FALSE] :
               s \in {t \in {x} \cap Stubs : fs[t] \notin {"gone", "fifo"}}}
  /\ UNCHANGED <<systemVars, readVars, agenda, omitted, phase, status>>

StartCollecting ==
  /\ phase = "walk" /\ agenda = {} /\ listing = {}
  /\ phase' = "collect"
  /\ unread' = discovered
  /\ UNCHANGED <<systemVars, walkVars, errors, failed, opening, hanging, read, status>>
-----------------------------------------------------------------------------
Fail(s, code) ==
  /\ errors' = errors \cup {Error(code, s)}
  /\ failed' = failed \cup {s}

Readable(s) == fs[s] \notin {"gone", "fifo", "unreadable"}

\* mutant: a source that passed the check stays to be read
CheckAgain ==
  /\ phase = "collect" /\ opening = {}
  /\ \E s \in unread :
       /\ fs[s] \notin {"gone", "fifo"}
       /\ opening' = {s}
  /\ UNCHANGED <<systemVars, walkVars, unread, errors, failed, hanging, read, phase, status>>

\* SourceReader.read: the check before the open
CheckBeforeOpen ==
  /\ phase = "collect" /\ opening = {}
  /\ \E s \in unread :
       /\ unread' = unread \ {s}
       /\ \/ fs[s] \notin {"gone", "fifo"} /\ opening' = {s} /\ UNCHANGED <<errors, failed>>
          \/ fs[s] = "gone" /\ Fail(s, "source_read_error") /\ UNCHANGED opening
          \/ fs[s] = "fifo" /\ Fail(s, "source_not_regular") /\ UNCHANGED opening
  /\ UNCHANGED <<systemVars, walkVars, hanging, read, phase, status>>

\* mutant: a file that vanished after the check is not expected
OpenExpectingFile ==
  /\ \E s \in opening :
       /\ fs[s] = "unreadable"
       /\ Fail(s, "source_read_error")
  /\ opening' = {}
  /\ UNCHANGED <<systemVars, walkVars, unread, hanging, read, phase, status>>

\* the file is opened as it is now: an OSError, or a FIFO that has no writer
OpenFails ==
  /\ ~hanging
  /\ \E s \in opening :
       \/ /\ fs[s] \in {"gone", "unreadable"}
          /\ Fail(s, "source_read_error")
          /\ opening' = {}
          /\ UNCHANGED hanging
       \/ /\ fs[s] = "fifo"
          /\ hanging' = TRUE
          /\ UNCHANGED <<errors, failed, opening>>
  /\ UNCHANGED <<systemVars, walkVars, unread, read, phase, status>>

\* mutant: what was extracted before the failure is kept
KeepPartialFacts ==
  /\ \E s \in opening :
       /\ Readable(s)
       /\ read' = read \cup {s}
       /\ IF fs[s] \in DOMAIN FailedContent THEN Fail(s, FailedContent[fs[s]])
          ELSE UNCHANGED <<errors, failed>>
  /\ opening' = {}
  /\ UNCHANGED <<systemVars, walkVars, unread, hanging, phase, status>>

\* mutant: a decoding failure is passed over
ParseSilently ==
  /\ \E s \in opening :
       /\ Readable(s)
       /\ read' = read \cup ({s} \cap {t \in Sources : fs[t] = "good"})
  /\ opening' = {}
  /\ UNCHANGED <<systemVars, walkVars, unread, hanging, phase, status, errors, failed>>

\* the file is opened, decoded and parsed; its facts are extended only when all succeed
ReadSource ==
  /\ \E s \in opening :
       /\ Readable(s)
       /\ IF fs[s] \in DOMAIN FailedContent
          THEN Fail(s, FailedContent[fs[s]]) /\ UNCHANGED read
          ELSE read' = read \cup {s} /\ UNCHANGED <<errors, failed>>
  /\ opening' = {}
  /\ UNCHANGED <<systemVars, walkVars, unread, hanging, phase, status>>

\* SourceCatalogBuilder.build: a source failed if collecting it reported an ERROR
Assemble ==
  /\ phase = "collect" /\ unread = {} /\ opening = {}
  /\ phase' = "done"
  /\ status' = [s \in discovered |-> IF s \in failed THEN "error" ELSE "analyzed"]
  /\ UNCHANGED <<systemVars, walkVars, readVars, errors>>

Analysis ==
  \/ ScanFails \/ SkipNewLink \/ ScanDirectory \/ InspectFile \/ StartCollecting
  \/ CheckBeforeOpen \/ OpenFails \/ ReadSource \/ Assemble

Next == Change \/ Analysis

\* the analysis is one thread that runs on; nothing makes the environment change files
Spec == Init /\ [][Next]_vars /\ WF_vars(Analysis)
-----------------------------------------------------------------------------
\* Type invariant: sources are read once, in order of the phases, and fail or succeed once.
TypeOK ==
  /\ opening \subseteq discovered /\ unread \subseteq discovered
  /\ read \subseteq discovered /\ failed \subseteq discovered
  /\ discovered \cap omitted = {}
  /\ unread \cap (opening \cup read \cup failed) = {}
  /\ phase = "collect" => unread \cup opening \cup read \cup failed = discovered
  /\ phase = "done" => DOMAIN status = discovered

Complete == phase = "done" /\ errors = {}

\* A source counts as analyzed exactly when its own facts are in the catalogue: a failure
\* contributes no partial facts and a success is never reported as an error.
AnalyzedMeansRead ==
  phase = "done" => \A s \in discovered : (status[s] = "analyzed") = (s \in read)

\* A complete scan passes over nothing that held still: a source that was there all along,
\* in directories that did not change either, is read, or the report lists an excluded path
\* that it lies under.
CompleteScanReadsEverything ==
  Complete =>
    \A s \in Sources :
      Above[s] \cap changed = {} /\ (\A x \in Above[s] : Present(x))
        => s \in read \/ Above[s] \cap omitted # {}

\* Whatever happens to a source after it was listed, it is read or an error names it.
ListedIsReadOrReported ==
  phase = "done" =>
    \A s \in discovered : s \in read \/ \E e \in errors : e.path = s

\* The analysis ends, or waits in the open of a FIFO.
EndsOrHangs == <>(phase = "done" \/ hanging)
=============================================================================
