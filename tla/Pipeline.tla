------------------------------ MODULE Pipeline ------------------------------
(***************************************************************************)
(* A check from its start to its answer (check.go, checker_runner.go).     *)
(* The names of the files are compared, .go files with gown comments are   *)
(* lowered and written to the mirror directory, the sources (or what the   *)
(* mirror holds by then) are scanned and loaded, with one retry if the     *)
(* build cache has lost an entry, and the checker passes run one after the *)
(* other up to the first that finds something.                             *)
(*                                                                         *)
(* Listing stands for the names in the directory; it has a fault if a .go  *)
(* and a .gown file share a name.                                          *)
(***************************************************************************)
EXTENDS Naturals, Sequences, FiniteSets

CONSTANTS Files, Listing, Checks,
          GoFiles,      \* the plain Go files, which only the toolchain reads
          Contents,     \* what a file may contain
          Overlays,     \* what editors may have open
          Overlapping,  \* checks of one package may run at the same time
          MaxEdits      \* bound on the edits

\* The kinds of faults, in the order they are looked for: the names of files,
\* the comments, the gown tokens, the toolchain, then checkerPasses.
Stages ==
    <<"collision", "lower", "scan", "type",
      "checkRestoreRegions", "checkCloneIntrinsics", "checkSwapIntrinsics",
      "checkChannelElementDeclarations", "checkOstampErasure", "checkMovedUses",
      "checkCallBorrows", "checkSends", "checkGoEscapes", "checkClosureEscapes",
      "checkStores", "checkReturns">>

NumPasses == Len(Stages) - 4

checkerPass(i) == Stages[i + 4]

VARIABLES mode,       \* "gown" sources, or .go sources with gown "comments"
          files, overlay, answer,
          edits,      \* number of edits so far
          pc,         \* where each check is
          todo,       \* the files it has to go through there
          got,        \* what it read from the sources
          seen,       \* what it analyses
          pass,       \* the checker pass that is next
          retried,    \* packages.Load runs with a build cache of its own
          mirror      \* the files in the mirror directory

vars == <<mode, files, overlay, answer, edits, pc, todo, got, seen, pass, retried, mirror>>

package == <<mode, files, edits>>

Saved == "saved"      \* not open in an editor

\* The buffers that take the place of files: the .go buffers of a package of
\* .gown sources do not get into cfg.Overlay, and packages.Load reads the disk.
buffers == [c \in Checks |-> [f \in Files |->
               IF mode = "gown" /\ f \in GoFiles THEN Saved ELSE overlay[c][f]]]

A == INSTANCE Verdict WITH view <- got, overlay <- buffers

Sources   == Files \ {Listing}
GownFiles == Sources \ GoFiles

ASSUME FilesAssumption == Listing \in Files /\ GoFiles \subseteq Sources
ASSUME ContentsAssumption ==
    /\ Contents \subseteq {Stages[i] : i \in 3 .. Len(Stages)} \cup {A!Ok}
    /\ \A o \in Overlays : /\ o \in [Files -> Contents \cup {Saved}]
                           /\ o[Listing] = Saved
                           /\ \A f \in GoFiles : o[f] # "scan"
ASSUME BoundsAssumption == Overlapping \in BOOLEAN /\ MaxEdits \in Nat

\* What a file may contain.  A plain Go file has no gown tokens or comments.
ContentsOf(m, f) ==
    IF f = Listing THEN {A!Ok, "collision"}
    ELSE IF f \in GoFiles THEN Contents \ {"scan"}
    ELSE Contents \cup (IF m = "comments" THEN {"lower"} ELSE {})

NothingRead == [f \in Files |-> A!Unread]

Init ==
    /\ mode \in {"gown", "comments"}
    /\ files \in {s \in [Files -> A!Kinds \cup {A!Ok}] : \A f \in Files : s[f] \in ContentsOf(mode, f)}
    /\ overlay = [c \in Checks |-> [f \in Files |-> Saved]]
    /\ answer = [c \in Checks |-> A!None]
    /\ edits = 0
    /\ pc = [c \in Checks |-> "idle"]
    /\ todo = [c \in Checks |-> {}]
    /\ got = [c \in Checks |-> NothingRead]
    /\ seen = [c \in Checks |-> NothingRead]
    /\ pass = [c \in Checks |-> 1]
    /\ retried = [c \in Checks |-> FALSE]
    /\ mirror = NothingRead

Edit ==
    /\ edits < MaxEdits
    /\ edits' = edits + 1
    /\ \E f \in Files : \E k \in ContentsOf(mode, f) : files' = [files EXCEPT ![f] = k]
    /\ UNCHANGED <<mode, overlay, answer, pc, todo, got, seen, pass, retried, mirror>>

\* gown is started, or an editor asks for an analysis.
Ask(c) ==
    /\ pc[c] = "idle"
    /\ mode = "comments" /\ ~Overlapping => \A d \in Checks : pc[d] = "idle"
    /\ \E o \in Overlays : overlay' = [overlay EXCEPT ![c] = o]
    /\ answer' = [answer EXCEPT ![c] = A!Open]
    /\ pc' = [pc EXCEPT ![c] = "names"]
    /\ got' = [got EXCEPT ![c] = NothingRead]
    /\ seen' = [seen EXCEPT ![c] = NothingRead]
    /\ pass' = [pass EXCEPT ![c] = 1]
    /\ retried' = [retried EXCEPT ![c] = FALSE]
    /\ UNCHANGED <<package, todo, mirror>>

GoTo(c, where, what) ==
    /\ pc' = [pc EXCEPT ![c] = where]
    /\ todo' = [todo EXCEPT ![c] = what]
    /\ UNCHANGED answer

Finish(c, a) ==
    /\ answer' = [answer EXCEPT ![c] = a]
    /\ pc' = [pc EXCEPT ![c] = "idle"]
    /\ todo' = [todo EXCEPT ![c] = {}]

\* The buffer, or the file on disk: lookupGownOverlay, lookupGoOverlay.
Content(c, f) == IF overlay[c][f] = Saved THEN files[f] ELSE overlay[c][f]

\* validateNoGoGownBasenameCollisions.
CheckNames(c) ==
    /\ pc[c] = "names"
    /\ got' = [got EXCEPT ![c][Listing] = Content(c, Listing)]
    /\ IF got'[c][Listing] = "collision" THEN Finish(c, A!Fault(Listing, "collision"))
       ELSE IF mode = "comments" THEN GoTo(c, "sources", Sources)
       ELSE GoTo(c, "scan", GownFiles)
    /\ UNCHANGED <<package, overlay, seen, pass, retried, mirror>>

\* MaterializeCommentMirror: all sources are read, then lowered in any order up
\* to the first error, then written.
ReadSource(c, f) ==
    /\ pc[c] = "sources" /\ f \in todo[c]
    /\ got' = [got EXCEPT ![c][f] = Content(c, f)]
    /\ GoTo(c, "sources", todo[c] \ {f})
    /\ UNCHANGED <<package, overlay, seen, pass, retried, mirror>>

\* Mutant: the files that can be lowered are written, whatever the others are.
LowerSome(c) ==
    /\ pc[c] = "sources" /\ todo[c] = {}
    /\ GoTo(c, "write", Sources)
    /\ UNCHANGED <<package, overlay, got, seen, pass, retried, mirror>>

Lower(c) ==
    /\ pc[c] = "sources" /\ todo[c] = {}
    /\ \/ \E f \in Sources : got[c][f] = "lower" /\ Finish(c, A!Fault(f, "lower"))
       \/ (\A f \in Sources : got[c][f] # "lower") /\ GoTo(c, "write", Sources)
    /\ UNCHANGED <<package, overlay, got, seen, pass, retried, mirror>>

WriteMirror(c, f) ==
    /\ pc[c] = "write" /\ f \in todo[c]
    /\ mirror' = [mirror EXCEPT ![f] = got[c][f]]
    /\ IF todo[c] = {f} THEN GoTo(c, "scan", GownFiles) ELSE GoTo(c, "write", todo[c] \ {f})
    /\ UNCHANGED <<package, overlay, got, seen, pass, retried>>

\* What the analysis reads: the mirror, if there is one, else .gown sources
\* with their buffers and plain Go files from the disk.
Input(c, f) ==
    IF mode = "comments" THEN mirror[f]
    ELSE IF f \in GoFiles THEN files[f] ELSE Content(c, f)

Take(c, f) ==
    /\ seen' = [seen EXCEPT ![c][f] = Input(c, f)]
    /\ got' = IF mode = "comments" THEN got ELSE [got EXCEPT ![c][f] = Input(c, f)]

\* scanAndClassify, for one file of the map after the other.
Scan(c, f) ==
    /\ pc[c] = "scan" /\ f \in todo[c]
    /\ Take(c, f)
    /\ IF Input(c, f) = "scan" THEN Finish(c, A!Fault(f, "scan"))
       ELSE GoTo(c, "scan", todo[c] \ {f})
    /\ UNCHANGED <<package, overlay, pass, retried, mirror>>

Scanned(c) ==
    /\ pc[c] = "scan" /\ todo[c] = {}
    /\ GoTo(c, "load", GoFiles)
    /\ UNCHANGED <<package, overlay, got, seen, pass, retried, mirror>>

\* packages.Load.
LoadFile(c, f) ==
    /\ pc[c] = "load" /\ f \in todo[c]
    /\ Take(c, f)
    /\ GoTo(c, "load", todo[c] \ {f})
    /\ UNCHANGED <<package, overlay, pass, retried, mirror>>

\* Mutant: the retry is tried again.
RetryForever(c) == TRUE

MayRetry(c) == ~retried[c]

\* loadPackagesWithCacheRetry: the build cache has lost an entry.
CacheMiss(c) ==
    /\ pc[c] = "load" /\ todo[c] = {}
    /\ IF MayRetry(c)
       THEN GoTo(c, "load", GoFiles) /\ retried' = [retried EXCEPT ![c] = TRUE]
       ELSE Finish(c, A!Failed) /\ UNCHANGED retried
    /\ UNCHANGED <<package, overlay, got, seen, pass, mirror>>

\* The toolchain fails, or there is no directory for a new cache.
LoadFails(c) ==
    /\ pc[c] = "load" /\ todo[c] = {}
    /\ Finish(c, A!Failed)
    /\ UNCHANGED <<package, overlay, got, seen, pass, retried, mirror>>

\* The first error of the package is the answer.
Loaded(c) ==
    /\ pc[c] = "load" /\ todo[c] = {}
    /\ \/ \E f \in Sources : seen[c][f] = "type" /\ Finish(c, A!Fault(f, "type"))
       \/ (\A f \in Sources : seen[c][f] # "type") /\ GoTo(c, "passes", {})
    /\ UNCHANGED <<package, overlay, got, seen, pass, retried, mirror>>

\* Mutant: the last pass is left out.
AllButOne == NumPasses - 1

LastPass == NumPasses

\* runCheckerPasses: the first error of the first pass that has one.
RunPass(c) ==
    /\ pc[c] = "passes"
    /\ LET found == {f \in Sources : seen[c][f] = checkerPass(pass[c])}
       IN IF found # {}
          THEN /\ \E f \in found : Finish(c, A!Fault(f, checkerPass(pass[c])))
               /\ UNCHANGED pass
          ELSE IF pass[c] = LastPass
          THEN Finish(c, A!Accepted) /\ UNCHANGED pass
          ELSE GoTo(c, "passes", {}) /\ pass' = [pass EXCEPT ![c] = @ + 1]
    /\ UNCHANGED <<package, overlay, got, seen, retried, mirror>>

\* The process is killed, or the editor closed.
Kill(c) ==
    /\ pc[c] # "idle"
    /\ Finish(c, A!None)
    /\ UNCHANGED <<package, overlay, got, seen, pass, retried, mirror>>

Step(c) ==
    \/ CheckNames(c) \/ Lower(c) \/ Scanned(c)
    \/ \E f \in Sources : ReadSource(c, f) \/ WriteMirror(c, f) \/ Scan(c, f) \/ LoadFile(c, f)
    \/ CacheMiss(c) \/ LoadFails(c) \/ Loaded(c) \/ RunPass(c)

Next == Edit \/ \E c \in Checks : Ask(c) \/ Step(c) \/ Kill(c)

Safety == Init /\ [][Next]_vars

\* A check is a process of its own, and the system lets it run.
Spec == Safety /\ \A c \in Checks : WF_vars(Step(c))
---------------------------------------------------------------------------
(* What a check promises.                                                  *)

\* A check that is not over is open; it analyses only what it has read; the
\* mirror holds no fault that lowering reports.
TypeOK ==
    /\ \A c \in Checks : /\ pc[c] = "idle" <=> answer[c] # A!Open
                         /\ pass[c] \in 1 .. NumPasses
                         /\ todo[c] \subseteq Sources
                         /\ pc[c] = "passes" => \A f \in Sources : seen[c][f] # A!Unread
    /\ \A f \in Files : mirror[f] # "lower"

\* "The mirror is refreshed from the current source" (COMMENT_PLAN.md:28): a
\* check answers for the files of its package as they were when it read them,
\* with the first thing that is wrong with them, as Verdict says.
AnswersForItsFiles == A!Safety

\* A check ends: files are read a bounded number of times, and a lost cache
\* entry is answered by one retry.
EveryCheckEnds == \A c \in Checks : answer[c] = A!Open ~> answer[c] # A!Open
=============================================================================
