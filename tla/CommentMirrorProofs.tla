------------------------- MODULE CommentMirrorProofs -------------------------
(***************************************************************************)
(* What a run of the comment mirror leaves, for any set of base names and  *)
(* texts, any number of changes and of interrupted runs.                   *)
(*                                                                         *)
(* The invariant says how far the run has come: the names it has visited   *)
(* hold what they should, and a name that only the old manifest knows is   *)
(* still to be visited.                                                    *)
(***************************************************************************)
EXTENDS CommentMirror, TLAPS

Writing == phase \in {"write", "fill"}
Written == phase \in {"manifest", "fillManifest", "done"}

\* A run at rest holds nothing.
AtRest == phase = "idle" => managed = {} /\ left = {}

\* Every file of the run is recorded, and a name that is recorded without a
\* file is a Go file that a .gown file replaces.
FilesManaged ==
    /\ DOMAIN files \subseteq managed
    /\ \A n \in managed \ DOMAIN files : n.ext = "go" /\ Gown(n.base) \in DOMAIN files

\* The files that were visited hold what they should.
VisitedCurrent ==
    /\ Writing => left \subseteq DOMAIN files
    /\ Writing => \A n \in DOMAIN files \ left : n \in DOMAIN mirror /\ mirror[n] = files[n]
    /\ Written => \A n \in DOMAIN files : n \in DOMAIN mirror /\ mirror[n] = files[n]

\* The names that only the old manifest knows are visited before anything is
\* written, and from then on the mirror has none of them.
OldVisited ==
    /\ phase = "idle" => DOMAIN mirror \subseteq manifest \cup orphans
    /\ phase = "remove" => DOMAIN mirror \subseteq managed \cup left \cup orphans
    /\ phase = "remove" => left \subseteq manifest
    /\ Writing \/ Written => DOMAIN mirror \subseteq managed \cup orphans
    /\ phase = "done" => manifest = managed

Phases == phase \in {"idle", "remove", "write", "fill", "manifest", "fillManifest", "done"}

Inv == /\ DOMAIN src \subseteq Names
       /\ Phases /\ AtRest /\ FilesManaged /\ VisitedCurrent /\ OldVisited

\* The files of a mirror are recorded; a name without a file is that of the
\* Go file generated from a source.
LEMMA MirrorFilesManaged ==
    ASSUME NEW dir, DOMAIN dir \subseteq Names
    PROVE  /\ DOMAIN MirrorFiles(dir) \subseteq MirrorManaged(dir)
           /\ \A n \in MirrorManaged(dir) \ DOMAIN MirrorFiles(dir) :
                 n.ext = "go" /\ Gown(n.base) \in DOMAIN MirrorFiles(dir)
PROOF
<1>1. DOMAIN MirrorFiles(dir) = DOMAIN dir \cup {Gown(a.base) : a \in Annotated(dir)}
  BY DEF MirrorFiles
<1>2. ASSUME NEW m \in DOMAIN dir, m.ext = "gown"
      PROVE  /\ Go(m.base).ext = "go"
             /\ Gown(Go(m.base).base) = m
  BY <1>2 DEF Go, Gown, Names
<1>. QED
  BY <1>1, <1>2 DEF MirrorManaged

\* A run begins.
LEMMA BeginInv == Inv /\ Begin => Inv'
PROOF
<1>. SUFFICES ASSUME Inv, Begin
              PROVE  Inv'
  OBVIOUS
<1>1. DOMAIN src' \subseteq Names
  BY DEF Inv, Begin
<1>2. Phases' /\ AtRest'
  BY DEF Begin, Phases, AtRest
<1>3. FilesManaged'
  BY MirrorFilesManaged DEF Inv, Begin, FilesManaged
<1>4. VisitedCurrent'
  BY DEF Begin, VisitedCurrent, Writing, Written
<1>5. OldVisited'
  BY DEF Inv, Begin, OldVisited, Writing, Written
<1>. QED
  BY <1>1, <1>2, <1>3, <1>4, <1>5 DEF Inv

\* The files of the run and the names it will record stay as they are while
\* the directory is brought up to date.
SyncStep ==
    RemoveOld \/ RemovedAll \/ Keep \/ Truncate \/ Fill \/ WroteAll \/ CutManifest \/ FillManifest

LEMMA SyncStepInv == Inv /\ SyncStep => Inv'
PROOF
<1>. SUFFICES ASSUME Inv, SyncStep
              PROVE  Inv'
  OBVIOUS
<1>. USE DEF Inv, Phases, AtRest, FilesManaged, VisitedCurrent, OldVisited, Writing, Written
<1>1. CASE RemoveOld
  BY <1>1 DEF RemoveOld, Without
<1>2. CASE RemovedAll
  BY <1>2 DEF RemovedAll
<1>3. CASE Keep
  BY <1>3 DEF Keep, UpToDate, IsNext
<1>4. CASE Truncate
  BY <1>4 DEF Truncate, With, IsNext, run
<1>5. CASE Fill
  BY <1>5 DEF Fill, With, IsNext
<1>6. CASE WroteAll
  BY <1>6 DEF WroteAll, run
<1>7. CASE CutManifest
  BY <1>7 DEF CutManifest, run
<1>8. CASE FillManifest
  BY <1>8 DEF FillManifest, run
<1>. QED
  BY <1>1, <1>2, <1>3, <1>4, <1>5, <1>6, <1>7, <1>8 DEF SyncStep

\* The other steps: the user, the end of a run and its interruption.
LEMMA OtherStepInv == Inv /\ (EditSource \/ Leave \/ Crash) => Inv'
PROOF
<1>. SUFFICES ASSUME Inv, EditSource \/ Leave \/ Crash
              PROVE  Inv'
  OBVIOUS
<1>. USE DEF Inv, Phases, AtRest, FilesManaged, VisitedCurrent, OldVisited, Writing, Written
<1>1. CASE EditSource
  <2>1. DOMAIN src' \subseteq Names
    BY <1>1 DEF EditSource, With, Without
  <2>. QED
    BY <1>1, <2>1 DEF EditSource, run
<1>2. CASE Leave
  BY <1>2 DEF Leave, Empty
<1>3. CASE Crash
  BY <1>3 DEF Crash, Empty
<1>. QED
  BY <1>1, <1>2, <1>3

\* The invariant holds in every state of every behaviour.
THEOREM Invariance == Spec => []Inv
PROOF
<1>1. Init => Inv
  BY DEF Init, Empty, Inv, Phases, AtRest, FilesManaged, VisitedCurrent, OldVisited,
         Writing, Written
<1>2. Inv /\ UNCHANGED vars => Inv'
  BY DEF vars, run, Inv, Phases, AtRest, FilesManaged, VisitedCurrent, OldVisited,
         Writing, Written
<1>3. Inv /\ [Next]_vars => Inv'
  BY <1>2, BeginInv, SyncStepInv, OtherStepInv DEF Next, Sync, SyncStep
<1>. QED
  BY <1>1, <1>3, PTL DEF Spec

\* A completed run has put every file into the mirror as it should be,
\* whatever was there before (syncCommentMirror, writeFileIfChanged).
THEOREM FilesCurrent == Spec => []CheckedFilesCurrent
PROOF
<1>1. Inv => CheckedFilesCurrent
  BY DEF Inv, VisitedCurrent, Written, CheckedFilesCurrent
<1>. QED
  BY <1>1, Invariance, PTL

\* A file of the mirror that no manifest names was left by an interrupted run.
THEOREM OrphansOnly == Spec => []LeftoversAreOrphans
PROOF
<1>1. Inv => LeftoversAreOrphans
  BY DEF Inv, Phases, AtRest, OldVisited, Writing, Written, LeftoversAreOrphans
<1>. QED
  BY <1>1, Invariance, PTL
\* Only an interrupted run leaves an orphan.
Unorphaned == crashes \in Nat /\ (crashes = 0 => orphans = {})

LEMMA UnorphanedInvariance == Spec => []Unorphaned
PROOF
<1>1. Init => Unorphaned
  BY DEF Init, Unorphaned
<1>2. Unorphaned /\ [Next]_vars => Unorphaned'
  BY DEF Unorphaned, Next, Sync, vars, run, EditSource, Crash, Begin, RemoveOld, RemovedAll,
         Keep, Truncate, Fill, WroteAll, CutManifest, FillManifest, Leave
<1>. QED
  BY <1>1, <1>2, PTL DEF Spec

\* As long as no run was interrupted, the checker finds in the mirror what the
\* sources say and nothing else (MaterializeCommentMirror, syncCommentMirror).
THEOREM Refreshed == Spec => []RefreshedUninterrupted
PROOF
<1>1. Inv /\ Unorphaned => RefreshedUninterrupted
  <2>. SUFFICES ASSUME Inv, Unorphaned, crashes = 0, phase = "done"
                PROVE  Loaded(mirror) = Loaded(files)
    BY DEF MirrorRefreshed, RefreshedUninterrupted
  <2>1. DOMAIN mirror \subseteq managed
    BY DEF Inv, Unorphaned, OldVisited, Written
  <2>2. \A n \in DOMAIN files : n \in DOMAIN mirror /\ mirror[n] = files[n]
    BY DEF Inv, VisitedCurrent, Written
  <2>3. \A n \in DOMAIN mirror \ DOMAIN files :
           n.ext = "go" /\ Gown(n.base) \in DOMAIN files
    BY <2>1 DEF Inv, FilesManaged
  <2>4. \A m : Gown(m.base) \in DOMAIN mirror => Gown(m.base) \in DOMAIN files
    BY <2>3 DEF Gown
  <2>5. {m \in DOMAIN mirror : m.ext = "gown" \/ Gown(m.base) \notin DOMAIN mirror}
        = {m \in DOMAIN files : m.ext = "gown" \/ Gown(m.base) \notin DOMAIN files}
    BY <2>2, <2>3, <2>4
  <2>. QED
    BY <2>2, <2>5 DEF Loaded
<1>. QED
  BY <1>1, Invariance, UnorphanedInvariance, PTL

---------------------------------------------------------------------------
(* Types: contents are what a source or a lowered form can be, and the one *)
(* file that is cut off is the one the run is writing.                     *)

\* What a source says about its name: only Go files carry comments.
SourcesAre == \A n \in DOMAIN src : src[n] \in SourceContent(n)

Whole(dir) == \A n \in DOMAIN dir : dir[n] \in Content /\ dir[n].kind # "cut"

OnlyNextIsCut ==
    crashes = 0 => \A n \in DOMAIN mirror :
        mirror[n].kind = "cut" => phase = "fill" /\ IsNext(n)

Types ==
    /\ DOMAIN src \subseteq Names /\ SourcesAre
    /\ IsDirectory(mirror) /\ DOMAIN files \subseteq Names /\ Whole(files)
    /\ manifest \subseteq Names /\ managed \subseteq Names /\ left \subseteq Names
    /\ orphans \subseteq Names
    /\ Phases
    /\ phase \in {"write", "fill"} => left \subseteq DOMAIN files
    /\ edits \in 0 .. MaxEdits /\ crashes \in 0 .. MaxCrashes
    /\ OnlyNextIsCut

\* The files of a run are whole, the lowered forms too, and have the names of
\* sources (BuildCommentMirrorFiles).
LEMMA MirrorFilesTyped ==
    ASSUME NEW dir, DOMAIN dir \subseteq Names,
           \A n \in DOMAIN dir : dir[n] \in SourceContent(n)
    PROVE  /\ DOMAIN MirrorFiles(dir) \subseteq Names /\ Whole(MirrorFiles(dir))
           /\ MirrorManaged(dir) \subseteq Names
PROOF
<1>1. \A n \in DOMAIN dir : dir[n] \in Content /\ dir[n].kind # "cut"
  BY DEF SourceContent, Content, Kinds
<1>2. DOMAIN MirrorFiles(dir) = DOMAIN dir \cup {Gown(a.base) : a \in Annotated(dir)}
  BY DEF MirrorFiles
<1>3. \A n \in Names : Gown(n.base) \in Names /\ Go(n.base) \in Names
  BY DEF Names, Gown, Go
<1>4. DOMAIN MirrorFiles(dir) \subseteq Names
  BY <1>2, <1>3 DEF Annotated
<1>5. \A a \in Annotated(dir) : Go(Gown(a.base).base) = a
  BY DEF Annotated, SourceContent, Gown, Go, Names
<1>6. ASSUME NEW n \in DOMAIN MirrorFiles(dir)
      PROVE  MirrorFiles(dir)[n] \in Content /\ MirrorFiles(dir)[n].kind # "cut"
  <2>1. CASE n \in DOMAIN dir
    <3>1. MirrorFiles(dir)[n] = dir[n]
      BY <1>6, <2>1 DEF MirrorFiles
    <3>. QED
      BY <1>1, <2>1, <3>1
  <2>2. CASE n \notin DOMAIN dir
    <3>1. PICK a \in Annotated(dir) : n = Gown(a.base)
      BY <1>2, <2>2
    <3>2. MirrorFiles(dir)[n] = [kind |-> "lowered", text |-> dir[a].text]
      BY <1>5, <1>6, <2>2, <3>1 DEF MirrorFiles
    <3>3. dir[a].text \in Texts
      BY <1>1 DEF Annotated, Content
    <3>. QED
      BY <3>2, <3>3 DEF Content, Kinds
  <2>. QED
    BY <2>1, <2>2
<1>7. MirrorManaged(dir) \subseteq Names
  BY <1>3, <1>4 DEF MirrorManaged
<1>. QED
  BY <1>4, <1>6, <1>7 DEF Whole

\* There is one next file.
LEMMA OneIsNext ==
    ASSUME left \subseteq Names, NEW m, NEW n, IsNext(m), IsNext(n)
    PROVE  m = n
PROOF
<1>1. m.base \in Int /\ n.base \in Int
  <2>1. m \in Names /\ n \in Names
    BY DEF IsNext
  <2>2. m.base \in Bases /\ n.base \in Bases
    BY <2>1 DEF Names
  <2>. QED
    <3>1. \A b \in Bases : b \in Nat
      BY BasesAssumption
    <3>. QED
      BY <2>2, <3>1
<1>2. m # n => Precedes(m, n) /\ Precedes(n, m)
  BY DEF IsNext
<1>3. ~(Precedes(m, n) /\ Precedes(n, m))
  BY <1>1 DEF Precedes
<1>. QED
  BY <1>2, <1>3

\* Every step keeps the types.
LEMMA TypesStep == Types /\ [Next]_vars => Types'
PROOF
<1>. SUFFICES ASSUME Types, [Next]_vars
              PROVE  Types'
  OBVIOUS
<1>. USE DEF Types, IsDirectory, OnlyNextIsCut, Phases
<1>1. CASE EditSource
  <2>1. SourcesAre' /\ DOMAIN src' \subseteq Names
    BY <1>1 DEF EditSource, With, Without, SourcesAre
  <2>2. edits' \in 0 .. MaxEdits
    BY <1>1, BoundsAssumption DEF EditSource
  <2>. QED
    BY <1>1, <2>1, <2>2 DEF EditSource, run, IsNext
<1>2. CASE Crash
  <2>1. crashes' \in 0 .. MaxCrashes /\ crashes' # 0
    BY <1>2, BoundsAssumption DEF Crash
  <2>. QED
    BY <1>2, <2>1 DEF Crash, Empty, SourcesAre, Whole
<1>3. CASE Begin
  <2>1. DOMAIN files' \subseteq Names /\ Whole(files)' /\ managed' \subseteq Names
    BY <1>3, MirrorFilesTyped DEF Begin, SourcesAre, Whole
  <2>. QED
    BY <1>3, <2>1 DEF Begin, SourcesAre
<1>4. CASE RemoveOld
  BY <1>4 DEF RemoveOld, Without, SourcesAre, Whole
<1>5. CASE RemovedAll
  BY <1>5 DEF RemovedAll, SourcesAre, Whole
<1>6. CASE Keep
  BY <1>6 DEF Keep, SourcesAre, Whole
<1>7. CASE Truncate
  <2>1. PICK n \in left : IsNext(n) /\ mirror' = With(mirror, n, Cut(n))
    BY <1>7 DEF Truncate
  <2>2. n \in DOMAIN files /\ n \in Names
    BY <1>7 DEF Truncate
  <2>3. Cut(n) \in Content
    BY <2>2 DEF Whole, Cut, Content, Kinds
  <2>4. IsDirectory(mirror)'
    BY <2>1, <2>2, <2>3 DEF With
  <2>5. OnlyNextIsCut'
    BY <1>7, <2>1 DEF Truncate, With, IsNext, run
  <2>. QED
    BY <1>7, <2>4, <2>5 DEF Truncate, run, SourcesAre, Whole
<1>8. CASE Fill
  <2>1. PICK n \in left : IsNext(n) /\ mirror' = With(mirror, n, files[n])
    BY <1>8 DEF Fill
  <2>2. n \in DOMAIN files /\ n \in Names /\ files[n] \in Content /\ files[n].kind # "cut"
    BY <1>8 DEF Fill, Whole
  <2>3. IsDirectory(mirror)'
    BY <2>1, <2>2 DEF With
  <2>4. OnlyNextIsCut'
    BY <1>8, <2>1, <2>2, OneIsNext DEF Fill, With
  <2>. QED
    BY <1>8, <2>3, <2>4 DEF Fill, SourcesAre, Whole
<1>9. CASE WroteAll
  BY <1>9 DEF WroteAll, run, SourcesAre, Whole
<1>10. CASE CutManifest
  BY <1>10 DEF CutManifest, run, SourcesAre, Whole
<1>11. CASE FillManifest
  BY <1>11 DEF FillManifest, run, SourcesAre, Whole
<1>12. CASE Leave
  BY <1>12 DEF Leave, Empty, SourcesAre, Whole
<1>13. CASE UNCHANGED vars
  BY <1>13 DEF vars, run, SourcesAre, Whole, IsNext
<1>. QED
  BY <1>1, <1>2, <1>3, <1>4, <1>5, <1>6, <1>7, <1>8, <1>9, <1>10, <1>11, <1>12, <1>13
     DEF Next, Sync

\* The state of the mirror and of a run has its types, and a file of the mirror
\* is cut off only while it is written or after an interrupted run.
THEOREM TypeCorrect == Spec => []TypeOK
PROOF
<1>1. Init => Types
  BY BoundsAssumption
     DEF Init, Empty, Types, SourcesAre, IsDirectory, Whole, Phases, OnlyNextIsCut
<1>2. Types => TypeOK
  <2>. SUFFICES ASSUME Types
                PROVE  TypeOK
    OBVIOUS
  <2>1. IsDirectory(src)
    BY DEF Types, SourcesAre, SourceContent, IsDirectory, Content, Kinds
  <2>2. IsDirectory(files)
    BY DEF Types, Whole, IsDirectory
  <2>3. \A n \in DOMAIN mirror : mirror[n].kind = "cut" => phase = "fill" \/ crashes > 0
    BY BoundsAssumption DEF Types, OnlyNextIsCut
  <2>. QED
    BY <2>1, <2>2, <2>3 DEF Types, TypeOK, Phases
<1>. QED
  BY <1>1, <1>2, TypesStep, PTL DEF Spec
=============================================================================
