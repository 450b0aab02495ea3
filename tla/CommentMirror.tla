--------------------------- MODULE CommentMirror ---------------------------
(***************************************************************************)
(* The comment mirror (comment_mirror.go).  When Go files of a package     *)
(* carry //gown: comments, every analysis brings the directory .gown up to *)
(* date with the sources and then checks that directory.  A run can stop   *)
(* at any step (a kill, an I/O error that is returned), and a file being   *)
(* written is then cut off.  Sources change at any time.                   *)
(*                                                                         *)
(* A file name is a base and an extension.  A source is its text, and a Go *)
(* source may be annotated.  The lowered form of an annotated text is a    *)
(* text of its own kind.  An editor overlay takes the place of the file on *)
(* disk, so src is what the run sees of either.                            *)
(***************************************************************************)
EXTENDS Integers

CONSTANTS Bases,        \* base names, numbered in their sorting order
          Texts,        \* the texts of sources
          Malformed,    \* those of them whose comments cannot be lowered
          MaxEdits,     \* bound on the changes of sources
          MaxCrashes    \* bound on the interrupted runs

ASSUME BasesAssumption == Bases \subseteq Nat
ASSUME BoundsAssumption == MaxEdits \in Nat /\ MaxCrashes \in Nat

Names   == [base : Bases, ext : {"go", "gown"}]
Kinds   == {"go", "annotated", "gown", "lowered", "cut"}
Content == [kind : Kinds, text : Texts]

VARIABLES src,        \* the package: its source files
          mirror,     \* the files in .gown
          manifest,   \* the names recorded in .gown/.gown-manifest
          phase,      \* what the run is doing
          files,      \* the files the run will put into the mirror
          managed,    \* the names it will record
          left,       \* the names its present loop has yet to visit
          orphans,    \* what interrupted runs may have left unrecorded
          edits, crashes

vars == <<src, mirror, manifest, phase, files, managed, left, orphans, edits, crashes>>
run  == <<files, managed, left>>

Empty == [n \in {} |-> 0]

Go(b)    == [base |-> b, ext |-> "go"]
Gown(b)  == [base |-> b, ext |-> "gown"]

\* What a source with that name may hold.
SourceContent(n) ==
    [kind : IF n.ext = "go" THEN {"go", "annotated"} ELSE {"gown"}, text : Texts]

Without(dir, n) == [m \in DOMAIN dir \ {n} |-> dir[m]]
With(dir, n, c) == [m \in DOMAIN dir \cup {n} |-> IF m = n THEN c ELSE dir[m]]

\* sort.Strings: "a.go" before "a.gown", then the next base.
Precedes(m, n) == m.base < n.base \/ (m.base = n.base /\ m.ext = "go" /\ n.ext = "gown")

---------------------------------------------------------------------------
(* The files of the mirror, from the sources.                              *)

Annotated(dir) == {n \in DOMAIN dir : dir[n].kind = "annotated"}

\* validateNoGoGownBasenameCollisions.
Collision(dir) == \E b \in Bases : Go(b) \in DOMAIN dir /\ Gown(b) \in DOMAIN dir

LoweringFails(dir) == \E n \in Annotated(dir) : dir[n].text \in Malformed

\* Each source is copied; an annotated one comes with its lowered form.
MirrorFiles(dir) ==
    [n \in DOMAIN dir \cup {Gown(a.base) : a \in Annotated(dir)} |->
        IF n \in DOMAIN dir THEN dir[n]
        ELSE [kind |-> "lowered", text |-> dir[Go(n.base)].text]]

\* Mutant: only the sources are recorded, not their lowered forms.
ManagedSources(dir) == DOMAIN dir

\* The Go file generated from a .gown file is recorded with it.
MirrorManaged(dir) ==
    DOMAIN MirrorFiles(dir) \cup {Go(n.base) : n \in {m \in DOMAIN dir : m.ext = "gown"}}

---------------------------------------------------------------------------
Init ==
    /\ src \in UNION {[S -> UNION {SourceContent(n) : n \in S}] : S \in SUBSET Names}
    /\ \A n \in DOMAIN src : src[n] \in SourceContent(n)
    /\ mirror = Empty
    /\ manifest = {}
    /\ phase = "idle"
    /\ files = Empty /\ managed = {} /\ left = {} /\ orphans = {}
    /\ edits = 0 /\ crashes = 0

\* The user writes, changes or removes a source.
EditSource ==
    /\ edits < MaxEdits
    /\ edits' = edits + 1
    /\ \E n \in Names :
          \/ \E c \in SourceContent(n) : src' = With(src, n, c) /\ src' # src
          \/ n \in DOMAIN src /\ src' = Without(src, n)
    /\ UNCHANGED <<mirror, orphans, manifest, phase, run, crashes>>

\* MaterializeCommentMirror reads the sources; syncCommentMirror then reads
\* the manifest.  Without annotated files the mirror is left as it is.
Begin ==
    /\ phase = "idle"
    /\ ~Collision(src) /\ Annotated(src) # {} /\ ~LoweringFails(src)
    /\ files' = MirrorFiles(src)
    /\ managed' = MirrorManaged(src)
    /\ left' = manifest \ managed'
    /\ phase' = "remove"
    /\ UNCHANGED <<src, orphans, mirror, manifest, edits, crashes>>

\* The names of the old manifest are visited in the order of a Go map.
RemoveOld ==
    /\ phase = "remove"
    /\ \E n \in left :
          /\ mirror' = Without(mirror, n)
          /\ left' = left \ {n}
    /\ UNCHANGED <<src, orphans, manifest, phase, files, managed, edits, crashes>>

RemovedAll ==
    /\ phase = "remove" /\ left = {}
    /\ left' = DOMAIN files
    /\ phase' = "write"
    /\ UNCHANGED <<src, orphans, mirror, manifest, files, managed, edits, crashes>>

\* The files are visited in sorting order.
IsNext(n) == n \in left /\ \A m \in left : m = n \/ Precedes(n, m)

\* Mutant: a file that exists is taken to be up to date.
FileExists(n) == n \in DOMAIN mirror

\* writeFileIfChanged compares the contents.
UpToDate(n) == n \in DOMAIN mirror /\ mirror[n] = files[n]

Keep ==
    /\ phase = "write"
    /\ \E n \in left : IsNext(n) /\ UpToDate(n) /\ left' = left \ {n}
    /\ UNCHANGED <<src, mirror, manifest, phase, files, managed, orphans, edits, crashes>>

Cut(n) == [kind |-> "cut", text |-> files[n].text]

\* os.WriteFile truncates the file, and then fills it.
Truncate ==
    /\ phase = "write"
    /\ \E n \in left : IsNext(n) /\ ~UpToDate(n) /\ mirror' = With(mirror, n, Cut(n))
    /\ phase' = "fill"
    /\ UNCHANGED <<src, manifest, run, orphans, edits, crashes>>

\* Mutant: a failed write goes unnoticed.
FillIgnored ==
    /\ phase = "fill"
    /\ \E n \in left : IsNext(n) /\ left' = left \ {n}
    /\ phase' = "write"
    /\ UNCHANGED <<src, mirror, manifest, files, managed, orphans, edits, crashes>>

Fill ==
    /\ phase = "fill"
    /\ \E n \in left :
          IsNext(n) /\ mirror' = With(mirror, n, files[n]) /\ left' = left \ {n}
    /\ phase' = "write"
    /\ UNCHANGED <<src, manifest, files, managed, orphans, edits, crashes>>

WroteAll ==
    /\ phase = "write" /\ left = {}
    /\ phase' = IF manifest = managed THEN "done" ELSE "manifest"
    /\ UNCHANGED <<src, orphans, mirror, manifest, run, edits, crashes>>

\* Of a manifest that is being written only the first lines may be there.
CutManifest ==
    /\ phase = "manifest"
    /\ \E n \in managed : manifest' = {m \in managed : Precedes(m, n)}
    /\ phase' = "fillManifest"
    /\ UNCHANGED <<src, orphans, mirror, run, edits, crashes>>

FillManifest ==
    /\ phase = "fillManifest"
    /\ manifest' = managed
    /\ phase' = "done"
    /\ orphans' = orphans \ managed
    /\ UNCHANGED <<src, mirror, run, edits, crashes>>

\* The mirror has been checked; the command is over.
Leave ==
    /\ phase = "done"
    /\ phase' = "idle" /\ files' = Empty /\ managed' = {} /\ left' = {}
    /\ UNCHANGED <<src, orphans, mirror, manifest, edits, crashes>>

Crash ==
    /\ phase \notin {"idle", "done"} /\ crashes < MaxCrashes
    /\ crashes' = crashes + 1
    /\ orphans' = orphans \cup (managed \ manifest)
    /\ phase' = "idle" /\ files' = Empty /\ managed' = {} /\ left' = {}
    /\ UNCHANGED <<src, mirror, manifest, edits>>

Sync == Begin \/ RemoveOld \/ RemovedAll \/ Keep \/ Truncate \/ Fill \/ WroteAll
        \/ CutManifest \/ FillManifest \/ Leave

Next == EditSource \/ Crash \/ Sync

Spec == Init /\ [][Next]_vars
---------------------------------------------------------------------------
(* What the mirror promises.                                               *)

IsDirectory(d) ==
    DOMAIN d \subseteq Names /\ \A n \in DOMAIN d : d[n] \in Content

\* Directories hold contents under names, and a file is cut off only while it
\* is written or after a run was interrupted.
TypeOK ==
    /\ IsDirectory(src) /\ IsDirectory(mirror) /\ IsDirectory(files)
    /\ manifest \subseteq Names /\ managed \subseteq Names /\ left \subseteq Names
    /\ orphans \subseteq Names
    /\ phase \in {"idle", "remove", "write", "fill", "manifest", "fillManifest", "done"}
    /\ edits \in 0 .. MaxEdits /\ crashes \in 0 .. MaxCrashes
    /\ \A n \in DOMAIN mirror : mirror[n].kind = "cut" => phase = "fill" \/ crashes > 0

\* What the checker finds in a directory: each .gown file, and each Go file
\* that no .gown file of the same base replaces (AnalyzeWithOptions overlays
\* the Go file with the erased text of the .gown file).
Loaded(dir) ==
    [n \in {m \in DOMAIN dir : m.ext = "gown" \/ Gown(m.base) \notin DOMAIN dir} |-> dir[n]]

\* Whatever interrupted runs left behind, a run that completes has put every
\* source and every lowered form into the mirror as it read them
\* (writeFileIfChanged repairs files cut off before).
CheckedFilesCurrent ==
    phase = "done" =>
        \A n \in DOMAIN files : n \in DOMAIN mirror /\ mirror[n] = files[n]

\* A file of the mirror is named by the manifest, or the run that wrote it is
\* under way or was interrupted before it wrote the manifest.
LeftoversAreOrphans == DOMAIN mirror \subseteq manifest \cup managed \cup orphans

\* "The mirror is refreshed from the current source and old Gown-managed mirror
\* files are removed by manifest" (COMMENT_PLAN.md:28): what is checked is what
\* the sources say, and nothing else.
MirrorRefreshed == phase = "done" => Loaded(mirror) = Loaded(files)

\* It is so as long as no run was interrupted: what disappears from the sources
\* disappears from the mirror (syncCommentMirror).
RefreshedUninterrupted == crashes = 0 => MirrorRefreshed
=============================================================================
