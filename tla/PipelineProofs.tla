--------------------------- MODULE PipelineProofs ---------------------------
(***************************************************************************)
(* Proofs about Pipeline: the detailed check implements Verdict, as long   *)
(* as checks of a package with comments do not overlap.                    *)
(*                                                                         *)
(* The inductive invariant says for each place of a check which faults can *)
(* still be in what it has read: behind the n-th stage only those of later *)
(* stages, From(n + 1).  In a package with comments it also says that the  *)
(* mirror holds what the check has read, from the last file written until  *)
(* the answer.                                                             *)
(***************************************************************************)
EXTENDS Pipeline, TLAPS

From(n) == {Stages[i] : i \in n .. 16}
Upto(n) == {A!Ok, A!Unread} \cup From(n)

(***************************************************************************)
(* Stages.                                                                 *)
(***************************************************************************)

LEMMA StageFacts ==
    /\ DOMAIN Stages = 1 .. 16
    /\ Len(Stages) = 16
    /\ Stages[1] = "collision" /\ Stages[2] = "lower" /\ Stages[3] = "scan" /\ Stages[4] = "type"
BY DEF Stages

LEMMA Distinct ==
    ASSUME NEW i \in 1 .. 16, NEW j \in 1 .. 16, Stages[i] = Stages[j]
    PROVE  i = j
BY DEF Stages

LEMMA NotValues ==
    ASSUME NEW i \in 1 .. 16
    PROVE  Stages[i] \notin {"ok", "unread", "saved"}
BY DEF Stages

LEMMA KindsAre == A!Kinds = From(1)
BY StageFacts DEF A!Kinds, From

\* What is read at the n-th stage or later has no fault of an earlier one.
LEMMA NotBefore ==
    ASSUME NEW n \in 1 .. 16, NEW x \in Upto(n)
    PROVE  ~A!Before(x, Stages[n])
<1>1. SUFFICES ASSUME NEW i \in 1 .. 16, NEW j \in 1 .. 16, Stages[i] = x,
                      Stages[j] = Stages[n], i < j
               PROVE  FALSE
  BY StageFacts DEF A!Before
<1>2. j = n
  BY <1>1, Distinct
<1>3. CASE x \in {A!Ok, A!Unread}
  BY <1>1, <1>3, NotValues DEF A!Ok, A!Unread
<1>4. CASE x \in From(n)
  <2>1. PICK m \in n .. 16 : x = Stages[m]
    BY <1>4 DEF From
  <2>2. m \in 1 .. 16
    BY <2>1
  <2>3. m = i
    BY <1>1, <2>1, <2>2, Distinct
  <2> QED
    BY <1>1, <1>2, <2>1, <2>3
<1> QED
  BY <1>3, <1>4 DEF Upto

LEMMA NextStage ==
    ASSUME NEW n \in 1 .. 15, NEW x \in Upto(n), x # Stages[n]
    PROVE  x \in Upto(n + 1)
BY DEF Upto, From

LEMMA LastStage ==
    ASSUME NEW x \in Upto(16), x # Stages[16], x # A!Unread
    PROVE  x = A!Ok
BY DEF Upto, From

LEMMA Weaken ==
    ASSUME NEW m \in 1 .. 16, NEW n \in 1 .. 16, n <= m, NEW x \in Upto(m)
    PROVE  x \in Upto(n)
BY DEF Upto, From

(***************************************************************************)
(* What files contain.                                                     *)
(***************************************************************************)

LEMMA ContentsUpto ==
    /\ \A m, f : ContentsOf(m, f) \subseteq Upto(1)
    /\ \A m : \A f \in Sources : ContentsOf(m, f) \subseteq Upto(2) \ {A!Unread}
    /\ \A f \in Sources : ContentsOf("gown", f) \subseteq Upto(3) \ {A!Unread}
    /\ \A m : \A f \in GoFiles : ContentsOf(m, f) \subseteq Upto(4) \ {A!Unread}
    /\ \A m : ContentsOf(m, Listing) \subseteq {A!Ok, "collision"}
<1>1. Contents \subseteq Upto(3) \ {A!Unread}
  BY ContentsAssumption, StageFacts, NotValues DEF Upto, From, A!Ok, A!Unread
<1>2. Upto(4) \subseteq Upto(3) /\ Upto(3) \subseteq Upto(2) /\ Upto(2) \subseteq Upto(1)
  BY DEF Upto, From
<1>3. {A!Ok, "collision", "lower"} \subseteq Upto(1)
  BY StageFacts DEF Upto, From
<1>4. {A!Ok, "lower"} \subseteq Upto(2) \ {A!Unread}
  BY StageFacts DEF Upto, From, A!Ok, A!Unread
<1>5. \A x \in Contents \ {"scan"} : x \in Upto(4) \ {A!Unread}
  BY <1>1, NextStage, StageFacts
<1>6. Listing \notin Sources /\ GoFiles \subseteq Sources
  BY FilesAssumption DEF Sources
<1> QED
  BY <1>1, <1>2, <1>3, <1>4, <1>5, <1>6 DEF ContentsOf

(***************************************************************************)
(* The invariant.                                                          *)
(***************************************************************************)

PlacesOfCheck == {"idle", "names", "sources", "write", "scan", "load", "passes"}

Lowered == {"write", "scan", "load", "passes"}
Analysing == {"scan", "load", "passes"}

Faults == {A!Fault(f, k) : f \in Files, k \in A!Kinds}

Types ==
    /\ mode \in {"gown", "comments"}
    /\ files \in [Files -> Upto(1)]
    /\ \A f \in Files : files[f] \in ContentsOf(mode, f)
    /\ overlay \in [Checks -> [Files -> Contents \cup {Saved}]]
    /\ answer \in [Checks -> {A!None, A!Open, A!Accepted, A!Failed} \cup Faults]
    /\ pc \in [Checks -> PlacesOfCheck]
    /\ todo \in [Checks -> SUBSET Sources]
    /\ got \in [Checks -> [Files -> Upto(1)]]
    /\ seen \in [Checks -> [Files -> Upto(1)]]
    /\ pass \in [Checks -> 1 .. 12]
    /\ retried \in [Checks -> BOOLEAN]
    /\ mirror \in [Files -> Upto(3)]

\* An editor has only files open that have such contents.
OverlaysFit ==
    \A c \in Checks : /\ overlay[c][Listing] = Saved
                      /\ \A f \in GoFiles : overlay[c][f] # "scan"

OpenWhileRunning == \A c \in Checks : pc[c] = "idle" <=> answer[c] # A!Open

\* Checks of a package with comments do not overlap.
OneAtATime ==
    mode = "comments" =>
        \A c, d \in Checks : pc[c] # "idle" /\ pc[d] # "idle" => c = d

\* The faults that are left in what a check has read.
Read(c) ==
    /\ pc[c] = "names" => got[c] = NothingRead
    /\ pc[c] \notin {"idle", "names"} => got[c][Listing] = A!Ok
    /\ pc[c] \in {"sources", "write"} => mode = "comments"
    /\ pc[c] \notin {"idle", "passes"} => pass[c] = 1
    /\ pc[c] = "load" => todo[c] \subseteq GoFiles
    /\ pc[c] = "sources" =>
          \A f \in Sources : /\ got[c][f] \in Upto(2)
                            /\ (f \in GoFiles => got[c][f] \in Upto(4))
                            /\ (f \notin todo[c] => got[c][f] # A!Unread)
    /\ pc[c] \in Lowered =>
          \A f \in Sources : /\ got[c][f] \in Upto(3)
                            /\ (f \in GoFiles => got[c][f] \in Upto(4))
                            /\ (mode = "comments" => got[c][f] # A!Unread)
    /\ pc[c] = "scan" => \A f \in GownFiles \ todo[c] : got[c][f] \in Upto(4)
    /\ pc[c] \in {"load", "passes"} => \A f \in Sources : got[c][f] \in Upto(4)
    /\ pc[c] = "passes" => \A f \in Sources : got[c][f] \in Upto(4 + pass[c])

\* What a check analyses is what it has read.
Seen(c) ==
    /\ pc[c] \in {"names", "sources", "write"} => seen[c] = NothingRead
    /\ pc[c] # "idle" => \A f \in Sources : \/ seen[c][f] = got[c][f]
                                           \/ (seen[c][f] = A!Unread /\ mode = "comments")
    /\ pc[c] = "scan" => \A f \in GownFiles \ todo[c] : seen[c][f] # A!Unread
    /\ pc[c] \in {"load", "passes"} => \A f \in GownFiles : seen[c][f] # A!Unread
    /\ pc[c] = "load" => \A f \in GoFiles \ todo[c] : seen[c][f] # A!Unread
    /\ pc[c] = "passes" => \A f \in Sources : seen[c][f] # A!Unread

\* The mirror holds what the check that wrote it has read.
Mirrored(c) ==
    mode = "comments" =>
        /\ pc[c] = "write" => \A f \in Sources \ todo[c] : mirror[f] = got[c][f]
        /\ pc[c] \in Analysing => \A f \in Sources : mirror[f] = got[c][f]

Inv == /\ Types /\ OverlaysFit /\ OpenWhileRunning /\ OneAtATime
       /\ \A c \in Checks : Read(c) /\ Seen(c) /\ Mirrored(c)

LEMMA InitInv == Init => Inv
<1> SUFFICES ASSUME Init PROVE Inv
  OBVIOUS
<1>1. Types
  <2>1. \A f \in Files : files[f] \in Upto(1)
    BY ContentsUpto DEF Init
  <2> QED
    BY <2>1 DEF Init, Types, PlacesOfCheck, NothingRead, Upto, A!None
<1>2. OverlaysFit
  BY FilesAssumption DEF Init, OverlaysFit, Saved, Sources
<1>3. OpenWhileRunning
  BY DEF Init, OpenWhileRunning, A!None, A!Open
<1>4. OneAtATime
  BY DEF Init, OneAtATime
<1>5. ASSUME NEW c \in Checks PROVE Read(c) /\ Seen(c) /\ Mirrored(c)
  BY DEF Init, Read, Seen, Mirrored, Lowered, Analysing
<1> QED
  BY <1>1, <1>2, <1>3, <1>4, <1>5 DEF Inv

\* Verdict reads the same as the check, which in a package of .gown sources
\* takes plain Go files from the disk.
LEMMA ContentIs ==
    ASSUME Inv, NEW c \in Checks, NEW f \in Files
    PROVE  /\ f = Listing \/ mode = "comments" => Content(c, f) = A!Content(c, f)
           /\ mode = "gown" => Input(c, f) = A!Content(c, f)
<1>1. buffers[c][f] = IF mode = "gown" /\ f \in GoFiles THEN Saved ELSE overlay[c][f]
  BY DEF buffers
<1>2. Listing \notin GoFiles
  BY FilesAssumption DEF Sources
<1> QED
  BY <1>1, <1>2 DEF Content, Input, A!Content, Saved, A!Saved

\* The buffers that count change only with the overlay.
LEMMA SameBuffers ==
    ASSUME UNCHANGED <<mode, overlay>>
    PROVE  UNCHANGED buffers
BY DEF buffers

\* What a check finds in a file now.
LEMMA ContentFits ==
    ASSUME Inv, NEW c \in Checks, NEW f \in Files
    PROVE  /\ A!Content(c, f) \in Upto(1) \ {A!Unread}
           /\ f = Listing => A!Content(c, f) \in {A!Ok, "collision"}
           /\ f \in Sources => A!Content(c, f) \in Upto(2)
           /\ f \in Sources /\ mode = "gown" => A!Content(c, f) \in Upto(3)
           /\ f \in GoFiles => A!Content(c, f) \in Upto(4)
<1>1. A!Content(c, f) \in ContentsOf(mode, f)
  <2>1. files[f] \in ContentsOf(mode, f)
    BY DEF Inv, Types
  <2>2. overlay[c][f] \in Contents \cup {Saved}
    BY DEF Inv, Types
  <2>3. overlay[c][f] # Saved => f # Listing /\ (f \in GoFiles => overlay[c][f] # "scan")
    BY DEF Inv, OverlaysFit
  <2>4. A!Content(c, f) \in {files[f], overlay[c][f]} \ {Saved} \/ A!Content(c, f) = files[f]
    BY DEF A!Content, A!Saved, Saved, buffers
  <2> QED
    BY <2>1, <2>2, <2>3, <2>4 DEF ContentsOf
<1>2. f \in Sources \/ f = Listing
  BY DEF Sources
<1>3. ContentsOf(mode, Listing) \subseteq Upto(1) \ {A!Unread}
  BY ContentsUpto, StageFacts DEF A!Ok, A!Unread
<1>4. Upto(2) \subseteq Upto(1)
  BY DEF Upto, From
<1> QED
  BY <1>1, <1>2, <1>3, <1>4, ContentsUpto

\* A check is not disturbed by what changes nothing of its own.
LEMMA Stays ==
    ASSUME NEW d \in Checks, Read(d), Seen(d), Mirrored(d),
           pc'[d] = pc[d], todo'[d] = todo[d], got'[d] = got[d], seen'[d] = seen[d],
           pass'[d] = pass[d], mode' = mode,
           mirror' = mirror \/ pc[d] = "idle" \/ mode # "comments"
    PROVE  Read(d)' /\ Seen(d)' /\ Mirrored(d)'
<1>1. Read(d)'
  BY DEF Read, Lowered
<1>2. Seen(d)'
  BY DEF Seen
<1>3. Mirrored(d)'
  BY DEF Mirrored, Analysing
<1> QED
  BY <1>1, <1>2, <1>3

\* What the steps of a check leave alone.
Others(c) ==
    \A d \in Checks \ {c} : /\ pc'[d] = pc[d] /\ todo'[d] = todo[d] /\ got'[d] = got[d]
                            /\ seen'[d] = seen[d] /\ pass'[d] = pass[d]

\* Enough for the invariant after a step of a check that was running.
LEMMA OneStep ==
    ASSUME Inv, NEW c \in Checks, pc[c] # "idle", Others(c), UNCHANGED <<package, overlay>>,
           Types', OpenWhileRunning', mirror' = mirror \/ pc[c] = "write",
           Read(c)', Seen(c)', Mirrored(c)'
    PROVE  Inv'
<1>1. OverlaysFit'
  BY DEF Inv, OverlaysFit
<1>2. OneAtATime'
  <2> SUFFICES ASSUME mode = "comments", NEW d \in Checks, NEW e \in Checks,
                      pc'[d] # "idle", pc'[e] # "idle"
               PROVE  d = e
    BY DEF OneAtATime, package
  <2>1. pc[d] # "idle" /\ pc[e] # "idle"
    BY DEF Others
  <2> QED
    BY <2>1 DEF Inv, OneAtATime
<1>3. ASSUME NEW d \in Checks \ {c} PROVE Read(d)' /\ Seen(d)' /\ Mirrored(d)'
  <2>1. mirror' = mirror \/ pc[d] = "idle" \/ mode # "comments"
    BY DEF Inv, OneAtATime
  <2>2. Read(d) /\ Seen(d) /\ Mirrored(d)
    BY DEF Inv
  <2> QED
    BY <2>1, <2>2, Stays DEF Others, package
<1> QED
  BY <1>1, <1>2, <1>3 DEF Inv

\* A check that is over.
LEMMA AfterFinish ==
    ASSUME Inv, NEW c \in Checks, pc[c] # "idle", UNCHANGED <<package, overlay, mirror, retried, pass>>,
           NEW a \in {A!None, A!Accepted, A!Failed} \cup Faults, Finish(c, a),
           got' \in [Checks -> [Files -> Upto(1)]],
           seen' \in [Checks -> [Files -> Upto(1)]],
           \A d \in Checks \ {c} : got'[d] = got[d] /\ seen'[d] = seen[d]
    PROVE  Inv'
<1>1. a # A!Open
  BY DEF Faults, A!None, A!Accepted, A!Failed, A!Open, A!Fault
<1>2. Types'
  <2>1. /\ mode' = mode /\ files' = files /\ overlay' = overlay /\ pass' = pass
        /\ retried' = retried /\ mirror' = mirror
    BY DEF package
  <2>2. answer' \in [Checks -> {A!None, A!Open, A!Accepted, A!Failed} \cup Faults]
    BY DEF Inv, Types, Finish
  <2>3. pc' \in [Checks -> PlacesOfCheck] /\ todo' \in [Checks -> SUBSET Sources]
    BY DEF Inv, Types, Finish, PlacesOfCheck
  <2> QED
    BY <2>1, <2>2, <2>3 DEF Inv, Types
<1>3. OpenWhileRunning'
  BY <1>1 DEF Inv, Types, OpenWhileRunning, Finish
<1>4. pc'[c] = "idle" /\ Others(c)
  BY DEF Inv, Types, Finish, Others
<1>5. Read(c)' /\ Seen(c)' /\ Mirrored(c)'
  BY <1>4 DEF Read, Seen, Mirrored, Lowered, Analysing
<1> QED
  BY <1>2, <1>3, <1>4, <1>5, OneStep

\* A check that goes on: types, and what the others see of it.
LEMMA AfterGoTo ==
    ASSUME Inv, NEW c \in Checks, pc[c] # "idle", UNCHANGED <<package, overlay>>,
           NEW where \in PlacesOfCheck \ {"idle"}, NEW what \in SUBSET Sources,
           GoTo(c, where, what),
           got' \in [Checks -> [Files -> Upto(1)]], seen' \in [Checks -> [Files -> Upto(1)]],
           pass' \in [Checks -> 1 .. 12], retried' \in [Checks -> BOOLEAN],
           mirror' \in [Files -> Upto(3)], mirror' = mirror \/ pc[c] = "write",
           \A d \in Checks \ {c} : got'[d] = got[d] /\ seen'[d] = seen[d] /\ pass'[d] = pass[d],
           Read(c)', Seen(c)', Mirrored(c)'
    PROVE  Inv'
<1>1. Types'
  <2>1. mode' = mode /\ files' = files /\ overlay' = overlay
    BY DEF package
  <2>2. answer' = answer /\ pc' \in [Checks -> PlacesOfCheck] /\ todo' \in [Checks -> SUBSET Sources]
    BY DEF Inv, Types, GoTo
  <2> QED
    BY <2>1, <2>2 DEF Inv, Types
<1>2. OpenWhileRunning'
  BY DEF Inv, Types, OpenWhileRunning, GoTo
<1>3. Others(c)
  BY DEF Inv, Types, GoTo, Others
<1> QED
  BY <1>1, <1>2, <1>3, OneStep

(***************************************************************************)
(* Steps of the user.                                                      *)
(***************************************************************************)

LEMMA EditStep ==
    ASSUME Inv, Edit
    PROVE  Inv' /\ A!Edit
<1>0. PICK f \in Files : \E k \in ContentsOf(mode, f) : files' = [files EXCEPT ![f] = k]
  BY DEF Edit
<1>1. PICK k \in ContentsOf(mode, f) : files' = [files EXCEPT ![f] = k]
  BY <1>0
<1>2. k \in Upto(1) \ {A!Unread}
  <2>1. k \in {A!Ok, "collision"} \/ k \in Upto(2) \ {A!Unread}
    <3>1. f \in Sources \/ f = Listing
      BY DEF Sources
    <3> QED
      BY <1>1, <3>1, ContentsUpto
  <2> QED
    BY <2>1, StageFacts DEF Upto, From, A!Ok, A!Unread
<1>3. A!Edit
  <2>1. k \in A!Kinds \cup {A!Ok}
    BY <1>2, KindsAre DEF Upto
  <2> QED
    BY <1>1, <2>1, SameBuffers DEF A!Edit, Edit
<1>4. Types'
  <2>1. files' \in [Files -> Upto(1)] /\ \A g \in Files : files'[g] \in ContentsOf(mode, g)
    BY <1>1, <1>2 DEF Inv, Types
  <2> QED
    BY <2>1 DEF Inv, Types, Edit
<1>5. OverlaysFit' /\ OpenWhileRunning' /\ OneAtATime'
  BY DEF Inv, OverlaysFit, OpenWhileRunning, OneAtATime, Edit
<1>6. ASSUME NEW d \in Checks PROVE Read(d)' /\ Seen(d)' /\ Mirrored(d)'
  BY Stays DEF Inv, Edit
<1> QED
  BY <1>3, <1>4, <1>5, <1>6 DEF Inv

LEMMA AskStep ==
    ASSUME Inv, ~Overlapping, NEW c \in Checks, Ask(c)
    PROVE  Inv' /\ A!Ask(c)
<1>1. PICK o \in Overlays : overlay' = [overlay EXCEPT ![c] = o]
  BY DEF Ask
<1>2. /\ o \in [Files -> Contents \cup {Saved}] /\ o[Listing] = Saved
      /\ \A f \in GoFiles : o[f] # "scan"
  BY ContentsAssumption
<1>3. A!Ask(c)
  <2>1. Contents \subseteq A!Kinds \cup {A!Ok}
    BY ContentsAssumption, StageFacts DEF A!Kinds
  <2>2. o \in [Files -> A!Kinds \cup {A!Ok, Saved}]
    BY <1>2, <2>1
  <2>3. answer[c] # A!Open
    BY DEF Inv, OpenWhileRunning, Ask
  <2>4. \E b \in [Files -> A!Kinds \cup {A!Ok, A!Saved}] : buffers' = [buffers EXCEPT ![c] = b]
    <3> DEFINE b == [f \in Files |-> IF mode = "gown" /\ f \in GoFiles THEN Saved ELSE o[f]]
    <3>1. b \in [Files -> A!Kinds \cup {A!Ok, A!Saved}]
      BY <2>2 DEF Saved, A!Saved
    <3>2. buffers' = [buffers EXCEPT ![c] = b]
      BY <1>1 DEF buffers, Ask, package, Inv, Types
    <3> QED
      BY <3>1, <3>2
  <2> QED
    BY <2>2, <2>3, <2>4, Zenon DEF A!Ask, Ask, package, NothingRead, A!Unread
<1>4. Types'
  <2>1. NothingRead \in [Files -> Upto(1)]
    BY DEF NothingRead, Upto
  <2>2. /\ mode' = mode /\ files' = files /\ todo' = todo /\ mirror' = mirror
        /\ overlay' \in [Checks -> [Files -> Contents \cup {Saved}]]
    BY <1>1, <1>2 DEF Inv, Types, Ask, package
  <2>3. pc' \in [Checks -> PlacesOfCheck]
    BY DEF Inv, Types, Ask, PlacesOfCheck
  <2>4. got' \in [Checks -> [Files -> Upto(1)]] /\ seen' \in [Checks -> [Files -> Upto(1)]]
    BY <2>1 DEF Inv, Types, Ask
  <2>5. pass' \in [Checks -> 1 .. 12] /\ retried' \in [Checks -> BOOLEAN]
    BY DEF Inv, Types, Ask
  <2>6. answer' \in [Checks -> {A!None, A!Open, A!Accepted, A!Failed} \cup Faults]
    BY DEF Inv, Types, Ask
  <2> QED
    BY <2>2, <2>3, <2>4, <2>5, <2>6 DEF Inv, Types
<1>5. OverlaysFit'
  BY <1>1, <1>2 DEF Inv, Types, OverlaysFit
<1>6. OpenWhileRunning'
  BY DEF Inv, Types, OpenWhileRunning, Ask
<1>7. OneAtATime'
  BY DEF Inv, Types, OneAtATime, Ask, package
<1>8. ASSUME NEW d \in Checks \ {c} PROVE Read(d)' /\ Seen(d)' /\ Mirrored(d)'
  BY Stays DEF Inv, Types, Ask, package
<1>9. Read(c)' /\ Seen(c)' /\ Mirrored(c)'
  <2>1. pc'[c] = "names" /\ got'[c] = NothingRead /\ seen'[c] = NothingRead /\ pass'[c] = 1
    BY DEF Inv, Types, Ask
  <2> QED
    BY <2>1 DEF Read, Seen, Mirrored, Lowered, Analysing
<1> QED
  BY <1>3, <1>4, <1>5, <1>6, <1>7, <1>8, <1>9 DEF Inv

LEMMA KillStep ==
    ASSUME Inv, NEW c \in Checks, Kill(c)
    PROVE  Inv' /\ A!Stop(c)
<1>1. answer[c] = A!Open
  BY DEF Inv, OpenWhileRunning, Kill
<1>2. A!Stop(c)
  BY <1>1, SameBuffers DEF A!Stop, Kill, Finish, package
<1>3. Inv'
  BY AfterFinish DEF Kill, Inv, Types
<1> QED
  BY <1>2, <1>3

(***************************************************************************)
(* Steps of a check.                                                       *)
(***************************************************************************)

\* An answer that fits what has been read is one that Verdict allows.
LEMMA MayAnswer ==
    ASSUME Inv, NEW c \in Checks, pc[c] # "idle", UNCHANGED <<package, overlay>>,
           got' = got \/ (\E f \in Files : got' = [got EXCEPT ![c][f] = A!Content(c, f)]),
           NEW a \in {A!Failed, A!Accepted} \cup Faults,
           A!Right(c, got'[c], a), Finish(c, a)
    PROVE  A!Answer(c)
<1>1. answer[c] = A!Open
  BY DEF Inv, OpenWhileRunning
<1>2. PICK f \in Files, k \in A!Kinds : a \in {A!Failed, A!Accepted, A!Fault(f, k)}
  BY FilesAssumption, KindsAre, StageFacts DEF From, Faults
<1>3. answer' = [answer EXCEPT ![c] = a]
  BY DEF Finish
<1>4. UNCHANGED <<files, buffers>>
  BY SameBuffers DEF package
<1>5. UNCHANGED got \/ \E g \in Files : got' = [got EXCEPT ![c][g] = A!Content(c, g)]
  OBVIOUS
<1>6. \E g \in Files, l \in A!Kinds : \E b \in {A!Failed, A!Accepted, A!Fault(g, l)} :
          A!Right(c, got'[c], b) /\ answer' = [answer EXCEPT ![c] = b]
  BY <1>2, <1>3, Zenon
<1> QED
  BY <1>1, <1>4, <1>5, <1>6, Zenon DEF A!Answer

\* The fault of the n-th stage is the answer, if what was read has none of an
\* earlier stage.
LEMMA RightFault ==
    ASSUME NEW c, NEW n \in 1 .. 16, NEW s, NEW f \in Files, s[f] = Stages[n],
           \A g \in Files : s[g] \in Upto(n)
    PROVE  /\ A!Right(c, s, A!Fault(f, Stages[n]))
           /\ A!Fault(f, Stages[n]) \in Faults
<1>1. s[f] \in A!Kinds
  BY KindsAre DEF From
<1>2. \A g \in Files : ~A!Before(s[g], s[f])
  BY NotBefore
<1>3. A!Right(c, s, A!Fault(f, Stages[n]))
  BY <1>1, <1>2, Zenon DEF A!Right
<1>4. A!Fault(f, Stages[n]) \in Faults
  BY <1>1 DEF Faults
<1> QED
  BY <1>3, <1>4

\* Reading a file, or nothing.
Reads(c) == UNCHANGED got \/ \E f \in Files : got' = [got EXCEPT ![c][f] = A!Content(c, f)]

LEMMA ReadsTypes ==
    ASSUME Inv, NEW c \in Checks, Reads(c)
    PROVE  /\ got' \in [Checks -> [Files -> Upto(1)]]
           /\ \A d \in Checks \ {c} : got'[d] = got[d]
<1>1. CASE UNCHANGED got
  BY <1>1 DEF Inv, Types
<1>2. ASSUME NEW f \in Files, got' = [got EXCEPT ![c][f] = A!Content(c, f)]
      PROVE  /\ got' \in [Checks -> [Files -> Upto(1)]]
             /\ \A d \in Checks \ {c} : got'[d] = got[d]
  <2>1. A!Content(c, f) \in Upto(1)
    BY ContentFits
  <2> QED
    BY <1>2, <2>1 DEF Inv, Types
<1> QED
  BY <1>1, <1>2 DEF Reads

\* A step that ends a check.
LEMMA AnswerStep ==
    ASSUME Inv, NEW c \in Checks, pc[c] # "idle",
           UNCHANGED <<package, overlay, pass, retried, mirror>>, Reads(c),
           seen' \in [Checks -> [Files -> Upto(1)]],
           \A d \in Checks \ {c} : seen'[d] = seen[d],
           NEW a \in {A!Failed, A!Accepted} \cup Faults,
           A!Right(c, got'[c], a), Finish(c, a)
    PROVE  Inv' /\ A!Answer(c)
<1>1. got' = got \/ \E f \in Files : got' = [got EXCEPT ![c][f] = A!Content(c, f)]
  BY DEF Reads
<1>2. A!Answer(c)
  BY <1>1, MayAnswer, Zenon
<1>3. Inv'
  BY ReadsTypes, AfterFinish
<1> QED
  BY <1>2, <1>3

\* A step that ends it with a fault of the n-th stage.
LEMMA FaultStep ==
    ASSUME Inv, NEW c \in Checks, pc[c] # "idle",
           UNCHANGED <<package, overlay, pass, retried, mirror>>, Reads(c),
           seen' \in [Checks -> [Files -> Upto(1)]],
           \A d \in Checks \ {c} : seen'[d] = seen[d],
           NEW n \in 1 .. 16, NEW f \in Files, got'[c][f] = Stages[n],
           \A g \in Files : got'[c][g] \in Upto(n), Finish(c, A!Fault(f, Stages[n]))
    PROVE  Inv' /\ A!Answer(c)
<1>1. /\ A!Right(c, got'[c], A!Fault(f, Stages[n]))
      /\ A!Fault(f, Stages[n]) \in Faults
  BY RightFault, Zenon
<1> QED
  BY <1>1, AnswerStep, Zenon

LEMMA CheckNamesStep ==
    ASSUME Inv, NEW c \in Checks, CheckNames(c)
    PROVE  Inv' /\ (A!Read(c, Listing) \/ A!Answer(c))
<1>1. /\ pc[c] = "names" /\ got[c] = NothingRead
      /\ got' = [got EXCEPT ![c][Listing] = A!Content(c, Listing)]
      /\ Listing \in Files /\ Listing \notin Sources
  BY FilesAssumption, ContentIs DEF CheckNames, Inv, Read, Sources
<1>2. A!Content(c, Listing) \in {A!Ok, "collision"}
  BY <1>1, ContentFits
<1>3. /\ got'[c][Listing] = A!Content(c, Listing)
      /\ \A f \in Sources : got'[c][f] = A!Unread
      /\ got' \in [Checks -> [Files -> Upto(1)]]
      /\ \A d \in Checks \ {c} : got'[d] = got[d]
  BY <1>1, <1>2, StageFacts DEF Inv, Types, NothingRead, Upto, From, Sources
<1>4. CASE got'[c][Listing] = "collision"
  <2>1. Finish(c, A!Fault(Listing, Stages[1]))
    BY <1>4, StageFacts DEF CheckNames
  <2>2. \A g \in Files : got'[c][g] \in Upto(1)
    BY <1>3
  <2>3. got'[c][Listing] = Stages[1]
    BY <1>4, StageFacts
  <2>5. pc[c] # "idle" /\ UNCHANGED <<package, overlay, seen, pass, retried, mirror>>
    BY <1>1 DEF CheckNames
  <2>6. 1 \in 1 .. 16
    OBVIOUS
  <2>7. Reads(c)
    BY <1>1 DEF Reads
  <2>8. seen' \in [Checks -> [Files -> Upto(1)]]
    BY <2>5 DEF Inv, Types
  <2> QED
    BY <1>1, <2>1, <2>2, <2>3, <2>5, <2>6, <2>7, <2>8, FaultStep
<1>5. CASE got'[c][Listing] # "collision"
  <2>1. PICK where \in {"sources", "scan"}, what \in SUBSET Sources :
            /\ GoTo(c, where, what)
            /\ where = "sources" => what = Sources /\ mode = "comments"
            /\ where = "scan" => what = GownFiles /\ mode # "comments"
    BY <1>5, Zenon DEF CheckNames, GownFiles
  <2>2. pc'[c] = where /\ todo'[c] = what /\ seen' = seen /\ mode' = mode /\ pass'[c] = 1
    BY <1>1, <2>1 DEF GoTo, Inv, Types, Read, CheckNames, package
  <2>3. Read(c)'
    <3>1. got'[c][Listing] = A!Ok
      BY <1>2, <1>3, <1>5
    <3> QED
      BY <1>3, <2>1, <2>2, <3>1 DEF Read, Lowered, Upto
  <2>4. Seen(c)'
    BY <1>1, <1>3, <2>1, <2>2 DEF Inv, Seen, NothingRead, GownFiles, Sources
  <2>5. Mirrored(c)'
    BY <2>1, <2>2 DEF Mirrored, Analysing
  <2>8. /\ pc[c] # "idle" /\ UNCHANGED <<package, overlay, seen, pass, retried, mirror>>
        /\ where \in PlacesOfCheck \ {"idle"}
    BY <1>1, <2>1 DEF CheckNames, PlacesOfCheck
  <2>9. /\ seen' \in [Checks -> [Files -> Upto(1)]] /\ pass' \in [Checks -> 1 .. 12]
        /\ retried' \in [Checks -> BOOLEAN] /\ mirror' \in [Files -> Upto(3)]
    BY <2>8 DEF Inv, Types
  <2>6. Inv'
    BY <1>3, <2>1, <2>3, <2>4, <2>5, <2>8, <2>9, AfterGoTo
  <2>7. A!Read(c, Listing)
    BY <1>1, <2>1, SameBuffers DEF A!Read, GoTo, CheckNames, package, Inv, OpenWhileRunning
  <2> QED
    BY <2>6, <2>7
<1> QED
  BY <1>4, <1>5

\* What a check that goes on leaves as it is.
Kept == /\ UNCHANGED <<package, overlay>>
        /\ seen' \in [Checks -> [Files -> Upto(1)]] /\ pass' \in [Checks -> 1 .. 12]
        /\ retried' \in [Checks -> BOOLEAN] /\ mirror' \in [Files -> Upto(3)]

LEMMA ReadSourceStep ==
    ASSUME Inv, NEW c \in Checks, NEW f \in Sources, ReadSource(c, f)
    PROVE  Inv' /\ A!Read(c, f)
<1>1. /\ pc[c] = "sources" /\ mode = "comments" /\ pass[c] = 1 /\ f \in Files /\ f # Listing
      /\ got' = [got EXCEPT ![c][f] = A!Content(c, f)]
      /\ GoTo(c, "sources", todo[c] \ {f})
      /\ UNCHANGED <<package, overlay, seen, pass, retried, mirror>>
  BY FilesAssumption, ContentIs DEF ReadSource, Inv, Read, Sources
<1>2. A!Content(c, f) \in Upto(2) \ {A!Unread} /\ (f \in GoFiles => A!Content(c, f) \in Upto(4))
  BY <1>1, ContentFits
<1>3. Reads(c)
  BY <1>1 DEF Reads
<1>4. /\ pc'[c] = "sources" /\ todo'[c] = todo[c] \ {f} /\ pass'[c] = 1 /\ mode' = "comments"
      /\ \A g \in Files : got'[c][g] = IF g = f THEN A!Content(c, f) ELSE got[c][g]
  BY <1>1 DEF Inv, Types, GoTo, package
<1>5. Read(c)'
  <2>1. /\ got[c][Listing] = A!Ok
        /\ \A g \in Sources : /\ got[c][g] \in Upto(2)
                             /\ (g \in GoFiles => got[c][g] \in Upto(4))
                             /\ (g \notin todo[c] => got[c][g] # A!Unread)
    BY <1>1 DEF Inv, Read
  <2>2. Sources \subseteq Files /\ Listing \in Files
    BY FilesAssumption DEF Sources
  <2> QED
    BY <1>1, <1>2, <1>4, <2>1, <2>2 DEF Read, Lowered
<1>6. Seen(c)'
  <2>1. seen'[c] = NothingRead
    BY <1>1 DEF Inv, Seen
  <2> QED
    BY <1>4, <2>1 DEF Seen, NothingRead, Sources
<1>7. Mirrored(c)'
  BY <1>4 DEF Mirrored, Analysing
<1>8. Kept /\ "sources" \in PlacesOfCheck \ {"idle"} /\ todo[c] \ {f} \in SUBSET Sources
  BY <1>1 DEF Kept, Inv, Types, PlacesOfCheck
<1>9. Inv'
  BY <1>1, <1>3, <1>5, <1>6, <1>7, <1>8, ReadsTypes, AfterGoTo DEF Kept
<1>10. A!Read(c, f)
  BY <1>1, SameBuffers DEF A!Read, GoTo, package, Inv, OpenWhileRunning
<1> QED
  BY <1>9, <1>10

LEMMA LowerStep ==
    ASSUME Inv, NEW c \in Checks, Lower(c)
    PROVE  Inv' /\ (A!Answer(c) \/ UNCHANGED A!vars)
<1>1. /\ pc[c] = "sources" /\ todo[c] = {} /\ mode = "comments" /\ pass[c] = 1
      /\ UNCHANGED <<package, overlay, got, seen, pass, retried, mirror>>
  BY DEF Lower, Inv, Read
<1>2. /\ got[c][Listing] = A!Ok
      /\ \A g \in Sources : /\ got[c][g] \in Upto(2)
                           /\ (g \in GoFiles => got[c][g] \in Upto(4))
                           /\ got[c][g] # A!Unread
  BY <1>1 DEF Inv, Read
<1>3. Kept /\ Reads(c)
  BY <1>1 DEF Kept, Inv, Types, Reads
<1>4. ASSUME NEW f \in Sources, got[c][f] = "lower", Finish(c, A!Fault(f, "lower"))
      PROVE  Inv' /\ A!Answer(c)
  <2>1. /\ f \in Files /\ got'[c][f] = Stages[2] /\ Finish(c, A!Fault(f, Stages[2]))
        /\ pc[c] # "idle" /\ 2 \in 1 .. 16
    BY <1>1, <1>4, StageFacts DEF Sources
  <2>2. \A g \in Files : got'[c][g] \in Upto(2)
    BY <1>1, <1>2 DEF Sources, Upto
  <2> QED
    BY <1>1, <1>3, <2>1, <2>2, FaultStep DEF Kept
<1>5. ASSUME \A f \in Sources : got[c][f] # "lower", GoTo(c, "write", Sources)
      PROVE  Inv' /\ UNCHANGED A!vars
  <2>1. pc'[c] = "write" /\ todo'[c] = Sources
    BY <1>5 DEF GoTo, Inv, Types
  <2>2. \A g \in Sources : got[c][g] \in Upto(3)
    BY <1>2, <1>5, NextStage, StageFacts
  <2>3. Read(c)'
    BY <1>1, <1>2, <2>1, <2>2 DEF Read, Lowered, package
  <2>4. Seen(c)'
    <3>1. seen'[c] = NothingRead
      BY <1>1 DEF Inv, Seen
    <3> QED
      BY <1>1, <2>1, <3>1 DEF Seen, NothingRead, Sources, package
  <2>5. Mirrored(c)'
    BY <2>1 DEF Mirrored, Analysing
  <2>6. pc[c] # "idle" /\ "write" \in PlacesOfCheck \ {"idle"} /\ Sources \in SUBSET Sources
    BY <1>1 DEF PlacesOfCheck
  <2>7. Inv'
    BY <1>1, <1>3, <1>5, <2>3, <2>4, <2>5, <2>6, ReadsTypes, AfterGoTo DEF Kept
  <2> QED
    BY <1>1, <1>5, <2>7, SameBuffers DEF A!vars, GoTo, package
<1> QED
  BY <1>4, <1>5 DEF Lower

LEMMA WriteMirrorStep ==
    ASSUME Inv, NEW c \in Checks, NEW f \in Sources, WriteMirror(c, f)
    PROVE  Inv' /\ UNCHANGED A!vars
<1>1. /\ pc[c] = "write" /\ f \in todo[c] /\ mode = "comments" /\ pass[c] = 1
      /\ mirror' = [mirror EXCEPT ![f] = got[c][f]] /\ f \in Files
      /\ UNCHANGED <<package, overlay, got, seen, pass, retried>>
  BY DEF WriteMirror, Inv, Read, Sources
<1>2. /\ got[c][Listing] = A!Ok
      /\ \A g \in Sources : /\ got[c][g] \in Upto(3)
                           /\ (g \in GoFiles => got[c][g] \in Upto(4))
                           /\ got[c][g] # A!Unread
  BY <1>1 DEF Inv, Read, Lowered
<1>3. Kept /\ Reads(c)
  BY <1>1, <1>2 DEF Kept, Inv, Types, Reads
<1>4. \A g \in Sources : mirror'[g] = IF g = f THEN got[c][g] ELSE mirror[g]
  BY <1>1 DEF Inv, Types, Sources
<1>5. PICK where \in {"write", "scan"}, what \in SUBSET Sources :
          /\ GoTo(c, where, what)
          /\ where = "write" => what = todo[c] \ {f}
          /\ where = "scan" => todo[c] = {f} /\ what = GownFiles
  <2>1. todo[c] \in SUBSET Sources /\ GownFiles \in SUBSET Sources
    BY DEF Inv, Types, GownFiles
  <2> QED
    BY <2>1, Zenon DEF WriteMirror
<1>6. /\ pc'[c] = where /\ todo'[c] = what
      /\ got' = got /\ mode' = mode /\ seen' = seen /\ pass' = pass
  BY <1>1, <1>5 DEF GoTo, Inv, Types, package
<1>7. Read(c)'
  BY <1>1, <1>2, <1>5, <1>6 DEF Read, Lowered, GownFiles
<1>8. Seen(c)'
  <2>1. seen[c] = NothingRead
    BY <1>1 DEF Inv, Seen
  <2> QED
    BY <1>1, <1>5, <1>6, <2>1 DEF Seen, NothingRead, Sources, GownFiles
<1>9. Mirrored(c)'
  <2>1. \A g \in Sources \ todo[c] : mirror[g] = got[c][g]
    BY <1>1 DEF Inv, Mirrored
  <2> QED
    BY <1>4, <1>5, <1>6, <2>1 DEF Mirrored, Analysing
<1>10. pc[c] # "idle" /\ where \in PlacesOfCheck \ {"idle"} /\ (mirror' = mirror \/ pc[c] = "write")
  BY <1>1 DEF PlacesOfCheck
<1>11. Inv'
  BY <1>1, <1>3, <1>5, <1>7, <1>8, <1>9, <1>10, ReadsTypes, AfterGoTo DEF Kept
<1> QED
  BY <1>1, <1>5, <1>11, SameBuffers DEF A!vars, GoTo, package

\* What a check reads for its analysis.
LEMMA TakeFits ==
    ASSUME Inv, NEW c \in Checks, pc[c] \in {"scan", "load"}, NEW f \in Sources, Take(c, f),
           UNCHANGED <<package, overlay, pass, retried, mirror>>
    PROVE  /\ Kept /\ Reads(c)
           /\ Input(c, f) \in Upto(3) \ {A!Unread}
           /\ (f \in GoFiles => Input(c, f) \in Upto(4))
           /\ \A g \in Files : got'[c][g] = IF g = f THEN Input(c, f) ELSE got[c][g]
           /\ \A g \in Files : seen'[c][g] = IF g = f THEN Input(c, f) ELSE seen[c][g]
           /\ \A d \in Checks \ {c} : seen'[d] = seen[d]
<1>1. f \in Files
  BY DEF Sources
<1>2. CASE mode = "comments"
  <2>1. Input(c, f) = got[c][f] /\ got' = got
    BY <1>2 DEF Inv, Mirrored, Analysing, Input, Take
  <2>2. /\ got[c][f] \in Upto(3) \ {A!Unread}
        /\ (f \in GoFiles => got[c][f] \in Upto(4))
    BY <1>2 DEF Inv, Read, Lowered
  <2>3. got[c][f] \in Upto(1)
    BY <1>1 DEF Inv, Types
  <2>4. seen' = [seen EXCEPT ![c][f] = got[c][f]]
    BY <2>1 DEF Take
  <2> QED
    BY <1>1, <2>1, <2>2, <2>3, <2>4 DEF Inv, Types, Kept, Reads
<1>3. CASE mode # "comments"
  <2>1. Input(c, f) = A!Content(c, f) /\ got' = [got EXCEPT ![c][f] = A!Content(c, f)]
    BY <1>1, <1>3, ContentIs DEF Take, Inv, Types
  <2>2. A!Content(c, f) \in Upto(3) \ {A!Unread} /\ (f \in GoFiles => A!Content(c, f) \in Upto(4))
    BY <1>1, <1>3, ContentFits DEF Inv, Types
  <2>3. A!Content(c, f) \in Upto(1)
    BY <1>1, ContentFits
  <2>4. seen' = [seen EXCEPT ![c][f] = A!Content(c, f)]
    BY <2>1 DEF Take
  <2>5. Reads(c)
    BY <1>1, <2>1 DEF Reads
  <2> QED
    BY <1>1, <2>1, <2>2, <2>3, <2>4, <2>5 DEF Inv, Types, Kept
<1> QED
  BY <1>2, <1>3

\* A check that has taken what it analyses has read it, or it leaves what it
\* has read alone.
LEMMA TakeReads ==
    ASSUME Inv, NEW c \in Checks, pc[c] \in {"scan", "load"}, NEW f \in Sources, Take(c, f),
           UNCHANGED <<package, overlay, answer>>
    PROVE  A!Read(c, f) \/ UNCHANGED A!vars
<1>1. answer[c] = A!Open
  BY DEF Inv, OpenWhileRunning
<1>2. CASE mode = "comments"
  BY <1>2, SameBuffers DEF A!vars, Take, package
<1>3. CASE mode # "comments"
  <2>1. f \in Files /\ Input(c, f) = A!Content(c, f)
    BY <1>3, ContentIs DEF Inv, Types, Sources
  <2> QED
    BY <1>1, <1>3, <2>1, SameBuffers DEF A!Read, Take, package
<1> QED
  BY <1>2, <1>3

LEMMA ScanStep ==
    ASSUME Inv, NEW c \in Checks, NEW f \in Sources, Scan(c, f)
    PROVE  Inv' /\ (A!Answer(c) \/ A!Read(c, f) \/ UNCHANGED A!vars)
<1>1. /\ pc[c] = "scan" /\ f \in todo[c] /\ pass[c] = 1 /\ Take(c, f) /\ f \in Files
      /\ UNCHANGED <<package, overlay, pass, retried, mirror>>
  BY DEF Scan, Inv, Read, Sources
<1>2. /\ Kept /\ Reads(c) /\ Input(c, f) \in Upto(3) \ {A!Unread}
      /\ (f \in GoFiles => Input(c, f) \in Upto(4))
      /\ \A g \in Files : got'[c][g] = IF g = f THEN Input(c, f) ELSE got[c][g]
      /\ \A g \in Files : seen'[c][g] = IF g = f THEN Input(c, f) ELSE seen[c][g]
      /\ \A d \in Checks \ {c} : seen'[d] = seen[d]
  BY <1>1, TakeFits
<1>3. /\ got[c][Listing] = A!Ok /\ Listing \notin Sources /\ Sources \subseteq Files
      /\ \A g \in Sources : /\ got[c][g] \in Upto(3)
                           /\ (g \in GoFiles => got[c][g] \in Upto(4))
                           /\ (mode = "comments" => got[c][g] # A!Unread)
      /\ \A g \in GownFiles \ todo[c] : got[c][g] \in Upto(4)
  BY <1>1 DEF Inv, Read, Lowered, Sources
<1>4. CASE Input(c, f) = "scan"
  <2>1. /\ got'[c][f] = Stages[3] /\ Finish(c, A!Fault(f, Stages[3]))
        /\ pc[c] # "idle" /\ 3 \in 1 .. 16
    BY <1>1, <1>2, <1>4, StageFacts DEF Scan
  <2>2. \A g \in Files : got'[c][g] \in Upto(3)
    BY <1>2, <1>3 DEF Sources, Upto
  <2> QED
    BY <1>1, <1>2, <2>1, <2>2, FaultStep DEF Kept
<1>5. CASE Input(c, f) # "scan"
  <2>1. /\ GoTo(c, "scan", todo[c] \ {f})
        /\ pc'[c] = "scan" /\ todo'[c] = todo[c] \ {f} /\ pass'[c] = 1 /\ mode' = mode
    BY <1>1, <1>5 DEF Scan, GoTo, Inv, Types, package
  <2>2. Input(c, f) \in Upto(4)
    BY <1>2, <1>5, NextStage, StageFacts
  <2>3. \A g \in Sources : got'[c][g] = IF g = f THEN Input(c, f) ELSE got[c][g]
    BY <1>2, <1>3
  <2>4. \A g \in Sources : seen'[c][g] = IF g = f THEN Input(c, f) ELSE seen[c][g]
    BY <1>2, <1>3
  <2>5. got'[c][Listing] = A!Ok
    BY <1>1, <1>2, <1>3, FilesAssumption
  <2>6. GownFiles \subseteq Sources
    BY DEF GownFiles
  <2>7. Read(c)'
    BY <1>2, <1>3, <2>1, <2>2, <2>3, <2>5, <2>6 DEF Read, Lowered
  <2>8. Seen(c)'
    <3>1. /\ \A g \in Sources : seen[c][g] = got[c][g] \/ (seen[c][g] = A!Unread /\ mode = "comments")
          /\ \A g \in GownFiles \ todo[c] : seen[c][g] # A!Unread
      BY <1>1 DEF Inv, Seen
    <3> QED
      BY <1>2, <2>1, <2>3, <2>4, <2>6, <3>1 DEF Seen
  <2>9. Mirrored(c)'
    <3>1. mode = "comments" => \A g \in Sources : mirror[g] = got[c][g]
      BY <1>1 DEF Inv, Mirrored, Analysing
    <3>2. mode = "comments" => got' = got
      BY <1>1 DEF Take
    <3> QED
      BY <1>1, <2>1, <3>1, <3>2 DEF Mirrored, Analysing
  <2>10. /\ pc[c] # "idle" /\ "scan" \in PlacesOfCheck \ {"idle"} /\ todo[c] \ {f} \in SUBSET Sources
    BY <1>1 DEF PlacesOfCheck, Inv, Types
  <2>11. Inv'
    BY <1>1, <1>2, <2>1, <2>7, <2>8, <2>9, <2>10, ReadsTypes, AfterGoTo DEF Kept
  <2>12. A!Read(c, f) \/ UNCHANGED A!vars
    BY <1>1, <2>1, TakeReads DEF GoTo
  <2> QED
    BY <2>11, <2>12
<1> QED
  BY <1>4, <1>5

\* Before packages.Load reads, or reads again.
LEMMA ToLoad ==
    ASSUME Inv, NEW c \in Checks, pc[c] \in {"scan", "load"}, todo[c] = {},
           UNCHANGED <<package, overlay, got, seen, pass, mirror>>,
           retried' \in [Checks -> BOOLEAN], GoTo(c, "load", GoFiles)
    PROVE  Inv' /\ UNCHANGED A!vars
<1>1. /\ pc'[c] = "load" /\ todo'[c] = GoFiles /\ mode' = mode /\ pass'[c] = 1
      /\ GoFiles \subseteq Sources
  BY FilesAssumption DEF GoTo, Inv, Types, Read, package
<1>2. \A g \in Sources : got[c][g] \in Upto(4)
  BY DEF Inv, Read, Lowered, GownFiles
<1>3. Read(c)'
  <2>1. /\ got[c][Listing] = A!Ok
        /\ \A g \in Sources : /\ got[c][g] \in Upto(3)
                             /\ (g \in GoFiles => got[c][g] \in Upto(4))
                             /\ (mode = "comments" => got[c][g] # A!Unread)
    BY DEF Inv, Read, Lowered
  <2> QED
    BY <1>1, <1>2, <2>1 DEF Read, Lowered
<1>4. Seen(c)'
  <2>1. /\ \A g \in Sources : seen[c][g] = got[c][g] \/ (seen[c][g] = A!Unread /\ mode = "comments")
        /\ \A g \in GownFiles : seen[c][g] # A!Unread
    BY DEF Inv, Seen, GownFiles
  <2> QED
    BY <1>1, <2>1 DEF Seen
<1>5. Mirrored(c)'
  BY <1>1 DEF Inv, Mirrored, Analysing
<1>6. Kept /\ Reads(c) /\ pc[c] # "idle" /\ "load" \in PlacesOfCheck \ {"idle"} /\ GoFiles \in SUBSET Sources
  BY <1>1 DEF Kept, Reads, Inv, Types, PlacesOfCheck
<1>7. Inv'
  BY <1>3, <1>4, <1>5, <1>6, ReadsTypes, AfterGoTo DEF Kept
<1> QED
  BY <1>7, SameBuffers DEF A!vars, GoTo, package

LEMMA ScannedStep ==
    ASSUME Inv, NEW c \in Checks, Scanned(c)
    PROVE  Inv' /\ UNCHANGED A!vars
<1>1. retried' \in [Checks -> BOOLEAN]
  BY DEF Scanned, Inv, Types
<1> QED
  BY <1>1, ToLoad DEF Scanned

LEMMA LoadFileStep ==
    ASSUME Inv, NEW c \in Checks, NEW f \in Sources, LoadFile(c, f)
    PROVE  Inv' /\ (A!Read(c, f) \/ UNCHANGED A!vars)
<1>1. /\ pc[c] = "load" /\ f \in todo[c] /\ f \in GoFiles /\ pass[c] = 1 /\ Take(c, f) /\ f \in Files
      /\ UNCHANGED <<package, overlay, pass, retried, mirror>>
      /\ GoTo(c, "load", todo[c] \ {f}) /\ GownFiles \subseteq Sources
  BY DEF LoadFile, Inv, Read, Sources, GownFiles
<1>2. /\ Kept /\ Reads(c) /\ Input(c, f) \in Upto(3) \ {A!Unread} /\ Input(c, f) \in Upto(4)
      /\ \A g \in Files : got'[c][g] = IF g = f THEN Input(c, f) ELSE got[c][g]
      /\ \A g \in Files : seen'[c][g] = IF g = f THEN Input(c, f) ELSE seen[c][g]
      /\ \A d \in Checks \ {c} : seen'[d] = seen[d]
  BY <1>1, TakeFits
<1>3. /\ got[c][Listing] = A!Ok /\ Listing \notin Sources /\ Listing \in Files /\ Sources \subseteq Files
      /\ \A g \in Sources : /\ got[c][g] \in Upto(3) /\ got[c][g] \in Upto(4)
                           /\ (mode = "comments" => got[c][g] # A!Unread)
  BY <1>1, FilesAssumption DEF Inv, Read, Lowered, Sources
<1>4. /\ pc'[c] = "load" /\ todo'[c] = todo[c] \ {f} /\ pass'[c] = 1 /\ mode' = mode
      /\ todo[c] \subseteq GoFiles
  BY <1>1 DEF GoTo, Inv, Types, Read, package
<1>5. /\ \A g \in Sources : got'[c][g] = IF g = f THEN Input(c, f) ELSE got[c][g]
      /\ \A g \in Sources : seen'[c][g] = IF g = f THEN Input(c, f) ELSE seen[c][g]
      /\ got'[c][Listing] = A!Ok
  BY <1>2, <1>3
<1>6. Read(c)'
  BY <1>2, <1>3, <1>4, <1>5 DEF Read, Lowered
<1>7. Seen(c)'
  <2>1. /\ \A g \in Sources : seen[c][g] = got[c][g] \/ (seen[c][g] = A!Unread /\ mode = "comments")
        /\ \A g \in GownFiles : seen[c][g] # A!Unread
        /\ \A g \in GoFiles \ todo[c] : seen[c][g] # A!Unread
    BY <1>1 DEF Inv, Seen
  <2>2. GoFiles \subseteq Sources
    BY FilesAssumption
  <2> QED
    BY <1>1, <1>2, <1>4, <1>5, <2>1, <2>2 DEF Seen
<1>8. Mirrored(c)'
  <2>1. mode = "comments" => \A g \in Sources : mirror[g] = got[c][g]
    BY <1>1 DEF Inv, Mirrored, Analysing
  <2>2. mode = "comments" => got' = got
    BY <1>1 DEF Take
  <2> QED
    BY <1>1, <1>4, <2>1, <2>2 DEF Mirrored, Analysing
<1>9. /\ pc[c] # "idle" /\ "load" \in PlacesOfCheck \ {"idle"} /\ todo[c] \ {f} \in SUBSET Sources
  BY <1>1 DEF PlacesOfCheck, Inv, Types
<1>10. Inv'
  BY <1>1, <1>2, <1>6, <1>7, <1>8, <1>9, ReadsTypes, AfterGoTo DEF Kept
<1>11. A!Read(c, f) \/ UNCHANGED A!vars
  BY <1>1, TakeReads DEF GoTo
<1> QED
  BY <1>10, <1>11

\* The toolchain could not be run.
LEMMA FailedStep ==
    ASSUME Inv, NEW c \in Checks, pc[c] # "idle", Finish(c, A!Failed),
           UNCHANGED <<package, overlay, got, seen, pass, retried, mirror>>
    PROVE  Inv' /\ A!Answer(c)
<1>1. A!Right(c, got'[c], A!Failed)
  BY DEF A!Right
<1>2. Reads(c) /\ seen' \in [Checks -> [Files -> Upto(1)]]
  BY DEF Reads, Inv, Types
<1> QED
  BY <1>1, <1>2, AnswerStep

LEMMA CacheMissStep ==
    ASSUME Inv, NEW c \in Checks, CacheMiss(c)
    PROVE  Inv' /\ (A!Answer(c) \/ UNCHANGED A!vars)
<1>1. /\ pc[c] = "load" /\ todo[c] = {}
      /\ UNCHANGED <<package, overlay, got, seen, pass, mirror>>
  BY DEF CacheMiss
<1>2. CASE MayRetry(c)
  <2>1. GoTo(c, "load", GoFiles) /\ retried' \in [Checks -> BOOLEAN]
    BY <1>2 DEF CacheMiss, Inv, Types
  <2> QED
    BY <1>1, <2>1, ToLoad
<1>3. CASE ~MayRetry(c)
  <2>1. Finish(c, A!Failed) /\ UNCHANGED retried
    BY <1>3 DEF CacheMiss
  <2> QED
    BY <1>1, <2>1, FailedStep
<1> QED
  BY <1>2, <1>3

LEMMA LoadFailsStep ==
    ASSUME Inv, NEW c \in Checks, LoadFails(c)
    PROVE  Inv' /\ A!Answer(c)
BY FailedStep DEF LoadFails

\* When all is loaded, the check analyses what it has read.
LEMMA LoadedFacts ==
    ASSUME Inv, NEW c \in Checks, pc[c] = "passes" \/ (pc[c] = "load" /\ todo[c] = {})
    PROVE  /\ got[c][Listing] = A!Ok /\ Listing \notin Sources /\ Files = Sources \cup {Listing}
           /\ \A g \in Sources : seen[c][g] = got[c][g] /\ got[c][g] # A!Unread
<1>1. \A g \in Sources : seen[c][g] # A!Unread
  <2>1. Sources = GownFiles \cup GoFiles
    BY FilesAssumption DEF GownFiles
  <2> QED
    BY <2>1 DEF Inv, Seen
<1>2. \A g \in Sources : seen[c][g] = got[c][g] \/ seen[c][g] = A!Unread
  BY DEF Inv, Seen
<1>3. got[c][Listing] = A!Ok
  BY DEF Inv, Read
<1>4. Listing \notin Sources /\ Files = Sources \cup {Listing}
  BY FilesAssumption DEF Sources
<1> QED
  BY <1>1, <1>2, <1>3, <1>4

LEMMA LoadedStep ==
    ASSUME Inv, NEW c \in Checks, Loaded(c)
    PROVE  Inv' /\ (A!Answer(c) \/ UNCHANGED A!vars)
<1>1. /\ pc[c] = "load" /\ todo[c] = {} /\ pc[c] # "idle" /\ pass[c] = 1
      /\ UNCHANGED <<package, overlay, got, seen, pass, retried, mirror>>
  BY DEF Loaded, Inv, Read
<1>2. /\ got[c][Listing] = A!Ok /\ Listing \notin Sources /\ Files = Sources \cup {Listing}
      /\ \A g \in Sources : seen[c][g] = got[c][g] /\ got[c][g] # A!Unread
  BY <1>1, LoadedFacts
<1>3. \A g \in Sources : got[c][g] \in Upto(3) /\ got[c][g] \in Upto(4)
  BY <1>1 DEF Inv, Read, Lowered
<1>4. Kept /\ Reads(c)
  BY <1>1 DEF Kept, Inv, Types, Reads
<1>5. ASSUME NEW f \in Sources, seen[c][f] = "type", Finish(c, A!Fault(f, "type"))
      PROVE  Inv' /\ A!Answer(c)
  <2>1. /\ f \in Files /\ got'[c][f] = Stages[4] /\ Finish(c, A!Fault(f, Stages[4])) /\ 4 \in 1 .. 16
    BY <1>1, <1>2, <1>5, StageFacts
  <2>2. \A g \in Files : got'[c][g] \in Upto(4)
    BY <1>1, <1>2, <1>3 DEF Upto
  <2> QED
    BY <1>1, <1>4, <2>1, <2>2, FaultStep DEF Kept
<1>6. ASSUME \A f \in Sources : seen[c][f] # "type", GoTo(c, "passes", {})
      PROVE  Inv' /\ UNCHANGED A!vars
  <2>1. pc'[c] = "passes" /\ todo'[c] = {} /\ mode' = mode
    BY <1>1, <1>6 DEF GoTo, Inv, Types, package
  <2>2. \A g \in Sources : got[c][g] \in Upto(5)
    BY <1>2, <1>3, <1>6, NextStage, StageFacts
  <2>3. Read(c)'
    <3>1. \A g \in GoFiles : g \in Sources
      BY FilesAssumption
    <3> QED
      BY <1>1, <1>2, <1>3, <2>1, <2>2, <3>1 DEF Read, Lowered
  <2>4. Seen(c)'
    <3>1. GownFiles \subseteq Sources
      BY DEF GownFiles
    <3> QED
      BY <1>1, <1>2, <2>1, <3>1 DEF Seen
  <2>5. Mirrored(c)'
    BY <1>1, <2>1 DEF Inv, Mirrored, Analysing
  <2>6. "passes" \in PlacesOfCheck \ {"idle"} /\ {} \in SUBSET Sources
    BY DEF PlacesOfCheck
  <2>7. Inv'
    BY <1>1, <1>4, <1>6, <2>3, <2>4, <2>5, <2>6, ReadsTypes, AfterGoTo DEF Kept
  <2> QED
    BY <1>1, <1>6, <2>7, SameBuffers DEF A!vars, GoTo, package
<1> QED
  BY <1>5, <1>6 DEF Loaded

LEMMA RunPassStep ==
    ASSUME Inv, NEW c \in Checks, RunPass(c)
    PROVE  Inv' /\ (A!Answer(c) \/ UNCHANGED A!vars)
<1> DEFINE n == pass[c] + 4
<1>1. /\ pc[c] = "passes" /\ pc[c] # "idle"
      /\ UNCHANGED <<package, overlay, got, seen, retried, mirror>>
  BY DEF RunPass
<1>2. /\ got[c][Listing] = A!Ok /\ Listing \notin Sources /\ Files = Sources \cup {Listing}
      /\ \A g \in Sources : seen[c][g] = got[c][g] /\ got[c][g] # A!Unread
  BY <1>1, LoadedFacts
<1>3. /\ pass[c] \in 1 .. 12 /\ n \in 5 .. 16 /\ checkerPass(pass[c]) = Stages[n]
      /\ \A g \in Sources : got[c][g] \in Upto(3) /\ got[c][g] \in Upto(4) /\ got[c][g] \in Upto(n)
  BY <1>1 DEF Inv, Types, Read, Lowered, checkerPass
<1>4. Reads(c) /\ seen' \in [Checks -> [Files -> Upto(1)]]
  BY <1>1 DEF Reads, Inv, Types
<1>5. ASSUME NEW f \in Sources, seen[c][f] = Stages[n], Finish(c, A!Fault(f, Stages[n])), UNCHANGED pass
      PROVE  Inv' /\ A!Answer(c)
  <2>1. f \in Files /\ got'[c][f] = Stages[n] /\ n \in 1 .. 16
    BY <1>1, <1>2, <1>3, <1>5
  <2>2. \A g \in Files : got'[c][g] \in Upto(n)
    BY <1>1, <1>2, <1>3 DEF Upto
  <2> HIDE DEF n
  <2> QED
    BY <1>1, <1>4, <1>5, <2>1, <2>2, FaultStep
<1>6. ASSUME \A f \in Sources : seen[c][f] # Stages[n], pass[c] = LastPass,
             Finish(c, A!Accepted), UNCHANGED pass
      PROVE  Inv' /\ A!Answer(c)
  <2>1. n = 16
    BY <1>6, StageFacts DEF LastPass, NumPasses
  <2>2. \A f \in Files : got'[c][f] = A!Ok
    BY <1>1, <1>2, <1>3, <1>6, <2>1, LastStage
  <2>3. A!Right(c, got'[c], A!Accepted)
    BY <2>2 DEF A!Right
  <2> QED
    BY <1>1, <1>4, <1>6, <2>3, AnswerStep
<1>7. ASSUME \A f \in Sources : seen[c][f] # Stages[n], pass[c] # LastPass,
             GoTo(c, "passes", {}), pass' = [pass EXCEPT ![c] = @ + 1]
      PROVE  Inv' /\ UNCHANGED A!vars
  <2>1. /\ pc'[c] = "passes" /\ todo'[c] = {} /\ mode' = mode /\ pass'[c] = pass[c] + 1
        /\ pass[c] # 12 /\ pass' \in [Checks -> 1 .. 12]
        /\ \A d \in Checks \ {c} : pass'[d] = pass[d]
    BY <1>1, <1>3, <1>7, StageFacts DEF GoTo, Inv, Types, package, LastPass, NumPasses
  <2>2. n \in 1 .. 15 /\ 4 + pass'[c] = n + 1
    BY <1>3, <2>1
  <2>3. \A g \in Sources : got[c][g] \in Upto(4 + pass'[c])
    BY <1>2, <1>3, <1>7, <2>2, NextStage
  <2>4. Read(c)'
    <3>1. \A g \in GoFiles : g \in Sources
      BY FilesAssumption
    <3> QED
      BY <1>1, <1>2, <1>3, <2>1, <2>3, <3>1 DEF Read, Lowered
  <2>5. Seen(c)'
    <3>1. GownFiles \subseteq Sources
      BY DEF GownFiles
    <3> QED
      BY <1>1, <1>2, <2>1, <3>1 DEF Seen
  <2>6. Mirrored(c)'
    BY <1>1, <2>1 DEF Inv, Mirrored, Analysing
  <2>7. "passes" \in PlacesOfCheck \ {"idle"} /\ {} \in SUBSET Sources
    BY DEF PlacesOfCheck
  <2>8. Kept
    BY <1>1, <2>1 DEF Kept, Inv, Types
  <2>9. Inv'
    BY <1>1, <1>4, <1>7, <2>1, <2>4, <2>5, <2>6, <2>7, <2>8, ReadsTypes, AfterGoTo DEF Kept
  <2> QED
    BY <1>1, <1>7, <2>9, SameBuffers DEF A!vars, GoTo, package
<1>8. \/ \E f \in Sources : seen[c][f] = Stages[n] /\ Finish(c, A!Fault(f, Stages[n])) /\ UNCHANGED pass
      \/ /\ \A f \in Sources : seen[c][f] # Stages[n]
         /\ \/ pass[c] = LastPass /\ Finish(c, A!Accepted) /\ UNCHANGED pass
            \/ pass[c] # LastPass /\ GoTo(c, "passes", {}) /\ pass' = [pass EXCEPT ![c] = @ + 1]
  <2> HIDE DEF n
  <2> QED
    BY <1>3 DEF RunPass
<1> HIDE DEF n
<1> QED
  BY <1>5, <1>6, <1>7, <1>8

(***************************************************************************)
(* The theorems.                                                           *)
(***************************************************************************)

LEMMA StepOfCheck ==
    ASSUME Inv, NEW c \in Checks, Step(c)
    PROVE  /\ Inv'
           /\ A!Answer(c) \/ UNCHANGED A!vars \/ \E f \in Files : A!Read(c, f)
<1>1. Listing \in Files /\ Sources \subseteq Files
  BY FilesAssumption DEF Sources
<1>2. CASE CheckNames(c)
  BY <1>1, <1>2, CheckNamesStep
<1>3. CASE Lower(c)
  BY <1>3, LowerStep
<1>4. CASE Scanned(c)
  BY <1>4, ScannedStep
<1>5. ASSUME NEW f \in Sources, ReadSource(c, f) \/ WriteMirror(c, f) \/ Scan(c, f) \/ LoadFile(c, f)
      PROVE  /\ Inv'
             /\ A!Answer(c) \/ UNCHANGED A!vars \/ \E g \in Files : A!Read(c, g)
  BY <1>1, <1>5, ReadSourceStep, WriteMirrorStep, ScanStep, LoadFileStep
<1>6. CASE CacheMiss(c)
  BY <1>6, CacheMissStep
<1>7. CASE LoadFails(c)
  BY <1>7, LoadFailsStep
<1>8. CASE Loaded(c)
  BY <1>8, LoadedStep
<1>9. CASE RunPass(c)
  BY <1>9, RunPassStep
<1> QED
  BY <1>2, <1>3, <1>4, <1>5, <1>6, <1>7, <1>8, <1>9 DEF Step

LEMMA NextStep ==
    ASSUME ~Overlapping, Inv, [Next]_vars
    PROVE  Inv' /\ [A!Next]_A!vars
<1>1. CASE Edit
  BY <1>1, EditStep DEF A!Next
<1>2. ASSUME NEW c \in Checks, Ask(c)
      PROVE  Inv' /\ [A!Next]_A!vars
  BY <1>2, AskStep DEF A!Next
<1>3. ASSUME NEW c \in Checks, Step(c)
      PROVE  Inv' /\ [A!Next]_A!vars
  BY <1>3, StepOfCheck DEF A!Next
<1>4. ASSUME NEW c \in Checks, Kill(c)
      PROVE  Inv' /\ [A!Next]_A!vars
  BY <1>4, KillStep DEF A!Next
<1>5. CASE UNCHANGED vars
  <2>1. UNCHANGED A!vars
    BY <1>5, SameBuffers DEF vars, A!vars
  <2>2. Inv'
    BY <1>5 DEF vars, Inv, Types, OverlaysFit, OpenWhileRunning, OneAtATime, Read, Seen, Mirrored
  <2> QED
    BY <2>1, <2>2
<1> QED
  BY <1>1, <1>2, <1>3, <1>4, <1>5 DEF Next

LEMMA InitRefines == Init => A!Init
<1> SUFFICES ASSUME Init PROVE A!Init
  OBVIOUS
<1>1. buffers = [c \in Checks |-> [f \in Files |-> A!Saved]]
  BY DEF Init, buffers, Saved, A!Saved
<1> QED
  BY <1>1, ContentsUpto, KindsAre DEF Init, A!Init, NothingRead

LEMMA InvTypes == Inv => TypeOK
<1> SUFFICES ASSUME Inv PROVE TypeOK
  OBVIOUS
<1>1. ASSUME NEW c \in Checks
      PROVE  /\ pc[c] = "idle" <=> answer[c] # A!Open
             /\ pass[c] \in 1 .. NumPasses
             /\ todo[c] \subseteq Sources
             /\ pc[c] = "passes" => \A f \in Sources : seen[c][f] # A!Unread
  <2>1. pc[c] = "passes" => \A f \in Sources : seen[c][f] # A!Unread
    BY LoadedFacts
  <2>2. NumPasses = 12
    BY StageFacts DEF NumPasses
  <2> QED
    BY <2>1, <2>2 DEF Inv, Types, OpenWhileRunning
<1>2. \A f \in Files : mirror[f] # "lower"
  <2>1. "lower" \notin From(3)
    BY Distinct, StageFacts DEF From
  <2>2. "lower" \notin Upto(3)
    BY <2>1 DEF Upto, A!Ok, A!Unread
  <2> QED
    BY <2>2 DEF Inv, Types
<1> QED
  BY <1>1, <1>2 DEF TypeOK

\* The faults still in what a check has read are those of the stages ahead of
\* it, what it analyses is what it has read, and the mirror holds the same
\* (check.go: AnalyzeWithOptions; comment_mirror.go: MaterializeCommentMirror).
THEOREM Invariant ==
    ASSUME ~Overlapping
    PROVE  Safety => []Inv
<1>1. Init => Inv
  BY InitInv
<1>2. Inv /\ [Next]_vars => Inv'
  BY NextStep
<1> QED
  BY <1>1, <1>2, PTL DEF Safety

\* No check analyses a file it has not read, and none writes a file to the
\* mirror that cannot be lowered.
THEOREM TypeCorrect ==
    ASSUME ~Overlapping
    PROVE  Spec => []TypeOK
<1>1. Safety => []Inv
  BY Invariant
<1>2. Spec => Safety
  BY PTL DEF Spec
<1> QED
  BY <1>1, <1>2, InvTypes, PTL

\* A check implements Verdict: what it answers is right for the files as they
\* were when it read them, for any number of files, of edits and of checks, if
\* checks of a package with comments do not overlap.  A buffer takes the place
\* of a .gown source, and of a plain Go file only if the package has comments.
THEOREM Refinement ==
    ASSUME ~Overlapping
    PROVE  Spec => AnswersForItsFiles
<1>1. Safety => []Inv
  BY Invariant
<1>2. Init => A!Init
  BY InitRefines
<1>3. Inv /\ [Next]_vars => [A!Next]_A!vars
  BY NextStep
<1>4. Spec => Safety
  BY PTL DEF Spec
<1> QED
  BY <1>1, <1>2, <1>3, <1>4, PTL DEF Safety, AnswersForItsFiles, A!Safety
=============================================================================
