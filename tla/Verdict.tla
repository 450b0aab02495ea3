------------------------------ MODULE Verdict ------------------------------
(***************************************************************************)
(* What a check of a package promises to whoever asked for it.  A package  *)
(* is a set of files, each of them in order or with one fault; its user    *)
(* edits them at any time, also while a check is going on.  A check is     *)
(* about the files as they were when it read them, an open buffer that the *)
(* check honours taking the place of the file on disk.                     *)
(***************************************************************************)
EXTENDS Naturals, Sequences

CONSTANTS Files, Checks,
          Stages    \* the kinds of faults, in the order they are looked for

Ok     == "ok"
Unread == "unread"
Saved  == "saved"     \* not open in an editor

Kinds == {Stages[i] : i \in DOMAIN Stages}

None     == [is |-> "none"]
Open     == [is |-> "open"]
Accepted == [is |-> "accepted"]
Failed   == [is |-> "failed"]         \* the toolchain could not be run
Fault(f, k) == [is |-> "fault", file |-> f, kind |-> k]

VARIABLES files,      \* what each file contains: Ok or its fault
          overlay,    \* the buffers that the check honours
          view,       \* what a check has read
          answer

vars == <<files, overlay, view, answer>>

Before(k, l) == \E i, j \in DOMAIN Stages : Stages[i] = k /\ Stages[j] = l /\ i < j

Content(c, f) == IF overlay[c][f] = Saved THEN files[f] ELSE overlay[c][f]

Init ==
    /\ files \in [Files -> Kinds \cup {Ok}]
    /\ overlay = [c \in Checks |-> [f \in Files |-> Saved]]
    /\ view = [c \in Checks |-> [f \in Files |-> Unread]]
    /\ answer = [c \in Checks |-> None]

Edit ==
    /\ \E f \in Files, k \in Kinds \cup {Ok} : files' = [files EXCEPT ![f] = k]
    /\ UNCHANGED <<overlay, view, answer>>

Ask(c) ==
    /\ answer[c] # Open
    /\ answer' = [answer EXCEPT ![c] = Open]
    /\ \E o \in [Files -> Kinds \cup {Ok, Saved}] : overlay' = [overlay EXCEPT ![c] = o]
    /\ view' = [view EXCEPT ![c] = [f \in Files |-> Unread]]
    /\ UNCHANGED files

Read(c, f) ==
    /\ answer[c] = Open
    /\ view' = [view EXCEPT ![c][f] = Content(c, f)]
    /\ UNCHANGED <<files, overlay, answer>>

\* Accepted: every file was read and in order.  Fault(f, k): f was read with k
\* in it, and no file that was read has a fault of an earlier stage.
Right(c, seen, a) ==
    \/ a = Failed
    \/ a = Accepted /\ \A f \in Files : seen[f] = Ok
    \/ \E f \in Files : /\ seen[f] \in Kinds
                        /\ a = Fault(f, seen[f])
                        /\ \A g \in Files : ~Before(seen[g], seen[f])

\* The answer may come with the last file that is read.
Answer(c) ==
    /\ answer[c] = Open
    /\ \/ UNCHANGED view
       \/ \E f \in Files : view' = [view EXCEPT ![c][f] = Content(c, f)]
    /\ \E f \in Files, k \in Kinds : \E a \in {Failed, Accepted, Fault(f, k)} :
          Right(c, view'[c], a) /\ answer' = [answer EXCEPT ![c] = a]
    /\ UNCHANGED <<files, overlay>>

\* The process is killed.
Stop(c) ==
    /\ answer[c] = Open
    /\ answer' = [answer EXCEPT ![c] = None]
    /\ UNCHANGED <<files, overlay, view>>

Next ==
    \/ Edit
    \/ \E c \in Checks : \/ Ask(c) \/ Answer(c) \/ Stop(c)
                         \/ \E f \in Files : Read(c, f)

Safety == Init /\ [][Next]_vars

\* A check that is asked for is answered, unless it is killed.
Spec == Safety /\ \A c \in Checks : WF_vars(Answer(c))
=============================================================================
