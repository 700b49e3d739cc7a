------------------------------ MODULE FileCopy ------------------------------
(***************************************************************************)
(* What the receiver promises, without buffers, headers or chunks.  Each   *)
(* connection brings a known sequence of files; the receiver copies them   *)
(* one after the other, each copy growing along the file's content and     *)
(* finished only when it is the whole content.  A connection can break (a  *)
(* disk error, or a sender that did not send what it announced); from then *)
(* on nothing is promised for it, and still everything for the others.     *)
(***************************************************************************)
EXTENDS Naturals, Sequences, SequencesExt

CONSTANTS Conns,
          Plans     \* what may be sent: functions from Conns to sequences of contents

VARIABLES files,    \* files[c]: the contents sent on c, in order
          copies,   \* copies[c]: the contents received, the last maybe in part
          done,     \* done[c]: how many of them are finished
          broken    \* the connections without a promise

fcVars == <<files, copies, done, broken>>

Init ==
    /\ files \in Plans
    /\ copies = [c \in Conns |-> <<>>]
    /\ done = [c \in Conns |-> 0]
    /\ broken = {}

Others(c) ==
    \A d \in Conns \ {c} : copies'[d] = copies[d] /\ done'[d] = done[d]

\* The next file starts, only after the one before it is finished.
Begin(c) ==
    /\ c \notin broken
    /\ done[c] = Len(copies[c]) /\ Len(copies[c]) < Len(files[c])
    /\ copies' = [copies EXCEPT ![c] = Append(@, <<>>)]
    /\ UNCHANGED <<files, done, broken>>

\* The current copy grows along its file.
Extend(c) ==
    /\ c \notin broken /\ done[c] < Len(copies[c])
    /\ LET n == Len(copies[c])
       IN  /\ IsStrictPrefix(copies[c][n], copies'[c][n])
           /\ IsPrefix(copies'[c][n], files[c][n])
           /\ copies' = [copies EXCEPT ![c][n] = copies'[c][n]]
    /\ UNCHANGED <<files, done, broken>>

\* The current copy is complete.
Finish(c) ==
    /\ c \notin broken /\ done[c] < Len(copies[c])
    /\ copies[c][Len(copies[c])] = files[c][Len(copies[c])]
    /\ done' = [done EXCEPT ![c] = @ + 1]
    /\ UNCHANGED <<files, copies, broken>>

\* The connection breaks, or is broken: anything happens to its copies only.
Broken(c) ==
    /\ broken' = broken \cup {c}
    /\ Others(c)
    /\ UNCHANGED files

Next == \E c \in Conns : Begin(c) \/ Extend(c) \/ Finish(c) \/ Broken(c)

Spec == Init /\ [][Next]_fcVars
=============================================================================
