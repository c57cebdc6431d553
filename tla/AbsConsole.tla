------------------------------- MODULE AbsConsole -------------------------------
(***************************************************************************)
(* What console input promises: a line is edited until it is finished, by  *)
(* a newline, an end-of-file or a full buffer; finished lines are read in  *)
(* order, each character once, a newline ending a read and an end-of-file  *)
(* making exactly one read return nothing.                                 *)
(***************************************************************************)
EXTENDS Naturals, Sequences

CONSTANTS Proc, Size, Newline, Eof, Char

VARIABLES
  line,     \* the line being edited
  ready,    \* characters of finished lines that nobody has read
  got       \* got[p]: what p's read has returned so far

Init == line = <<>> /\ ready = <<>> /\ got = [p \in Proc |-> <<>>]

Type(c) ==
  /\ Len(ready) + Len(line) < Size
  /\ LET l == Append(line, c) IN
       IF c \in {Newline, Eof} \/ Len(ready) + Len(l) = Size
       THEN ready' = ready \o l /\ line' = <<>>
       ELSE line' = l /\ UNCHANGED ready
  /\ UNCHANGED got

Erase == line # <<>> /\ line' = SubSeq(line, 1, Len(line) - 1) /\ UNCHANGED <<ready, got>>

EraseLine == line' = <<>> /\ UNCHANGED <<ready, got>>

Begin(p) == got' = [got EXCEPT ![p] = <<>>] /\ UNCHANGED <<line, ready>>

(* k characters; only the last may be a newline, and none an end-of-file. *)
Read(p, k) ==
  /\ k <= Len(ready)
  /\ \A i \in 1 .. k : ready[i] # Eof /\ (ready[i] = Newline => i = k)
  /\ got' = [got EXCEPT ![p] = @ \o SubSeq(ready, 1, k)]
  /\ ready' = SubSeq(ready, k + 1, Len(ready))
  /\ UNCHANGED line

ReadEof(p) ==
  /\ got[p] = <<>>
  /\ ready # <<>> /\ Head(ready) = Eof
  /\ ready' = Tail(ready)
  /\ UNCHANGED <<line, got>>

Next ==
  \/ \E c \in Char : Type(c)
  \/ Erase \/ EraseLine
  \/ \E p \in Proc : Begin(p) \/ ReadEof(p) \/ \E k \in 1 .. Size : Read(p, k)

Spec == Init /\ [][Next]_<<line, ready, got>>
================================================================================
