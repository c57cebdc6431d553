---------------------------------- MODULE MCFs ----------------------------------
(***************************************************************************)
(* Fs for TLC: /a is a directory; /a/b is a directory, in which a process  *)
(* may stay when it is removed, or a file, linked as /a/a.                 *)
(***************************************************************************)
EXTENDS Fs, TLC
CONSTANTS a, b
MCSymmetry == Permutations(Proc)
Absolute(names) == [abs |-> TRUE, names |-> names]
Relative(names) == [abs |-> FALSE, names |-> names]
Ask(call, path, new) == [call |-> call, path |-> path, new |-> new]
Root == Absolute(<<>>)
A == Absolute(<<a>>)
AB == Absolute(<<a, b>>)
MCRequest ==
  {Ask(call, AB, Root) : call \in {"mkdir", "creat", "unlink", "chdir"}}
  \cup {Ask("mkdir", A, Root), Ask("unlink", A, Root), Ask("open", Relative(<<"..">>), Root)}
  \cup {Ask("link", AB, new) : new \in {Absolute(<<a, a>>), Relative(<<".">>)}}
================================================================================
