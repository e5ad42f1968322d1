------------------------------- MODULE Command -------------------------------
(***************************************************************************)
(* The command lines of cbs.h: cmd_t, to which arguments are added until it *)
(* is executed and cleared, and the line that cmdput shows for it.  The     *)
(* words matter where they are shown, their number where they are stored.  *)
(***************************************************************************)
EXTENDS Integers, Sequences, SequencesExt

CONSTANTS
  SizeofSize, \* sizeof(size_t)
  SizeMax,    \* SIZE_MAX
  Chars,      \* the characters of words
  ShellSafe,  \* those of them that are in SHELL_SAFE
  Additions,  \* how many arguments may be added at once
  Commands,   \* the commands that are shown: sequences of words
  MaxArgs     \* bound: arguments of a command

VARIABLES
  cmd,        \* a cmd_t: the length and the capacity of its array
  argv, shown \* a command, and the line that has been shown for it

vars_cmd == <<cmd, argv, shown>>

\* C's | and & on numbers that are not negative.
Or[a \in Nat] == [b \in Nat |->
  IF a = 0 THEN b
  ELSE 2 * Or[a \div 2][b \div 2] + (IF a % 2 = 1 \/ b % 2 = 1 THEN 1 ELSE 0)]

And[a \in Nat] == [b \in Nat |->
  IF a = 0 THEN 0
  ELSE 2 * And[a \div 2][b \div 2] + (IF a % 2 = 1 /\ b % 2 = 1 THEN 1 ELSE 0)]

\* A size_t has at most eight bytes, and SIZE_MAX all its bits set.  Arguments
\* are far fewer than a size_t could count.  What a shell treats in a way of its
\* own is not in SHELL_SAFE.
CommandAssumption ==
  /\ SizeofSize \in 1 .. 8 /\ SizeMax \in Nat
  /\ \A p \in {2, 4, 16} : Or[SizeMax][SizeMax \div p] = SizeMax
  /\ MaxArgs \in Nat /\ 8 * MaxArgs + 2 <= SizeMax
  /\ Additions \subseteq Nat
  /\ Commands \subseteq Seq(Seq(Chars))
  /\ {"'", "\"", " ", "\n"} \subseteq Chars \ ShellSafe

ASSUME CommandAssumption

Wrap(n) == n % (SizeMax + 1)

\* n |= n >> i, as long as i < sizeof(size_t): the loop of _next_powerof2 counts to
\* the size in bytes, so that a bit reaches the seven below it and no further.
Spread(n, i) == IF i < SizeofSize THEN Or[n][n \div 2 ^ i] ELSE n

_next_powerof2(n) ==
  IF n # 0 /\ And[n][n - 1] = 0 THEN n
  ELSE Wrap(Spread(Spread(Spread(Wrap(n - 1), 1), 2), 4) + 1)

\* bufalloc refuses a size that does not fit into a size_t.
bufalloc_fits(n, m) == n = 0 \/ m <= SizeMax \div n

\* Slip: forgets the NULL at the end.
cmdaddv_NoNull(n) ==
  /\ cmd._len + n <= MaxArgs
  /\ IF cmd._len + n > cmd._cap
     THEN LET cap == _next_powerof2(cmd._len + n)
          IN bufalloc_fits(cap, 8) /\ cmd' = [_len |-> cmd._len + n, _cap |-> cap]
     ELSE cmd' = [cmd EXCEPT !._len = @ + n]
  /\ UNCHANGED <<argv, shown>>

\* The array grows when there would be no room for the NULL behind the last one.
cmdaddv(n) ==
  /\ cmd._len + n <= MaxArgs
  /\ IF cmd._len + n >= cmd._cap
     THEN LET cap == Wrap(_next_powerof2(cmd._len + n) + 2)
          IN bufalloc_fits(cap, 8) /\ cmd' = [_len |-> cmd._len + n, _cap |-> cap]
     ELSE cmd' = [cmd EXCEPT !._len = @ + n]
  /\ UNCHANGED <<argv, shown>>

\* The array is kept.  cmdclr writes its first cell: the caller must have added
\* a word before, as every caller in make.c has.
cmdclr ==
  /\ cmd._cap # 0 /\ cmd' = [cmd EXCEPT !._len = 0]
  /\ UNCHANGED <<argv, shown>>

-----------------------------------------------------------------------------
\* Slip: a quote is printed as it is.
Quoted_Plain(word) == <<"'">> \o word \o <<"'">>

\* A single quote leaves the single quotes for double ones.
Escaped == <<"'", "\"", "'", "\"", "'">>

\* A word in single quotes.
Quoted(word) ==
  <<"'">> \o FlattenSeq([i \in 1 .. Len(word) |->
     IF word[i] = "'" THEN Escaped ELSE <<word[i]>>]) \o <<"'">>

\* Each word as it is, or quoted, with blanks between them.
cmdputf(words) ==
  FlattenSeq([i \in 1 .. Len(words) |->
    (IF Range(words[i]) \subseteq ShellSafe THEN words[i] ELSE Quoted(words[i]))
    \o <<IF i = Len(words) THEN "\n" ELSE " ">>])

cmdput(words) == argv' = words /\ shown' = cmdputf(words) /\ UNCHANGED cmd

-----------------------------------------------------------------------------
Init_cmd == cmd = [_len |-> 0, _cap |-> 0] /\ argv = <<>> /\ shown = <<>>

Next_cmd ==
  \/ \E n \in Additions : cmdaddv(n)
  \/ cmdclr
  \/ \E words \in Commands : cmdput(words)

Spec_cmd == Init_cmd /\ [][Next_cmd]_vars_cmd
=============================================================================
