------------------------- MODULE CommandProperties -------------------------
(***************************************************************************)
(* What cbs.h promises of the commands it stores and shows.                *)
(***************************************************************************)
EXTENDS Command

\* However arguments have been added and cleared, there is room for the NULL
\* behind them that execvp looks for.
ArgvRoom == cmd._cap # 0 => cmd._len < cmd._cap

\* A reader of what has been shown, who follows the rules of the shell: its
\* state is the quote it is in, the word so far and the words it has read.
ReadChar(r, ch) ==
  CASE r.quote # "" /\ ch = r.quote -> [r EXCEPT !.quote = ""]
    [] r.quote \notin {"", ch} -> [r EXCEPT !.word = Append(@, ch)]
    [] r.quote = "" /\ ch \in {"'", "\""} -> [r EXCEPT !.quote = ch]
    [] r.quote = "" /\ ch \in {" ", "\n"} ->
         [r EXCEPT !.word = <<>>, !.words = IF r.word = <<>> THEN @ ELSE Append(@, r.word)]
    [] OTHER -> [r EXCEPT !.word = Append(@, ch)]

ShellWords(text) ==
  LET read[i \in 0 .. Len(text)] ==
        IF i = 0 THEN [quote |-> "", word |-> <<>>, words |-> <<>>]
        ELSE ReadChar(read[i - 1], text[i])
  IN read[Len(text)].words

NotEmpty(words) ==
  FlattenSeq([i \in 1 .. Len(words) |-> IF words[i] = <<>> THEN <<>> ELSE <<words[i]>>])

\* A line that cmdput has shown can be given to a shell, which reads from it the
\* command that is executed.  An empty word is lost: it is shown as nothing.  How
\* the shell takes the words it has read is left out: a first word like A=b
\* would be an assignment to it.
EchoReadable == ShellWords(shown) = NotEmpty(argv)
=============================================================================
