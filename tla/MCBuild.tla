------------------------------- MODULE MCBuild -------------------------------
(* Instances of Build, of Command and of Query, for TLC. *)
EXTENDS BuildProperties, CommandProperties, QueryProperties
CONSTANTS common_c, ewctl_c, ewd_c

\* A source in each directory, and a header that each directory lists.
SmallDir ==
  [s \in Sources |-> CASE s = common_c -> "common" [] s = ewctl_c -> "ewctl" [] OTHER -> "ewd"]
SmallHeaders == {"common.h", "da.h"}

\* Words of up to two characters: a harmless one, the quotes and the blanks.
SmallChars == {"a", "'", "\"", " ", "\n"}
SmallWords == SeqOf(SmallChars, 2)
SmallCommands == {<<first, second>> : first, second \in SmallWords}

\* pkg-config is in the first directory, in the second, or nowhere; two libraries
\* have words, one has nothing, and one answer is not for a shell to split.
SmallPaths == {<<"with">>, <<"without", "with">>, <<"without">>}
SmallTexts == {<<"a", " ", "b", "\n">>, <<"\n">>, <<"a", "|", "b", "\n">>}

\* A behaviour is about one of three: a command is stored, or one of them shown;
\* pkg-config is asked; or make is used.
MCInit == Init /\ Init_cmd /\ Init_query
Unused == pc = "off" /\ edits = 0 /\ runs = 0
Untried == cmd._cap = 0 /\ argv = <<>>
Unasked == qpc = "start" /\ errno = "other"
Try(A) ==
  /\ Unused /\ Unasked /\ argv = <<>>
  /\ A /\ (argv' # <<>> => cmd._cap = 0)
  /\ UNCHANGED <<vars, vars_query>>
Ask(A) == Unused /\ Untried /\ A /\ UNCHANGED <<vars, vars_cmd>>
Use(A) == Untried /\ Unasked /\ A /\ UNCHANGED <<vars_cmd, vars_query>>

MCNext ==
  \/ Ask(binexists)
  \/ Ask(cmdexecb)
  \/ Ask(close_write)
  \/ Ask(read)
  \/ Ask(cmdwait)
  \/ Ask(pcquery_returns)
  \/ Ask(strvfree)
  \/ Ask(execvp)
  \/ Ask(Write_pipe)
  \/ \E s \in {0, 1} : Ask(Ends(s))
  \/ Ask(Signalled)
  \/ \E n \in Additions : Try(cmdaddv(n))
  \/ Try(cmdclr)
  \/ Unused /\ \E words \in Commands : Try(cmdput(words))
  \/ \E f \in Written : Use(Edit(f))
  \/ Use(Bootstrap)
  \/ Use(Start)
  \/ Use(Kill)
  \/ Use(Rebuild)
  \/ Use(Begin)
  \/ Use(Clean)
  \/ Use(_mkoutpath)
  \/ Use(Install)
  \/ Use(Cflags)
  \/ \E s \in Sources : Use(Compile(s))
  \/ Use(Libs)
  \/ Use(Link)
  \/ Use(NextDir)
  \/ Use(Exit)
  \/ Use(Succeeds)
  \/ Use(Fails)

MCSpec ==
  /\ MCInit /\ [][MCNext]_<<vars, vars_cmd, vars_query>>
  /\ WF_vars(MakeSteps) /\ WF_vars_query(ParentSteps) /\ WF_vars_query(ChildSteps)
=============================================================================
