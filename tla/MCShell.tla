------------------------------- MODULE MCShell -------------------------------
(* Instances of Shell for TLC. *)
EXTENDS Shell

C == execcmd(<<<<"c">>>>)
E == execcmd(<<<<"e", "e">>, <<"x">>>>)
N == execcmd(<<<<"n">>>>)
To(cmd, file) == redircmd(cmd, [file |-> file, fd |-> 1])
From(cmd, file) == redircmd(cmd, [file |-> file, fd |-> 0])

Typed(text, cmd) == [text |-> text, cmd |-> cmd]

SomeLines ==
  {Typed(<<"e", "e", " ", "x", "|", "c", "|", "n", "\n">>, pipecmd(E, pipecmd(C, N))),
   Typed(<<"c", " ", "&", "\n">>, backcmd(C)),
   Typed(<<"(", "e", "e", " ", "x", ";", "c", "<", "f", "&", ")", "|", "c", ">", ">", "g">>,
         pipecmd(listcmd(E, backcmd(From(C, <<"f">>))), To(C, <<"g">>))),
   Typed(<<"c", "<", "g", " ", ">", "f", "\n">>, To(From(C, <<"g">>), <<"f">>)),
   Typed(<<"n", " ", "a", " ", "b", "\n">>, Syntax),
   Typed(<<"c", "&", "c", "\n">>, Syntax)}

ReaderWords == {<<"c">>}
WriterWords == {<<"e", "e">>}
SomeFiles == {<<"f">>}
=============================================================================
