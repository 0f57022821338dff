---------------------------- MODULE ShellParser ----------------------------
(* The shell's parser (sh.c): from the characters of a line to a tree of     *)
(* commands.  Like the code, a word is first a pair of positions in the line *)
(* and becomes a string when nulterminate has written its end; a result is   *)
(* the tree with the position behind it, or the message of panic().          *)
EXTENDS Integers, Sequences, FiniteSetsExt, SequencesExt

CONSTANT MAXARGS

NUL == "NUL"
whitespace == {" ", "\n"}
symbols == {"<", "|", ">", "&", ";", "(", ")"}

Char(s, i) == IF i <= Len(s) THEN s[i] ELSE NUL

(* The first position from i on whose character is in C, or the line's end.  *)
First(s, i, C) == Min({j \in i..Len(s) : s[j] \in C} \cup {Len(s) + 1})

Skip(s, i) == Min({j \in i..Len(s) : s[j] \notin whitespace} \cup {Len(s) + 1})

gettoken(s, i) ==
  LET q == Skip(s, i)
      append == Char(s, q) = ">" /\ Char(s, q + 1) = ">"
      word == Char(s, q) \notin symbols \cup {NUL}
      eq == IF word THEN First(s, q, whitespace \cup symbols)
            ELSE IF append THEN q + 2 ELSE IF Char(s, q) = NUL THEN q ELSE q + 1
  IN [tok  |-> IF word THEN "a" ELSE IF append THEN "+" ELSE Char(s, q),
      word |-> <<q, eq>>,
      next |-> Skip(s, eq)]

peek(s, i, toks) == Char(s, Skip(s, i)) \in toks

Done(i, v) == [err |-> "", pos |-> i, val |-> v]
Fail(why) == [err |-> why, pos |-> 0, val |-> <<>>]

(* What follows a step of the parser, unless the step has panicked. *)
Then(r, K(_)) == IF r.err = "" THEN K(r) ELSE r

execcmd(argv) == [type |-> "EXEC", argv |-> argv]
redircmd(cmd, r) == [type |-> "REDIR", cmd |-> cmd, file |-> r.file, fd |-> r.fd]
pipecmd(left, right) == [type |-> "PIPE", left |-> left, right |-> right]
listcmd(left, right) == [type |-> "LIST", left |-> left, right |-> right]
backcmd(cmd) == [type |-> "BACK", cmd |-> cmd]

(* Each redirection goes around those before it. *)
Redirected(cmd, rs) == FoldLeft(redircmd, cmd, rs)

RECURSIVE parseredirs(_, _, _)
parseredirs(s, i, rs) ==
  LET op == gettoken(s, i)
      file == gettoken(s, op.next)
  IN IF ~peek(s, i, {"<", ">"}) THEN Done(i, rs)
     ELSE IF file.tok # "a" THEN Fail("missing file for redirection")
     ELSE parseredirs(s, file.next,
                      Append(rs, [file |-> file.word, fd |-> IF op.tok = "<" THEN 0 ELSE 1]))

(* argv has no room for one more word and its end. *)
TooMany(argc) == argc >= MAXARGS

(* The loop of parseexec, after a parseredirs.                               *)
RECURSIVE parseargs(_, _, _, _)
parseargs(s, i, argv, rs) ==
  LET t == gettoken(s, i)
  IN IF peek(s, i, {"|", ")", "&", ";"}) \/ t.tok = NUL
     THEN Done(i, Redirected(execcmd(argv), rs))
     ELSE IF t.tok # "a" THEN Fail("syntax")
     ELSE IF TooMany(Len(argv) + 1) THEN Fail("too many args")
     ELSE Then(parseredirs(s, t.next, rs),
               LAMBDA r : parseargs(s, r.pos, Append(argv, t.word), r.val))

RECURSIVE parseline(_, _), parsepipe(_, _), parseblock(_, _), parseexec(_, _), Backs(_, _, _)

parseexec(s, i) ==
  IF peek(s, i, {"("}) THEN parseblock(s, i)
  ELSE Then(parseredirs(s, i, <<>>), LAMBDA r : parseargs(s, r.pos, <<>>, r.val))

parseblock(s, i) ==
  Then(parseline(s, gettoken(s, i).next), LAMBDA r :
    IF ~peek(s, r.pos, {")"}) THEN Fail("syntax - missing )")
    ELSE Then(parseredirs(s, gettoken(s, r.pos).next, <<>>),
              LAMBDA d : Done(d.pos, Redirected(r.val, d.val))))

parsepipe(s, i) ==
  Then(parseexec(s, i), LAMBDA r :
    IF ~peek(s, r.pos, {"|"}) THEN r
    ELSE Then(parsepipe(s, gettoken(s, r.pos).next),
              LAMBDA d : Done(d.pos, pipecmd(r.val, d.val))))

(* The loop of parseline over "&". *)
Backs(s, i, cmd) ==
  IF peek(s, i, {"&"}) THEN Backs(s, gettoken(s, i).next, backcmd(cmd)) ELSE Done(i, cmd)

parseline(s, i) ==
  Then(parsepipe(s, i), LAMBDA r : Then(Backs(s, r.pos, r.val), LAMBDA b :
    IF ~peek(s, b.pos, {";"}) THEN b
    ELSE Then(parseline(s, gettoken(s, b.pos).next),
              LAMBDA d : Done(d.pos, listcmd(b.val, d.val)))))

(* Where nulterminate writes the NUL of a word; faulty: one too far. *)
EndLate(w) == w[2] + 1

End(w) == w[2]

RECURSIVE Ends(_)
Ends(cmd) ==
  CASE cmd.type = "EXEC" -> {End(cmd.argv[k]) : k \in DOMAIN cmd.argv}
    [] cmd.type = "REDIR" -> {End(cmd.file)} \cup Ends(cmd.cmd)
    [] cmd.type = "BACK" -> Ends(cmd.cmd)
    [] OTHER -> Ends(cmd.left) \cup Ends(cmd.right)

(* The string at a word's start, in the line with the NULs E written.        *)
String(s, E, w) == SubSeq(s, w[1], Min({e \in E \cup {Len(s) + 1} : e >= w[1]}) - 1)

(* The tree as runcmd sees it: its words are the strings in the line.        *)
RECURSIVE Strings(_, _, _)
Strings(s, E, cmd) ==
  CASE cmd.type = "EXEC" -> [cmd EXCEPT !.argv = [k \in DOMAIN @ |-> String(s, E, @[k])]]
    [] cmd.type = "REDIR" -> [cmd EXCEPT !.file = String(s, E, @), !.cmd = Strings(s, E, @)]
    [] cmd.type = "BACK" -> [cmd EXCEPT !.cmd = Strings(s, E, @)]
    [] OTHER -> [cmd EXCEPT !.left = Strings(s, E, @), !.right = Strings(s, E, @)]

nulterminate(s, cmd) == Strings(s, Ends(cmd), cmd)

(* A line that does not parse ends the process that parses it. *)
Syntax == [type |-> "panic"]

parsecmd(s) ==
  LET r == parseline(s, 1)
  IN IF r.err # "" \/ Skip(s, r.pos) # Len(s) + 1 THEN Syntax ELSE nulterminate(s, r.val)
=============================================================================
