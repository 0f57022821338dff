-------------------------------- MODULE Shell --------------------------------
(* The shell (sh.c) and init (init.c) running command lines: the system      *)
(* calls runcmd makes for each kind of command, on the descriptor tables of  *)
(* the processes it forks, with the process table and the file table at      *)
(* their limits.  A step is one system call.                                 *)
(*                                                                           *)
(* A process's program is the list of calls it still has to make (todo); the *)
(* list of a command follows from its tree.  An open file is <<kind, id>>,   *)
(* id being the node of the tree that opened it.  Directories, and so cd,    *)
(* are in Inode; files have no content here.                                 *)
EXTENDS ShellParser, FiniteSets

CONSTANTS
  NPROC, NOFILE, NFILE,
  Lines,      \* what may be typed: [text, cmd], cmd the tree it should give
  Readers,    \* programs that copy their input to their output, like cat
  Writers,    \* programs that write once, like echo
  Existing,   \* the files there are at the start
  MaxLines    \* bound on the lines typed

Slots == 1..NPROC
Init1 == 1
FDs == 0..(NOFILE - 1)

None == <<"none", <<>>>>
Console == <<"console", <<>>>>
ReadEnd(id) == <<"read", id>>
WriteEnd(id) == <<"write", id>>

VARIABLES
  proc,       \* st, parent, todo, fd, pipe (the array p of runcmd), id
  sh,         \* the process init takes for the shell
  typed,      \* number of lines typed
  files,      \* the files there are
  full,       \* the pipes that hold a byte (PIPESIZE = 1)
  lines,      \* history: for each line being run, what was typed and parsed
  ran,        \* history: programs run: [id, in, out]
  failed,     \* history: lines for which a call has failed
  panic       \* the kernel's

vars == <<proc, sh, typed, full, lines, ran, failed, panic, files>>
histories == <<lines, ran, failed>>

Free == [st |-> "unused", parent |-> 0, todo |-> <<>>, fd |-> [f \in FDs |-> None],
         pipe |-> <<0, 0>>, id |-> <<0>>]

-----------------------------------------------------------------------------
(* runcmd as the calls it makes.  Its tail calls of runcmd are the rest of   *)
(* the same process's list, a fork carries the list of the child.            *)

Exit == <<<<"exit">>>>
Fork(todo, id) == <<<<"fork", todo, id>>>>
Close(fd) == <<<<"close", fd>>>>
CloseEnd(k) == <<<<"closeEnd", k>>>>     \* close(p[k - 1])
CloseEnds == CloseEnd(1) \o CloseEnd(2)
DupEnd(k) == <<<<"dupEnd", k>>>>
Wait == <<<<"wait">>>>

(* The children of a PIPE put their end in place of a standard descriptor;   *)
(* faulty: dup before close.                                                 *)
EndOnDupFirst(k) == DupEnd(k) \o Close(k - 1) \o CloseEnds

EndOn(k) == Close(k - 1) \o DupEnd(k) \o CloseEnds

(* The parent of a pipeline; faulty: it keeps its ends, it waits once.       *)
PipeParentKeeps == Wait \o Wait

PipeParentOnce == CloseEnds \o Wait

PipeParent == CloseEnds \o Wait \o Wait

RECURSIVE runcmd(_, _)
runcmd(cmd, id) ==
  CASE cmd.type = "panic" -> Exit
    [] cmd.type = "EXEC" -> IF cmd.argv = <<>> THEN Exit ELSE <<<<"exec", Head(cmd.argv), id>>>>
    [] cmd.type = "REDIR" ->
         Close(cmd.fd) \o <<<<"open", cmd.fd, cmd.file, id>>>> \o runcmd(cmd.cmd, Append(id, 1))
    [] cmd.type = "LIST" ->
         Fork(runcmd(cmd.left, Append(id, 1)), Append(id, 1)) \o Wait
           \o runcmd(cmd.right, Append(id, 2))
    [] cmd.type = "PIPE" ->
         <<<<"pipe", id>>>>
           \o Fork(EndOn(2) \o runcmd(cmd.left, Append(id, 1)), Append(id, 1))
           \o Fork(EndOn(1) \o runcmd(cmd.right, Append(id, 2)), Append(id, 2))
           \o PipeParent \o Exit
    [] cmd.type = "BACK" -> Fork(runcmd(cmd.cmd, Append(id, 1)), Append(id, 1)) \o Exit

-----------------------------------------------------------------------------
(* The system calls. *)

Live(p) == proc[p].st # "unused"
At(p, call) == panic = "" /\ proc[p].st = "run" /\ Head(proc[p].todo)[1] = call
Arg(p, k) == Head(proc[p].todo)[k + 1]
Next1(p) == Tail(proc[p].todo)
Line(p) == Head(proc[p].id)

Open == UNION {{proc[p].fd[f] : f \in FDs} : p \in Slots} \ {None}
FreeFd(fd) == {f \in FDs : fd[f] = None}
FreeSlots == {p \in Slots : ~Live(p)}
HasFiles(n) == Cardinality(Open) + n <= NFILE

(* fdalloc: the lowest descriptor. *)
Install(fd, f) == IF FreeFd(fd) = {} THEN fd ELSE [fd EXCEPT ![Min(FreeFd(fd))] = f]

Go(p, todo, fd) == proc' = [proc EXCEPT ![p].todo = todo, ![p].fd = fd]
Fails(p) == failed' = failed \cup {Line(p)}

close(p) ==
  /\ At(p, "close") \/ At(p, "closeEnd")
  /\ LET f == IF At(p, "close") THEN Arg(p, 1) ELSE proc[p].pipe[Arg(p, 1)]
     IN Go(p, Next1(p), [proc[p].fd EXCEPT ![f] = None])
  /\ UNCHANGED <<typed, sh, full, histories, panic, files>>

dup(p) ==
  /\ At(p, "dupEnd")
  /\ Go(p, Next1(p), Install(proc[p].fd, proc[p].fd[proc[p].pipe[Arg(p, 1)]]))
  /\ UNCHANGED <<typed, sh, full, histories, panic, files>>

(* REDIR's open; an output file is created first, if need be, and stays. *)
open(p) ==
  /\ At(p, "open")
  /\ IF HasFiles(1) /\ FreeFd(proc[p].fd) # {} /\ (Arg(p, 1) = 0 => Arg(p, 2) \in files)
     THEN Go(p, Next1(p), Install(proc[p].fd, <<"file", Arg(p, 3)>>)) /\ UNCHANGED failed
     ELSE Go(p, Exit, proc[p].fd) /\ Fails(p)
  /\ files' = IF Arg(p, 1) = 1 THEN files \cup {Arg(p, 2)} ELSE files
  /\ UNCHANGED <<typed, sh, full, lines, ran, panic>>

sys_pipe(p) ==
  /\ At(p, "pipe")
  /\ LET r == Min(FreeFd(proc[p].fd))
         w == Min(FreeFd(proc[p].fd) \ {r})
         id == Arg(p, 1)
     IN IF HasFiles(2) /\ Cardinality(FreeFd(proc[p].fd)) >= 2
        THEN /\ proc' = [proc EXCEPT ![p].todo = Next1(p), ![p].pipe = <<r, w>>,
                                     ![p].fd = [@ EXCEPT ![r] = ReadEnd(id), ![w] = WriteEnd(id)]]
             /\ full' = full \ {id}
             /\ UNCHANGED failed
        ELSE Go(p, Exit, proc[p].fd) /\ Fails(p) /\ UNCHANGED full
  /\ UNCHANGED <<typed, sh, lines, ran, panic, files>>

(* fork1, whose panic() ends the process. *)
fork1(p) ==
  /\ At(p, "fork")
  /\ IF FreeSlots # {}
     THEN /\ LET c == [proc[p] EXCEPT !.parent = p, !.todo = Arg(p, 1), !.id = Arg(p, 2)]
             IN proc' = [proc EXCEPT ![p].todo = Next1(p), ![Min(FreeSlots)] = c]
          /\ UNCHANGED failed
     ELSE Go(p, Exit, proc[p].fd) /\ failed' = failed \cup {Head(Arg(p, 2))}
  /\ UNCHANGED <<typed, sh, full, lines, ran, panic, files>>

Children(p) == {c \in Slots : Live(c) /\ proc[c].parent = p}
Zombies(p) == {c \in Children(p) : proc[c].st = "zombie"}

wait(p) ==
  /\ At(p, "wait")
  /\ Children(p) = {} \/ Zombies(p) # {}
  /\ LET reaped == IF Zombies(p) = {} THEN {} ELSE {Min(Zombies(p))}
     IN proc' = [q \in Slots |-> IF q \in reaped THEN Free
                                 ELSE IF q = p THEN [proc[p] EXCEPT !.todo = Tail(@)] ELSE proc[q]]
  /\ UNCHANGED <<typed, sh, full, histories, panic, files>>

(* exit closes the descriptors and gives the children to init. *)
exit(p) ==
  /\ At(p, "exit")
  /\ IF p = Init1 THEN panic' = "init exiting" /\ UNCHANGED proc
     ELSE /\ proc' = [q \in Slots |->
                        IF q = p THEN [Free EXCEPT !.st = "zombie", !.parent = proc[p].parent,
                                                   !.id = proc[p].id]
                        ELSE IF q \in Children(p) THEN [proc[q] EXCEPT !.parent = Init1]
                        ELSE proc[q]]
          /\ UNCHANGED panic
  /\ UNCHANGED <<typed, sh, full, histories, files>>

-----------------------------------------------------------------------------
(* The programs that are run. *)

exec(p) ==
  /\ At(p, "exec")
  /\ LET w == Arg(p, 1) IN
       Go(p, IF w \in Readers THEN <<<<"read">>>>
             ELSE IF w \in Writers THEN <<<<"write">>, <<"exit">>>> ELSE Exit,
          proc[p].fd)
  /\ ran' = ran \cup {[id |-> Arg(p, 2), in |-> proc[p].fd[0], out |-> proc[p].fd[1]]}
  /\ UNCHANGED <<typed, sh, full, lines, failed, panic, files>>

(* read(0): a pipe is at its end once no process has its write end; the      *)
(* other files are taken to be at their end.                                 *)
read(p) ==
  /\ At(p, "read")
  /\ LET id == proc[p].fd[0][2] IN
       IF proc[p].fd[0][1] = "read" /\ id \in full
       THEN full' = full \ {id} /\ Go(p, <<<<"write">>, <<"read">>>>, proc[p].fd)
       ELSE /\ proc[p].fd[0] = ReadEnd(id) => WriteEnd(id) \notin Open
            /\ Go(p, Exit, proc[p].fd)
            /\ UNCHANGED full
  /\ UNCHANGED <<typed, sh, histories, panic, files>>

(* write(1), which fails on a pipe that nobody reads. *)
write(p) ==
  /\ At(p, "write")
  /\ LET id == proc[p].fd[1][2]
         piped == proc[p].fd[1] = WriteEnd(id)
         broken == piped /\ ReadEnd(id) \notin Open
     IN /\ piped /\ ~broken => id \notin full
        /\ full' = IF piped /\ ~broken THEN full \cup {id} ELSE full
        /\ Go(p, IF broken THEN Exit ELSE Next1(p), proc[p].fd)
  /\ UNCHANGED <<typed, sh, histories, panic, files>>

-----------------------------------------------------------------------------
(* The shell and init. *)

(* The opens of sh's main: with 0 to 2 open, the next is closed again.       *)
main(p) ==
  /\ At(p, "main")
  /\ LET fd == proc[p].fd IN
       IF HasFiles(1) /\ FreeFd(fd) # {} /\ Min(FreeFd(fd)) < 3
       THEN Go(p, proc[p].todo, Install(fd, Console))
       ELSE Go(p, <<<<"getcmd">>>>, fd)
  /\ UNCHANGED <<typed, sh, full, histories, panic, files>>

(* Lines whose processes are gone are forgotten when the next is read. *)
Running(n) == \E p \in Slots : Live(p) /\ Line(p) = n
Pending == {n \in DOMAIN lines : Running(n)}
Number == Min({n \in 1..NPROC : ~Running(n)})

(* The child that the shell forks for a line parses it and runs it. *)
Parsed == [l \in Lines |-> parsecmd(l.text)]
Child == [l \in Lines, n \in 1..NPROC |-> runcmd(Parsed[l], <<n>>)]

getcmd(p, l) ==
  /\ At(p, "getcmd")
  /\ typed < MaxLines /\ typed' = typed + 1
  /\ LET n == Number
     IN /\ lines' = [k \in Pending \cup {n} |-> IF k = n THEN [meant |-> l.cmd, cmd |-> Parsed[l]]
                                             ELSE lines[k]]
        /\ Go(p, Fork(Child[l, n], <<n>>) \o Wait \o <<<<"getcmd">>>>, proc[p].fd)
  /\ ran' = {r \in ran : Head(r.id) \in Pending}
  /\ failed' = failed \cap Pending
  /\ UNCHANGED <<sh, full, panic, files>>

getcmd_eof(p) ==
  /\ At(p, "getcmd")
  /\ Go(p, Exit, proc[p].fd)
  /\ UNCHANGED <<typed, sh, full, histories, panic, files>>

init_start ==
  /\ At(Init1, "start")
  /\ IF FreeSlots = {} THEN Go(Init1, Exit, proc[Init1].fd) /\ UNCHANGED sh
     ELSE LET c == Min(FreeSlots) IN
            /\ sh' = c
            /\ proc' = [proc EXCEPT ![Init1].todo = <<<<"reap">>>>,
                                    ![c] = [proc[Init1] EXCEPT !.parent = Init1, !.todo = <<<<"main">>>>]]
  /\ UNCHANGED <<typed, full, histories, panic, files>>

init_wait ==
  /\ At(Init1, "reap")
  /\ Zombies(Init1) # {}
  /\ LET z == Min(Zombies(Init1)) IN
       proc' = [proc EXCEPT ![z] = Free,
                            ![Init1].todo = IF z = sh THEN <<<<"start">>>> ELSE @]
  /\ UNCHANGED <<typed, sh, full, histories, panic, files>>

Init ==
  /\ proc = [p \in Slots |->
               IF p # Init1 THEN Free
               ELSE [Free EXCEPT !.st = "run", !.todo = <<<<"start">>>>,
                                 !.fd = [f \in FDs |-> IF f < 3 THEN Console ELSE None]]]
  /\ sh = 0 /\ typed = 0 /\ files = Existing /\ full = {} /\ lines = <<>> /\ ran = {} /\ failed = {} /\ panic = ""

step(p) ==
  \/ close(p) \/ dup(p) \/ open(p) \/ sys_pipe(p) \/ fork1(p) \/ wait(p) \/ exit(p)
  \/ exec(p) \/ read(p) \/ write(p) \/ main(p)
  \/ \E l \in Lines : getcmd(p, l)
  \/ getcmd_eof(p)

Next == init_start \/ init_wait \/ \E p \in Slots : step(p)

(* The system takes a step as long as some process has one to take; which    *)
(* process is left to the scheduler.                                         *)
Spec == Init /\ [][Next]_vars /\ WF_vars(Next)

-----------------------------------------------------------------------------
(* Correctness. *)

(* What a command line means: the programs it runs, each with its input and  *)
(* its output.                                                               *)
RECURSIVE Meaning(_, _, _, _)
Meaning(cmd, id, in, out) ==
  CASE cmd.type = "panic" -> {}
    [] cmd.type = "EXEC" -> IF cmd.argv = <<>> THEN {} ELSE {[id |-> id, in |-> in, out |-> out]}
    [] cmd.type = "REDIR" ->
         LET f == <<"file", id>> IN
           Meaning(cmd.cmd, Append(id, 1), IF cmd.fd = 0 THEN f ELSE in, IF cmd.fd = 1 THEN f ELSE out)
    [] cmd.type = "LIST" ->
         Meaning(cmd.left, Append(id, 1), in, out) \cup Meaning(cmd.right, Append(id, 2), in, out)
    [] cmd.type = "PIPE" ->
         Meaning(cmd.left, Append(id, 1), in, WriteEnd(id))
           \cup Meaning(cmd.right, Append(id, 2), ReadEnd(id), out)
    [] cmd.type = "BACK" -> Meaning(cmd.cmd, Append(id, 1), in, out)

(* Whether the node at a path of the tree is part of what the shell waits for.*)
RECURSIVE Foreground(_, _)
Foreground(cmd, path) ==
  path = <<>> \/ /\ cmd.type # "BACK"
                 /\ Foreground(IF cmd.type = "REDIR" THEN cmd.cmd
                               ELSE IF Head(path) = 1 THEN cmd.left ELSE cmd.right, Tail(path))

(* A line is parsed to the tree it is written for, its words uncut by the    *)
(* NULs that nulterminate writes between them, or refused.                   *)
ParsedAsMeant == \A n \in DOMAIN lines : lines[n].cmd = lines[n].meant

(* Every program of a line runs with the standard input and output that the  *)
(* line gives it, and no other descriptor: a pipe end left open would keep   *)
(* the reader from seeing the pipe's end.  A line whose processes are gone   *)
(* has run all its programs, if no call failed.                              *)
RunsAsMeant ==
  /\ \A n \in DOMAIN lines :
       LET m == Meaning(lines[n].meant, <<n>>, Console, Console)
           r == {x \in ran : Head(x.id) = n}
       IN /\ r \subseteq m
          /\ ~Running(n) /\ n \notin failed /\ (\A p \in Slots : At(p, "fork") => Head(Arg(p, 2)) # n)
               => r = m
  /\ \A p \in Slots : At(p, "exec") =>
       {f \in FDs : proc[p].fd[f] # None} = 0..2 /\ proc[p].fd[2] = Console

(* When the shell prompts again nothing that it should have waited for is    *)
(* left, not even as a zombie; background commands may be.                   *)
ForegroundDone ==
  (\E s \in Slots : At(s, "getcmd")) =>
    \A p \in Slots : Live(p) /\ Line(p) \in DOMAIN lines \ failed =>
      ~Foreground(lines[Line(p)].cmd, Tail(proc[p].id))

(* The user gets a prompt again and again, whatever is run and whatever      *)
(* fails: every pipeline comes to its end and init restarts the shell.       *)
PromptReturns == []<>(panic # "" \/ \E p \in Slots : At(p, "getcmd"))
=============================================================================
