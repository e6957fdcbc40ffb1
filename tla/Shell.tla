--------------------------------- MODULE Shell ---------------------------------
(***************************************************************************)
(* The shell a session talks to: ShellParser, and in the worker process    *)
(* ASTDispatcher and CommandRegistry, which execute a command line against *)
(* the mounted tree one system call at a time.  The mount has no rename:   *)
(* mv copies and then removes.  Any call may fail, and the gateway may     *)
(* kill the worker between any two of them.                                *)
(*                                                                         *)
(* A token is a word or an operator; what the text of a word says (a path, *)
(* an assignment, a number) is given by constants.  A file is a sequence   *)
(* of lines, and a limit in bytes is one in lines.  Messages on stderr are *)
(* left out, and so is 2>, which the lexer splits into 2 and >.  No        *)
(* directory is copied into itself.                                        *)
(***************************************************************************)
EXTENDS Integers, Sequences, FiniteSets, SequencesExt

CONSTANTS
  Name,         \* names of entries
  Text,         \* lines of files and of output
  Word,         \* tokens a command is made of, operators of redirections among them
  Spelling,     \* word -> the path it spells: absolute or not, its parts
  Assigned,     \* words of the form NAME=value -> [name, value]
  Referred,     \* words of the form $NAME -> NAME
  Number,       \* words that are numbers -> the number
  Unsupported,  \* words parse rejects: substitutions
  Line,         \* command lines, sequences of tokens
  Tree0, Home,  \* the tree, and the home directory, at the start
  MaxIO,        \* MAX_IO_BYTES
  MaxPipelines, \* 64 in the code
  MaxEntered,   \* bound on the command lines
  MaxFaults     \* bound on the system calls that fail

VARIABLES
  tree,    \* path -> directory or file
  cwd,     \* env.cwd
  env,     \* env.env: name -> spelling, Empty where there is none
  at,      \* where the worker is
  line,    \* the pipelines of the line in hand
  k, n,    \* the pipeline in hand, and its command
  last,    \* last_returncode
  stdin, stdout, code,  \* of the command in hand
  job,     \* what a command that changes the tree has left to do
  ran,     \* pipeline -> return code, of those of this line that were executed
  printed, \* lines in output_buffer
  entered, faults

shell == <<cwd, env>>
place == <<line, k, n, last, ran, printed, entered>>
vars == <<tree, shell, at, place, stdin, stdout, code, job, faults>>

Dir == [kind |-> "dir", data |-> <<>>]
File(data) == [kind |-> "file", data |-> data]
Empty == [abs |-> FALSE, parts |-> <<>>]
Abs(path) == [abs |-> TRUE, parts |-> path]
NoMove == [from |-> <<>>, to |-> <<>>, held |-> <<>>]
NoJob == [verb |-> "none", args |-> <<>>, force |-> FALSE, recursive |-> FALSE,
          todo |-> <<>>, bad |-> FALSE, move |-> NoMove]
Protected == {"PWD", "OLDPWD", "HOME", "USER", "HOSTNAME"}
Variable == Protected \cup {Assigned[w].name : w \in DOMAIN Assigned}
                      \cup {Referred[w] : w \in DOMAIN Referred}

ListOps == {";", "&&", "||"}
RedirectOps == {">", ">>", "<"}
Spelled == [abs : BOOLEAN, parts : Seq(Name \cup {".", ".."})]
Node == [kind : {"dir", "file"}, data : Seq(Text)]

ASSUME ShellConstants ==
  /\ "." \notin Name /\ ".." \notin Name /\ "listing" \in Text
  /\ RedirectOps \subseteq Word /\ Spelling \in [Word -> Spelled]
  /\ \A w \in DOMAIN Assigned : Assigned[w].value \in Spelled
  /\ \A w \in DOMAIN Number : Number[w] \in Nat
  /\ Line \subseteq Seq(Word \cup ListOps \cup {"|"})
  /\ MaxIO \in Nat \ {0}
  /\ {MaxPipelines, MaxEntered, MaxFaults} \subseteq Nat
  /\ Home \in Seq(Name)

\* The tree is one at the start.
ASSUME TreeConstants ==
  /\ IsFiniteSet(DOMAIN Tree0) /\ DOMAIN Tree0 \subseteq Seq(Name)
  /\ Tree0 \in [DOMAIN Tree0 -> Node]
  /\ <<>> \in DOMAIN Tree0 /\ Tree0[<<>>].kind = "dir"
  /\ \A p \in DOMAIN Tree0 \ {<<>>} : Front(p) \in DOMAIN Tree0 /\ Tree0[Front(p)].kind = "dir"

Init ==
  /\ tree = Tree0 /\ cwd = Home
  /\ env = [v \in Variable |-> IF v \in {"PWD", "OLDPWD", "HOME"} THEN Abs(Home) ELSE Empty]
  /\ at = "prompt" /\ line = <<>> /\ k = 0 /\ n = 0 /\ last = 0
  /\ stdin = <<>> /\ stdout = <<>> /\ code = 0 /\ job = NoJob
  /\ ran = <<>> /\ printed = 0 /\ entered = 0 /\ faults = 0

-----------------------------------------------------------------------------
(* ShellParser *)

\* The items of s that are in S.
Kept(s, S) == FoldLeft(LAMBDA t, x : IF x \in S THEN Append(t, x) ELSE t, <<>>, s)

\* The tokens between two separators, with the separator before them.
NoPart(op) == [op |-> op, tokens |-> <<>>]
Split(tokens, ops) ==
  LET Take(a, t) ==
        IF t \in ops THEN [done |-> Append(a.done, a.part), part |-> NoPart(t)]
        ELSE [a EXCEPT !.part.tokens = Append(@, t)]
      all == FoldLeft(Take, [done |-> <<>>, part |-> NoPart("none")], tokens)
  IN Append(all.done, all.part)
NonEmpty(parts) == {parts[i] : i \in {j \in DOMAIN parts : parts[j].tokens # <<>>}}

\* A redirection (open until then) takes the next token, whatever it is.
NoCommand == [args |-> <<>>, out |-> <<>>, in |-> <<>>, open |-> "none"]
ParsedCommand(tokens) ==
  LET Take(c, t) ==
        CASE c.open = "none" /\ t \in RedirectOps    -> [c EXCEPT !.open = t]
          [] c.open = "none" /\ t \notin RedirectOps -> [c EXCEPT !.args = Append(@, t)]
          [] c.open = "<" -> [c EXCEPT !.in = <<t>>, !.open = "none"]
          [] OTHER        -> [c EXCEPT !.out = <<t, c.open = ">>">>, !.open = "none"]
  IN FoldLeft(Take, NoCommand, tokens)

\* Empty pipelines are passed over; the separator next to the one that follows counts.
Pipelines(tokens) == LET parts == Split(tokens, ListOps) IN Kept(parts, NonEmpty(parts))
ParsedSequence(tokens) ==
  LET parts == Pipelines(tokens) IN
  [i \in DOMAIN parts |->
    [op |-> parts[i].op,
     commands |-> LET c == Split(parts[i].tokens, {"|"})
                  IN [j \in DOMAIN c |-> ParsedCommand(c[j].tokens)]]]
ParserError(tokens) ==
  \/ \E i \in DOMAIN tokens : tokens[i] \in Unsupported
  \/ \E i \in DOMAIN Pipelines(tokens) :
       LET c == Split(Pipelines(tokens)[i].tokens, {"|"}) IN
       \E j \in DOMAIN c : c[j].tokens = <<>> \/ ParsedCommand(c[j].tokens).open # "none"

-----------------------------------------------------------------------------
(* Paths and the tree *)

\* os.path.normpath of an absolute path: lexical, and it stays at the root.
Norm(parts) ==
  FoldLeft(LAMBDA path, part : CASE part = "."  -> path
                                 [] part = ".." -> IF path = <<>> THEN path ELSE Front(path)
                                 [] OTHER       -> Append(path, part), <<>>, parts)
Expand(w) == IF w \in DOMAIN Referred THEN env[Referred[w]] ELSE Spelling[w]
Resolve(w) == LET s == Expand(w) IN Norm(IF s.abs THEN s.parts ELSE cwd \o s.parts)

Exists(p) == p \in DOMAIN tree
IsDir(p) == Exists(p) /\ tree[p].kind = "dir"
IsFile(p) == Exists(p) /\ tree[p].kind = "file"
HasParent(p) == p # <<>> /\ IsDir(Front(p))
Beneath(p) == {q \in DOMAIN tree : p # q /\ IsPrefix(p, q)}
Put(p, node) == [q \in DOMAIN tree \cup {p} |-> IF q = p THEN node ELSE tree[q]]
Without(p) == [q \in DOMAIN tree \ {p} |-> tree[q]]
After(p, q, base) == base \o SubSeq(q, Len(p) + 1, Len(q))
Within(p, dst) == IF IsDir(dst) /\ p # <<>> THEN Append(dst, p[Len(p)]) ELSE dst

\* The system calls of a handler.  `soft' ones only spoil the copytree they are of.
Do(what, p) == [do |-> what, path |-> p, data |-> <<>>, soft |-> FALSE]
Fits(s) ==
  CASE s.do = "mkdir"            -> HasParent(s.path) /\ ~Exists(s.path)
    [] s.do \in {"wb", "ab"}     -> HasParent(s.path) /\ ~IsDir(s.path)
    [] s.do = "write"            -> IsFile(s.path)
    [] s.do = "unlink"           -> IsFile(s.path)
    [] s.do = "rmdir"            -> IsDir(s.path) /\ s.path # <<>> /\ Beneath(s.path) = {}
    [] s.do = "stat"             -> Exists(s.path)
    [] s.do = "check"            -> ~job.bad
    [] s.do \in {"fail", "halt"} -> FALSE
Effect(s) ==
  CASE s.do = "mkdir"              -> Put(s.path, Dir)
    [] s.do = "wb"                 -> Put(s.path, File(<<>>))
    [] s.do = "ab" /\ ~Exists(s.path) -> Put(s.path, File(<<>>))
    [] s.do = "write"              -> Put(s.path, File(tree[s.path].data \o s.data))
    [] s.do \in {"unlink", "rmdir"} -> Without(s.path)
    [] OTHER                       -> tree

-----------------------------------------------------------------------------
(* Handlers that change the tree: the calls of one argument *)

\* shutil.copy2: no file onto itself; the target is truncated before it is written.
Copy2(p, dst) ==
  LET to == Within(p, dst) IN
  IF ~IsFile(p) \/ to = p THEN <<Do("fail", p)>>
  ELSE <<Do("wb", to), [Do("write", to) EXCEPT !.data = tree[p].data], Do("stat", to)>>

\* Parents come before what is in them, and the other way round.
Shortest(set) == CHOOSE p \in set : \A q \in set : Len(p) <= Len(q)
Down(set) == MapThenFoldSet(LAMBDA p, s : <<p>> \o s, <<>>, LAMBDA p : p, Shortest, set)
Up(set) == Reverse(Down(set))
Soft(steps) == [i \in DOMAIN steps |-> [steps[i] EXCEPT !.soft = TRUE]]

\* shutil.copytree goes on after an entry that failed, and raises in the end.
CopyTree(p, dst) ==
  LET Missing == {q \in {SubSeq(dst, 1, i) : i \in 1..(Len(dst) - 1)} : ~Exists(q)}
      One(q) == IF IsDir(q) THEN <<Do("mkdir", After(p, q, dst))>>
                ELSE Copy2(q, After(p, q, dst))
      dirs == Down(Missing) \o <<dst>>
      entries == Down(Beneath(p))
  IN [i \in DOMAIN dirs |-> Do("mkdir", dirs[i])]
     \o Soft(FlattenSeq([i \in DOMAIN entries |-> One(entries[i])]))
     \o <<Do("check", dst)>>
RmTree(p) ==
  LET all == Up(Beneath(p) \cup {p})
  IN [i \in DOMAIN all |-> Do(IF IsDir(all[i]) THEN "rmdir" ELSE "unlink", all[i])]

RemoveCall(p, recursive) ==
  IF ~IsDir(p) THEN <<Do("unlink", p)>>
  ELSE IF recursive THEN RmTree(p) ELSE <<Do("halt", p)>>
CopyCall(p, dst, recursive) ==
  IF ~IsDir(p) THEN Copy2(p, dst)
  ELSE IF recursive THEN CopyTree(p, dst) ELSE <<Do("halt", p)>>

\* Mutant of Moved: the source goes as soon as the target is open.
MovedEarly(p, to) ==
  IF IsDir(p) THEN CopyTree(p, to) \o RmTree(p)
  ELSE <<Do("wb", to), Do("unlink", p), [Do("write", to) EXCEPT !.data = tree[p].data]>>
Moved(p, to) ==
  IF IsDir(p) THEN CopyTree(p, to) \o RmTree(p) ELSE Copy2(p, to) \o <<Do("unlink", p)>>
\* shutil.move on a file system whose rename fails.  Onto itself nothing happens.
MoveCall(p, dst) ==
  IF p = dst /\ Exists(p) THEN <<>>
  ELSE LET to == Within(p, dst) IN
       IF ~Exists(p) \/ (IsDir(dst) /\ Exists(to)) \/ (IsDir(p) /\ IsPrefix(p, to))
       THEN <<Do("fail", p)>> ELSE Moved(p, to)

Movers == {"cp", "mv"}
Writers == {"touch", "mkdir", "rm", "rmdir"} \cup Movers
Calls(verb, p, dst, recursive) ==
  CASE verb = "touch" -> <<Do("ab", p), Do("stat", p)>>
    [] verb = "mkdir" -> <<Do("mkdir", p)>>
    [] verb = "rmdir" -> <<Do("rmdir", p)>>
    [] verb = "rm"    -> RemoveCall(p, recursive)
    [] verb = "cp"    -> CopyCall(p, dst, recursive)
    [] verb = "mv"    -> MoveCall(p, dst)

-----------------------------------------------------------------------------
(* Handlers that do not: the return code and what they print *)

Options == {"-r", "-f", "-rf", "-p", "-n", "-a"}
Option(w) == w \in Options
Paths(args) == Kept(args, Word \ Options)
Answer(c, out) == [code |-> c, out |-> out]
Limited(a) == IF Len(a.out) > MaxIO THEN Answer(1, <<>>) ELSE a

\* What the files that can be read contribute, and whether one could not be.
Data(w, bad) == IF w \in bad \/ ~IsFile(Resolve(w)) THEN <<>> ELSE tree[Resolve(w)].data
Unread(files, bad) == \E i \in DOMAIN files : files[i] \in bad \/ ~IsFile(Resolve(files[i]))
Bit(b) == IF b THEN 1 ELSE 0

Cat(args, bad) ==
  IF args = <<>> THEN Answer(0, stdin)
  ELSE Limited(Answer(Bit(Unread(args, bad)),
                      FlattenSeq([i \in DOMAIN args |-> Data(args[i], bad)])))
\* A pattern occurs in the lines that are the pattern.
Grep(args, bad) ==
  IF args = <<>> \/ Option(args[1]) THEN Answer(2, <<>>)
  ELSE LET files == Tail(args)
           text == IF files = <<>> THEN stdin
                   ELSE FlattenSeq([i \in DOMAIN files |-> Data(files[i], bad)])
           found == Kept(text, {args[1]})
       IN IF Len(found) > MaxIO THEN Answer(2, <<>>)
          ELSE Answer(CASE Unread(files, bad) -> 2 [] found # <<>> -> 0 [] OTHER -> 1, found)
Slice(text, count, tail) ==
  IF tail THEN SubSeq(text, IF Len(text) > count THEN Len(text) - count + 1 ELSE 1, Len(text))
  ELSE SubSeq(text, 1, IF Len(text) > count THEN count ELSE Len(text))
Lines(args, bad, tail) ==
  LET counted == args # <<>> /\ args[1] = "-n"
      files == IF counted THEN SubSeq(args, 3, Len(args)) ELSE args
      Cut(text) == Slice(text, IF counted THEN Number[args[2]] ELSE 10, tail)
  IN IF counted /\ (Len(args) < 2 \/ args[2] \notin DOMAIN Number) THEN Answer(1, <<>>)
     ELSE IF \E i \in DOMAIN files : Option(files[i]) THEN Answer(1, <<>>)
     ELSE IF files = <<>> THEN Answer(0, Cut(stdin))
     ELSE Limited(Answer(Bit(Unread(files, bad)),
                         FlattenSeq([i \in DOMAIN files |-> Cut(Data(files[i], bad))])))

\* Where one is named it must exist; an empty directory is listed as nothing.
Target(args) == IF Paths(args) = <<>> THEN Norm(env["PWD"].parts) ELSE Resolve(Paths(args)[1])
Ls(args) ==
  IF ~Exists(Target(args)) THEN Answer(1, <<>>)
  ELSE Answer(0, IF IsDir(Target(args)) /\ Beneath(Target(args)) = {} THEN <<>> ELSE <<"listing">>)
Find(args) ==
  LET p == IF args = <<>> \/ Option(args[1]) THEN Target(<<>>) ELSE Resolve(args[1])
  IN IF Exists(p) THEN Answer(0, <<"listing">>) ELSE Answer(1, <<>>)
Stat(args) ==
  IF args = <<>> \/ \E i \in DOMAIN args : ~Exists(Resolve(args[i]))
  THEN Answer(1, <<>>) ELSE Answer(0, <<"listing">>)

\* whoami, id, uname and the like: a text from the profile, whatever the tree is.
Printers == {"echo", "whoami", "id", "hostname", "uname", "free", "top", "ps", "ss", "df"}
Readers == {"cat", "grep", "head", "tail", "ls", "find", "stat"}
Builtins == {"cd", "export", "unset", "pwd", "env"}
Read(verb, args, bad) ==
  CASE verb = "cat"  -> Cat(args, bad)
    [] verb = "grep" -> Grep(args, bad)
    [] verb = "head" -> Lines(args, bad, FALSE)
    [] verb = "tail" -> Lines(args, bad, TRUE)
    [] verb = "ls"   -> Ls(args)
    [] verb = "find" -> Find(args)
    [] verb = "stat" -> Stat(args)

-----------------------------------------------------------------------------
(* The environment *)

\* Mutant of Pwd: PWD is the path as it was typed.
PwdTyped(s) == IF s.abs THEN s.parts ELSE env["PWD"].parts \o s.parts
Pwd(s) == Norm(IF s.abs THEN s.parts ELSE env["PWD"].parts \o s.parts)

\* PWD is worked out anew, next to the path that was resolved and looked at.
Cd(args) ==
  LET s == IF args = <<>> THEN env["HOME"] ELSE Expand(args[1])
      p == Norm(IF s.abs THEN s.parts ELSE cwd \o s.parts)
  IN IF IsDir(p)
     THEN /\ env' = [env EXCEPT !["OLDPWD"] = env["PWD"], !["PWD"] = Abs(Pwd(s))]
          /\ cwd' = Pwd(s) /\ code' = 0
     ELSE UNCHANGED <<env, cwd>> /\ code' = 1

\* Mutant of Export: every name can be assigned.
ExportAny(args) ==
  env' = FoldLeft(LAMBDA e, w : IF w \in DOMAIN Assigned
                                THEN [e EXCEPT ![Assigned[w].name] = Assigned[w].value] ELSE e,
                  env, args)
Export(args) ==
  env' = FoldLeft(LAMBDA e, w : IF w \in DOMAIN Assigned /\ Assigned[w].name \notin Protected
                                THEN [e EXCEPT ![Assigned[w].name] = Assigned[w].value] ELSE e,
                  env, args)
Unset(args) ==
  env' = [v \in Variable |-> IF v \notin Protected /\ \E i \in DOMAIN args : args[i] = v
                             THEN Empty ELSE env[v]]

-----------------------------------------------------------------------------
(* ASTDispatcher *)

Pipe == line[k].commands
Cmd == Pipe[n]
Fault == faults < MaxFaults /\ faults' = faults + 1

\* A line is parsed and begun, or refused with 1.
Enter(tokens) ==
  /\ at = "prompt" /\ entered < MaxEntered /\ entered' = entered + 1
  /\ IF ParserError(tokens) \/ Len(Pipelines(tokens)) > MaxPipelines
     THEN at' = "prompt" /\ line' = <<>> /\ last' = 1
     ELSE at' = "line" /\ line' = ParsedSequence(tokens) /\ last' = 0
  /\ k' = 1 /\ n' = 1 /\ ran' = <<>> /\ printed' = 0
  /\ stdin' = <<>> /\ stdout' = <<>> /\ code' = 0 /\ job' = NoJob
  /\ UNCHANGED <<tree, shell, faults>>

\* Mutant of Wanted: a pipeline after || is executed whatever the last one returned.
WantedOnce(op) == op = "&&" => last = 0
Wanted(op) == (op = "&&" => last = 0) /\ (op = "||" => last # 0)

Skip ==
  /\ at = "line" /\ k <= Len(line) /\ ~Wanted(line[k].op)
  /\ k' = k + 1
  /\ UNCHANGED <<tree, shell, at, line, n, last, ran, printed, entered, stdin, stdout, code,
                 job, faults>>
Begin ==
  /\ at = "line" /\ k <= Len(line) /\ Wanted(line[k].op)
  /\ at' = "open" /\ n' = 1 /\ stdin' = <<>>
  /\ UNCHANGED <<tree, shell, line, k, last, ran, printed, entered, stdout, code, job, faults>>
Prompt ==
  /\ at = "line" /\ k > Len(line) /\ at' = "prompt"
  /\ UNCHANGED <<tree, shell, place, stdin, stdout, code, job, faults>>

\* A pipeline is over; too much output ends the line.
Over(c, out) ==
  /\ ran' = [i \in DOMAIN ran \cup {k} |-> IF i = k THEN c ELSE ran[i]]
  /\ printed' = printed + Len(out)
  /\ IF printed + Len(out) > MaxIO THEN at' = "prompt" /\ last' = 1 ELSE at' = "line" /\ last' = c
  /\ k' = k + 1
  /\ UNCHANGED <<line, n, entered>>

\* Redirections are opened before the command: the output, then the input.
OutStep == Do(IF Cmd.out[2] THEN "ab" ELSE "wb", Resolve(Cmd.out[1]))
HasOut == Cmd.out # <<>>
HasIn == Cmd.in # <<>>
OutOpens == HasOut => Fits(OutStep)
Opened == IF HasOut THEN Effect(OutStep) ELSE tree
Given == Resolve(Cmd.in[1])
InOpens == HasIn => Given \in DOMAIN Opened /\ Opened[Given].kind = "file"
                    /\ Len(Opened[Given].data) <= MaxIO
Redirect ==
  /\ at = "open" /\ OutOpens
  /\ tree' = Opened
  /\ IF InOpens
     THEN at' = "run" /\ stdin' = (IF HasIn THEN Opened[Given].data ELSE stdin) /\ UNCHANGED place
     ELSE Over(1, <<>>) /\ stdin' = stdin
  /\ UNCHANGED <<shell, stdout, code, job, faults>>
RedirectFails ==
  /\ at = "open"
  /\ \/ ~OutOpens /\ faults' = faults /\ tree' = tree
     \/ Fault /\ HasOut /\ tree' = tree
     \/ Fault /\ HasIn /\ OutOpens /\ tree' = Opened
  /\ Over(1, <<>>)
  /\ UNCHANGED <<shell, stdin, stdout, code, job>>

Verb == IF Cmd.args = <<>> THEN "none" ELSE Cmd.args[1]
Args == SubSeq(Cmd.args, 2, Len(Cmd.args))
Returns(c, out) == at' = "write" /\ code' = c /\ stdout' = out

\* Nothing to run, a program that is blocked or unknown, or one that only prints.
RunPlain ==
  /\ at = "run" /\ Verb \notin Readers \cup Writers \cup Builtins
  /\ CASE Verb = "none"       -> Returns(0, <<>>)
       [] Verb \in Printers   -> Returns(0, <<"listing">>)
       [] OTHER               -> Returns(127, <<>>)
  /\ UNCHANGED <<tree, shell, place, stdin, job, faults>>
RunBuiltin ==
  /\ at = "run" /\ Verb \in Builtins
  /\ at' = "write" /\ stdout' = IF Verb \in {"pwd", "env"} THEN <<"listing">> ELSE <<>>
  /\ \/ Verb = "cd" /\ Cd(Args)
     \/ Verb = "export" /\ Export(Args) /\ code' = 0 /\ cwd' = cwd
     \/ Verb = "unset" /\ Unset(Args) /\ code' = 0 /\ cwd' = cwd
     \/ Verb \in {"pwd", "env"} /\ code' = 0 /\ UNCHANGED shell
  /\ UNCHANGED <<tree, place, stdin, job, faults>>
\* A read may fail, on an artifact that is still being generated for instance.
RunReader ==
  /\ at = "run" /\ Verb \in Readers
  /\ \/ faults' = faults /\ LET a == Read(Verb, Args, {}) IN Returns(a.code, a.out)
     \/ /\ Fault
        /\ \/ Verb \in {"ls", "find", "stat"} /\ Returns(1, <<>>)
           \/ /\ Verb \in {"cat", "grep", "head", "tail"}
              /\ \E i \in DOMAIN Args :
                   LET a == Read(Verb, Args, {Args[i]}) IN Returns(a.code, a.out)
  /\ UNCHANGED <<tree, shell, place, stdin, job>>
\* mv and cp take the first two words, options or not, for source and target.
Operands == IF Verb \in Movers \cup {"touch", "mkdir", "rmdir"} THEN Args ELSE Paths(Args)
Usage == Args = <<>> \/ (Verb \in Movers /\ Len(Args) < 2)
RunWriter ==
  /\ at = "run" /\ Verb \in Writers
  /\ IF Usage THEN Returns(1, <<>>) /\ job' = job
     ELSE /\ at' = "work" /\ UNCHANGED <<code, stdout>>
          /\ job' = [NoJob EXCEPT !.verb = Verb, !.args = Operands,
                       !.force = \E i \in DOMAIN Args : Args[i] \in {"-f", "-rf"},
                       !.recursive = \E i \in DOMAIN Args :
                         Args[i] = "-r" \/ (Verb = "rm" /\ Args[i] = "-rf")]
  /\ UNCHANGED <<tree, shell, place, stdin, faults>>

\* The files a move starts from, by their place beneath its source.
Held(p) ==
  [r \in {After(p, q, <<>>) : q \in {f \in Beneath(p) \cup {p} : IsFile(f)}} |-> tree[p \o r].data]
NextArg ==
  /\ at = "work" /\ job.todo = <<>> /\ job.args # <<>>
  /\ LET p == Resolve(job.args[1])
         dst == IF job.verb \in Movers THEN Resolve(job.args[2]) ELSE p
     IN job' = [job EXCEPT !.args = IF job.verb \in Movers THEN <<>> ELSE Tail(@),
                  !.todo = Calls(job.verb, p, dst, job.recursive),
                  !.move = IF job.verb = "mv"
                           THEN [from |-> p, to |-> Within(p, dst), held |-> Held(p)] ELSE @]
  /\ UNCHANGED <<tree, shell, at, place, stdin, stdout, code, faults>>
Worked ==
  /\ at = "work" /\ job.todo = <<>> /\ job.args = <<>>
  /\ Returns(0, <<>>) /\ job' = NoJob
  /\ UNCHANGED <<tree, shell, place, stdin, faults>>
Call ==
  /\ at = "work" /\ job.todo # <<>> /\ Fits(Head(job.todo))
  /\ tree' = Effect(Head(job.todo))
  /\ job' = [job EXCEPT !.todo = Tail(@)]
  /\ UNCHANGED <<shell, at, place, stdin, stdout, code, faults>>
\* A copytree notes the failure; rm -f goes on to its next argument; others return 1.
Forgiven == job.verb = "rm" /\ job.force /\ Head(job.todo).do # "halt"
CallFails ==
  /\ at = "work" /\ job.todo # <<>>
  /\ \/ ~Fits(Head(job.todo)) /\ faults' = faults
     \/ Fits(Head(job.todo)) /\ Head(job.todo).do # "check" /\ Fault
  /\ IF Head(job.todo).soft
     THEN job' = [job EXCEPT !.todo = Tail(@), !.bad = TRUE] /\ UNCHANGED <<at, code, stdout>>
     ELSE IF Forgiven
     THEN job' = [job EXCEPT !.todo = <<>>] /\ UNCHANGED <<at, code, stdout>>
     ELSE job' = NoJob /\ Returns(1, <<>>)
  /\ UNCHANGED <<tree, shell, place, stdin>>

\* What the command printed goes to the file that is open for it, or to the next one.
Onward(out) ==
  IF n < Len(Pipe)
  THEN at' = "open" /\ n' = n + 1 /\ UNCHANGED <<line, k, last, ran, printed, entered>>
  ELSE Over(code, out)
Write ==
  /\ at = "write"
  /\ IF HasOut
     THEN /\ tree' = IF IsFile(Resolve(Cmd.out[1]))
                     THEN Effect([Do("write", Resolve(Cmd.out[1])) EXCEPT !.data = stdout])
                     ELSE tree
          /\ stdin' = <<>> /\ Onward(<<>>)
     ELSE tree' = tree /\ stdin' = stdout /\ Onward(stdout)
  /\ UNCHANGED <<shell, stdout, code, job, faults>>
WriteFails ==
  /\ at = "write" /\ HasOut /\ stdout # <<>> /\ Fault
  /\ Over(1, <<>>)
  /\ UNCHANGED <<tree, shell, stdin, stdout, code, job>>

\* The gateway kills the worker, after 20 s or when the client goes.
Killed ==
  /\ at \notin {"dead", "prompt"} /\ at' = "dead"
  /\ UNCHANGED <<tree, shell, place, stdin, stdout, code, job, faults>>

Next ==
  \/ \E tokens \in Line : Enter(tokens)
  \/ Skip \/ Begin \/ Prompt
  \/ Redirect \/ RedirectFails
  \/ RunPlain \/ RunBuiltin \/ RunReader \/ RunWriter
  \/ NextArg \/ Worked \/ Call \/ CallFails
  \/ Write \/ WriteFails \/ Killed
Spec == Init /\ [][Next]_vars
-----------------------------------------------------------------------------
(* Properties *)

\* The tree is one of directories that hold their entries, whatever call fails; input is
\* within its limit, and what was executed is of the line in hand.
TypeOK ==
  /\ DOMAIN tree \subseteq Seq(Name) /\ IsDir(<<>>)
  /\ \A p \in DOMAIN tree : tree[p].kind \in {"dir", "file"} /\ (p # <<>> => IsDir(Front(p)))
  /\ cwd \in Seq(Name) /\ DOMAIN env = Variable
  /\ at \in {"prompt", "line", "open", "run", "work", "write", "dead"}
  /\ k \in 0..(Len(line) + 1) /\ DOMAIN ran \subseteq DOMAIN line
  /\ Len(stdin) <= MaxIO /\ faults \in 0..MaxFaults /\ entered \in 0..MaxEntered

\* mv copies and removes: whatever call fails, and whenever the worker is killed, each
\* file it was to move is whole at the source or at the target.
MvKeeps ==
  \A r \in DOMAIN job.move.held :
    \E p \in {job.move.from \o r, job.move.to \o r} :
      IsFile(p) /\ tree[p].data = job.move.held[r]

\* The and-or list around pipeline i, read as a Boolean expression from the left.
ListStart(i) ==
  CHOOSE j \in 1..i : (line[j].op \notin {"&&", "||"} \/ j = 1)
                      /\ \A m \in (j + 1)..i : line[m].op \in {"&&", "||"}
Succeeds(i) == i \in DOMAIN ran /\ ran[i] = 0
Holds(i) ==
  LET value[j \in ListStart(i)..i] ==
        IF j = ListStart(i) THEN Succeeds(j)
        ELSE IF line[j].op = "&&" THEN value[j - 1] /\ Succeeds(j) ELSE value[j - 1] \/ Succeeds(j)
  IN value[i]

\* a || b && c: a pipeline is executed exactly when the list before it does not decide
\* it yet, and the line returns 0 exactly when its last list holds, unless a limit cut
\* it short.  (Bash refuses a line that starts with && or ||.)
ListsRight ==
  line # <<>> /\ line[1].op \in {"none", ";"} =>
  /\ \A i \in DOMAIN line :
       i < k => (i \in DOMAIN ran <=> \/ i = ListStart(i)
                                      \/ line[i].op = "&&" /\ Holds(i - 1)
                                      \/ line[i].op = "||" /\ ~Holds(i - 1))
  /\ at = "prompt" /\ printed <= MaxIO => (last = 0 <=> Holds(Len(line)))

\* cd looks at one path and works out another: the directory the shell is in from
\* then on was there to be entered, and it is the one PWD names, whatever a line exports.
CwdTrue == [][/\ cwd' # cwd => IsDir(cwd')
              /\ env'["PWD"] = Abs(cwd')]_vars

=============================================================================
