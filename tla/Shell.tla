-------------------------------- MODULE Shell ---------------------------------
(***************************************************************************)
(* The shell of kern/main.c: the configuration kernel_late_init makes, the *)
(* script autorun.esh, and the command lines typed afterwards.  A command  *)
(* line is cut into arguments with strtok, whose saved pointer is one for  *)
(* the whole kernel; fs_open uses it too.  Of the commands, those are      *)
(* modelled that change the configuration or the environment, getconf, and *)
(* read for all that open a file; the others show or set what the shell    *)
(* does not read.  The environment is a map (Environment implements it).   *)
(***************************************************************************)
EXTENDS Config

CONSTANTS
    Scripts,        \* contents of autorun.esh
    NoScript,       \* no such file, or one that is empty or cannot be read
    CommandLines,   \* what is typed
    Unrelated,      \* internal commands that change nothing modelled here
    MaxTyped        \* bound: lines typed

VARIABLES
    at,             \* "config" | "open" | "autorun" | "prompt" | "stopped"
    todo,           \* calls of kernel_late_init to come
    script,         \* what autorun.esh held
    data,           \* the buffer with the script
    rsave,          \* process_autorun's own saveptr
    strtokSave,     \* strtok's saveptr: the buffer it points into, and where
    ran,            \* the arguments of the commands of the script, one by one
    rootenv,        \* the environment
    last,           \* the command line processed last
    entered         \* lines typed

shellvars == <<at, todo, script, data, rsave, strtokSave, ran, rootenv, last, entered>>

LateInit ==
    <<[path |-> <<"sys", ":", "prompt">>, type |-> "str", val |-> <<"# ">>],
      [path |-> <<"sys", ":", "&stdout">>, type |-> "obj", val |-> 1],
      [path |-> <<"sys", ":", "&stdin">>, type |-> "obj", val |-> 2],
      [path |-> <<"sys", ":", "def_fs">>, type |-> "str", val |-> <<"hd0p0">>]>>

ShellInit ==
    /\ at = "config" /\ todo = LateInit
    /\ script \in Scripts \cup {NoScript} /\ data = Buffer(<<>>) /\ rsave = 1
    /\ strtokSave = [in |-> "NULL", at |-> 0]
    /\ ran = <<>> /\ rootenv = Nothing /\ last = <<>> /\ entered = 0

\* kernel_late_init up to main.
Configure ==
    /\ at = "config"
    /\ IF "sys" \notin {n[1] : n \in DOMAIN namespaces}
       THEN config_newns(<<"sys">>) /\ UNCHANGED <<at, todo>>
       ELSE LET c == Head(todo) IN
            /\ IF c.type = "str" THEN config_setstr(c.path, c.val)
               ELSE config_setobjns(Namespace(c.path), Key(c.path), c.val)
            /\ todo' = Tail(todo)
            /\ at' = IF Len(todo) = 1 THEN "open" ELSE at
    /\ UNCHANGED <<script, data, rsave, strtokSave, ran, rootenv, last, entered>>

InPath == [in |-> "path", at |-> 0]

\* process_autorun up to its loop: fs_open cuts its path with strtok.
OpenScript ==
    /\ at = "open"
    /\ strtokSave' = InPath
    /\ IF script = NoScript
       THEN at' = "prompt" /\ UNCHANGED <<data, rsave>>
       ELSE at' = "autorun" /\ data' = Buffer(script) /\ rsave' = 1
    /\ UNCHANGED <<todo, script, ran, rootenv, last, entered, confvars>>
-------------------------------------------------------------------------------
\* The line without its comment.
CutComment(cmd) == IF strchr(cmd, "#") = 0 THEN cmd ELSE SubSeq(cmd, 1, strchr(cmd, "#") - 1)

\* The calls of strtok, the first with the line and each other with NULL.
Tokens(cmd) ==
    LET r[n \in 0 .. Len(cmd)] ==
            IF n = 0 THEN strtok_r(Buffer(cmd), 1, {" "})
            ELSE LET before == r[n - 1] IN strtok_r(before.buf, before.save, {" "})
    IN r

argc(cmd) == 1 + Cardinality({n \in 1 .. Len(cmd) : Tokens(cmd)[n].tok # 0})

\* Mutation: the argument begins at the next word.
NextArg_Word(buf, p) == Skip(buf, p + strlen(buf, p) + 1, {" "})

\* The argument after the one at p begins behind its Nul, in front of further spaces.
NextArg(buf, p) == p + strlen(buf, p) + 1

\* argv, of a line with a token.  Without one argv[0] is NULL, and no argument follows.
argv(cmd) ==
    LET done == Tokens(cmd)[Len(cmd)].buf
        arg[i \in 1 .. argc(cmd)] == IF i = 1 THEN Tokens(cmd)[0].tok ELSE NextArg(done, arg[i - 1])
    IN IF Tokens(cmd)[0].tok = 0 THEN <<>> ELSE [i \in 1 .. argc(cmd) |-> StrAt(done, arg[i])]
-------------------------------------------------------------------------------
\* The arguments from the third on, joined in the buffer of setenv and setconf.
Joined(args) == FoldLeft(LAMBDA s, a : s \o <<" ">> \o a, args[3], SubSeq(args, 4, Len(args)))

\* The buffer begins and ends with a quote, which may be one and the same.
Quoted(s) == Head(s) = "\"" /\ Last(s) = "\""

Unquoted(s) == SubSeq(s, 2, Len(s) - 1)

Unconfigured == UNCHANGED confvars

\* With no value the key is copied into a buffer of no bytes: what follows on the heap is
\* overwritten, with or without consequence.
NoValueGiven ==
    /\ at' \in {at, "stopped"}
    /\ UNCHANGED rootenv /\ Unconfigured

setenv(args) ==
    \/ Len(args) = 2 /\ NoValueGiven
    \/ /\ Len(args) > 2
       /\ rootenv' = IF Quoted(Joined(args)) THEN args[2] :> Unquoted(Joined(args)) @@ rootenv
                     ELSE rootenv
       /\ at' = at /\ Unconfigured
    \/ Len(args) < 2 /\ UNCHANGED <<at, rootenv>> /\ Unconfigured

setconf(args) ==
    \/ Len(args) = 2 /\ NoValueGiven
    \/ /\ Len(args) > 2
       /\ IF Quoted(Joined(args)) THEN config_setstr(args[2], Unquoted(Joined(args)))
          ELSE Unconfigured
       /\ at' = (IF confStopped' THEN "stopped" ELSE at) /\ UNCHANGED rootenv
    \/ Len(args) < 2 /\ UNCHANGED <<at, rootenv>> /\ Unconfigured

\* argc is never less than 1, so that without a key argv[1] is read behind the array: a path
\* without ":" or one that stops the kernel.  The value shown is the one of that type.
getconf(args) ==
    /\ IF Len(args) < 2
       THEN at' \in {at, "stopped"} /\ Unconfigured
       ELSE config_gettype(args[2]) /\ at' = IF confStopped' THEN "stopped" ELSE at
    /\ UNCHANGED rootenv

\* The name looked up in commands.  Without a token it is NULL, and the bytes at address 0
\* are no command's name.
Name(args) == IF args = <<>> THEN <<>> ELSE args[1]

\* A command on a file, as read, and the program of a name that is no command are opened.
OpensFile(args) ==
    Name(args) \notin {<<c>> : c \in Unrelated \cup {"setenv", "setconf", "getconf"}}

\* process_command_string of a line: comment, arguments, command.
Process(cmd) ==
    LET args == argv(CutComment(cmd))
        final == Tokens(CutComment(cmd))[Len(CutComment(cmd))].save IN
    IF CutComment(cmd) = <<>>
    THEN UNCHANGED <<at, strtokSave, rootenv>> /\ Unconfigured
    ELSE /\ strtokSave' = IF OpensFile(args) THEN InPath ELSE [in |-> "cmd", at |-> final]
         /\ \/ Name(args) = <<"setenv">> /\ setenv(args)
            \/ Name(args) = <<"setconf">> /\ setconf(args)
            \/ Name(args) = <<"getconf">> /\ getconf(args)
            \/ /\ Name(args) \notin {<<"setenv">>, <<"setconf">>, <<"getconf">>}
               /\ UNCHANGED <<at, rootenv>> /\ Unconfigured

\* Mutation: the script is cut with strtok, and resumed where the last command left its
\* pointer: at the end of another string.
Line_Strtok ==
    IF rsave = 1 THEN strtok_r(data, 1, {"\n"})
    ELSE [buf |-> data, tok |-> 0, save |-> rsave]

\* The next line of the script: strtok_r with process_autorun's own pointer.
Line == strtok_r(data, rsave, {"\n"})

\* A line of the script, duplicated and processed; after the last one the shell prompts.
Autorun ==
    /\ at = "autorun"
    /\ data' = Line.buf /\ rsave' = Line.save
    /\ IF Line.tok = 0
       THEN /\ at' = "prompt"
            /\ UNCHANGED <<strtokSave, ran, rootenv, last>> /\ Unconfigured
       ELSE LET cmd == StrAt(Line.buf, Line.tok) IN
            /\ Process(cmd)
            /\ last' = cmd
            /\ ran' = IF CutComment(cmd) = <<>> THEN ran ELSE Append(ran, argv(CutComment(cmd)))
    /\ UNCHANGED <<todo, script, entered>>

\* A line typed at the prompt; an empty one is not processed.
Type(cmd) ==
    /\ at = "prompt" /\ entered < MaxTyped
    /\ Process(cmd)
    /\ last' = cmd /\ entered' = entered + 1
    /\ UNCHANGED <<todo, script, data, rsave, ran>>

ShellNext == Configure \/ OpenScript \/ Autorun \/ \E cmd \in CommandLines : Type(cmd)
-------------------------------------------------------------------------------
(***************************************************************************)
(* Properties.                                                             *)
(***************************************************************************)

\* The words of a line and the lines of a script, told by where they begin.
Parts(s, sep) ==
    LET begins == {i \in DOMAIN s : s[i] # sep /\ (i = 1 \/ s[i - 1] = sep)}
        end(i) == CHOOSE j \in i .. Len(s) : /\ \A l \in i .. j : s[l] # sep
                                             /\ j = Len(s) \/ s[j + 1] = sep
    IN {<<i, SubSeq(s, i, end(i))>> : i \in begins}

InOrder(parts) == [n \in 1 .. Cardinality(parts) |->
    (CHOOSE p \in parts : Cardinality({q \in parts : q[1] < p[1]}) = n - 1)[2]]

Words(s) == InOrder(Parts(s, " "))

\* However the lines of autorun.esh are spaced and whatever files their commands open,
\* when the shell prompts each line that is not only a comment has run, in order and once,
\* its command name a word of its own and its arguments the other words, at most with
\* spaces in front.
AutorunRunsAll ==
    at = "prompt" /\ script # NoScript =>
        LET lines == SelectSeq(InOrder(Parts(script, "\n")), LAMBDA l : CutComment(l) # <<>>) IN
        /\ Len(ran) = Len(lines)
        /\ \A n \in DOMAIN ran :
            LET words == Words(CutComment(lines[n])) IN
            /\ [i \in DOMAIN ran[n] |-> Words(ran[n][i])] = [i \in DOMAIN words |-> <<words[i]>>]
            /\ words # <<>> => ran[n][1] = words[1]

\* Where the words of a line begin.
Begins(s) == InOrder({<<p[1], p[1]>> : p \in Parts(s, " ")})

\* setconf and setenv put together again what was cut into arguments: a text in quotes
\* from behind one space to the end of the line is stored as it stands in the line, with
\* every space of it, under the name before it.
ValueVerbatim ==
    LET s == CutComment(last)
        w == Words(s)
        begin == Begins(s) IN
    /\ at # "stopped" /\ Len(w) > 2 /\ w[1] \in {<<"setconf">>, <<"setenv">>}
    /\ begin[2] = begin[1] + 2
    /\ begin[3] = begin[2] + Len(w[2]) + 1
    /\ s[begin[3]] = "\"" /\ SelectLastInSeq(s, LAMBDA c : c # " ") = SelectLastInSeq(s, LAMBDA c : c = "\"")
    => LET text == SubSeq(s, begin[3] + 1, SelectLastInSeq(s, LAMBDA c : c = "\"") - 1) IN
       IF w[1] = <<"setenv">> THEN w[2] \in DOMAIN rootenv /\ rootenv[w[2]] = text
       ELSE strchr(w[2], ":") # 0 =>
                <<Namespace(w[2]), Key(w[2])>> \in DOMAIN Entry
                /\ Entry[<<Namespace(w[2]), Key(w[2])>>] = <<"str", text>>
===============================================================================
