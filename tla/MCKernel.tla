------------------------------- MODULE MCKernel -------------------------------
(***************************************************************************)
(* The start of the kernel and what runs on it, one part at a time:        *)
(* interrupts, the keyboard, modules, the shell with the configuration,    *)
(* the configuration by itself, the opening of a path on a FAT volume, and *)
(* the reading of the file.                                                *)
(***************************************************************************)
EXTENDS Interrupts, Keyboard, MCModules, Shell, FatFile, MCFatVolume

\* The proof that a path opens what the tree has there is for such paths.
ASSUME FilesNothingBehind == NothingBehind

MCNamespaces == {<<"sys">>, <<"app">>}
MCTexts == {<<"x">>, <<"y">>}

\* Command lines, " " for one space; "sys:k" is a key that is set later, "app" no namespace.
Sp == <<" ">>
Quoted2(s) == <<"\"">> \o s \o <<"\"">>
TwoX == Quoted2(<<"x", " ", " ", "x">>)
SysK == <<"sys", ":", "k">>
Prompt == <<"sys", ":", "prompt">>
SetConf(rest) == <<"setconf", " ">> \o rest
SetEnv(rest) == <<"setenv", " ">> \o rest

\* Values with spaces inside and behind, before a comment, behind two spaces, without a
\* quote, of one quote, missing; keys behind two spaces, without ":", in no namespace.
MCCommandLines ==
    {SetConf(Prompt \o Sp \o TwoX), SetConf(SysK \o Sp \o Quoted2(<<"y", " ">>) \o Sp \o Sp \o <<"#", "x">>),
     SetConf(Sp \o SysK \o Sp \o Quoted2(<<"y">>)), SetConf(SysK \o Sp \o Sp \o Quoted2(<<"y">>)),
     SetConf(SysK \o Sp \o <<"\"">>), SetConf(SysK \o Sp \o <<"y">>), SetConf(SysK), SetConf(<<>>),
     SetConf(<<"k">> \o Sp \o TwoX), SetConf(<<"app", ":", "k">> \o Sp \o TwoX),
     SetEnv(<<"v">> \o Sp \o TwoX), SetEnv(<<"v">> \o Sp \o <<"\"", "y">>), SetEnv(<<"v">>), SetEnv(<<>>),
     <<"getconf", " ">> \o Prompt, <<"getconf", " ", "app", ":", "k">>, <<"getconf", " ", "p">>, <<"getconf">>,
     <<"dino">>, <<"#", "x">>, <<" ", "#", "x">>, <<"read", " ", " ", "f">>}

\* Scripts with empty and blank lines, comments, commands that open files before others,
\* no newline at the end, a line that stops the kernel; and nothing but a newline.
MCScripts ==
    {<<"read", " ", " ", "f", "\n", "\n">> \o SetEnv(<<"v">> \o Sp \o TwoX) \o <<" ", "\n", "#", "c", "\n", "prog">>,
     <<" ", "#", "\n">> \o SetConf(Prompt \o Sp \o TwoX) \o <<"\n", "dino", " ", "\n">>,
     <<"prog", " ", "a", " ", " ", " ", "b", "\n">> \o SetConf(SysK \o Sp \o TwoX),
     <<"dino", "\n">> \o SetConf(<<"app", ":", "k">> \o Sp \o TwoX) \o <<"\n", "prog">>,
     <<"\n">>, <<"#", "x">>}

VARIABLE part

\* A file and a volume that are not used.
FileIdle ==
    /\ chunk = 2 /\ clbytes = 2 /\ size = 0 /\ listing = FALSE /\ chain = 0 /\ cluster = 0
    /\ offset = 0 /\ got = <<>> /\ fpc = "ready" /\ room = 0 /\ count = 0 /\ filled = <<>> /\ from = 0
VolIdle == VolInit /\ volume = Bare

MCInit ==
    /\ part \in {"interrupts", "keyboard", "modules", "shell", "config", "file", "volume"}
    /\ IntrInit /\ Init /\ ModInit /\ ConfInit
    /\ IF part = "shell" THEN ShellInit ELSE ShellInit /\ script = NoScript
    /\ IF part = "file" THEN FileInit ELSE FileIdle
    /\ IF part = "volume" THEN VolInit ELSE VolIdle

\* What the parts below are made of; the shell uses the configuration.
system == <<intrvars, vars, modvars>>
settings == <<confvars, shellvars>>
storage == <<filevars, volvars>>

InterruptsPart ==
    part = "interrupts" /\ IntrNext /\ UNCHANGED <<part, vars, modvars, settings, storage>>
KeyboardPart ==
    part = "keyboard" /\ Next /\ UNCHANGED <<part, intrvars, modvars, settings, storage>>
ModulesPart ==
    part = "modules" /\ ModNext /\ UNCHANGED <<part, intrvars, vars, settings, storage>>
ShellPart ==
    part = "shell" /\ ShellNext /\ UNCHANGED <<part, system, storage>>
ConfigPart ==
    part = "config" /\ ConfNext /\ UNCHANGED <<part, system, shellvars, storage>>
FilePart ==
    part = "file" /\ FileNext /\ UNCHANGED <<part, system, settings, volvars>>
VolumePart ==
    part = "volume" /\ VolNext /\ UNCHANGED <<part, system, settings, filevars>>

MCNext ==
    \/ InterruptsPart \/ KeyboardPart \/ ModulesPart \/ ShellPart \/ ConfigPart
    \/ FilePart \/ VolumePart

MCSpec ==
    /\ MCInit /\ [][MCNext]_<<part, system, settings, storage>>
    /\ WF_intrvars(part = "interrupts" /\ Processor)
    /\ WF_vars(part = "keyboard" /\ Offer) /\ WF_vars(part = "keyboard" /\ HandleIrq)
    /\ WF_vars(part = "keyboard" /\ Timer) /\ WF_vars(part = "keyboard" /\ Reader)
    /\ WF_vars(part = "keyboard" /\ (ResetPic \/ Drain \/ BiosReturn))
    /\ WF_filevars(part = "file" /\ FullStep)
===============================================================================
