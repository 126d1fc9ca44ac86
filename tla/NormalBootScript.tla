-------------------------- MODULE NormalBootScript --------------------------
(***************************************************************************)
(* The session of test-normal-boot.py, section by section, and the second  *)
(* boot that looks for the history of the first.                           *)
(***************************************************************************)
EXTENDS ConsoleScripts, FiniteSets

Hello == "hello from ELF64"

\* a line, its marker, and the status it must leave
Leaves(l, m, n) == <<Sending(l, m), Status(n)>>
Silent(name, n) == Leaves(Simple({name}, <<>>, n), Root, n)
Runs(name, x, n) == Leaves(Says(name, x, n), Text(x), n)
Rejected(l) == <<Refused(l), Status("2")>>
Lists(echo, lists, m, n) == Leaves(Line(echo, lists), m, n)

Fs(name, xs) == Utility(name, xs, {"complaint"}, "0")

\* type a line and look at what it printed, after the drain or the prompt
Looks(name, out, flaw, wrong, check) ==
    <<Sending(Breaks(Prints(name, out), flaw, wrong, "0"), Root), check>>

----------------------------------------------------------------------------
(* built-ins, statuses (G258) *)

Basics ==
    <<Help, Sending(Says("pwd", "/home/root", "0"), Alone("/home/root")), CdRoot,
      Sending(Says("pwd", "/", "0"), Alone("/"))>>
    \o PersistSession \o <<Status("42")>>

Statuses ==
    Runs("missing", "run: not found", "127") \o Runs("cd missing", "cd: not found", "1")
    \o Leaves(Says("pwd", "/", "0"), Alone("/"), "0")

\* && and || (G259), ; (G260): what must not run is forbidden alone on a line
ConditionalLists ==
    Lists({"AND_RAN"}, <<<<Pwd("always"), Echoes("and", "AND_RAN")>>>>, Text("AND_RAN"), "0")
    \o Lists({"AND_BAD"}, <<<<Missing("always"), Echoes("and", "AND_BAD")>>>>,
             Text("run: not found"), "127")
    \o Lists({"OR_BAD"}, <<<<Pwd("always"), Echoes("or", "OR_BAD")>>>>, Alone("/"), "0")
    \o Lists({"OR_RAN"}, <<<<Missing("always"), Echoes("or", "OR_RAN")>>>>, Text("OR_RAN"), "0")
    \o Lists({"MIXED_BAD", "MIXED_RECOVERED"},
             <<<<Missing("always"), Echoes("and", "MIXED_BAD"), Echoes("or", "MIXED_RECOVERED")>>>>,
             Text("MIXED_RECOVERED"), "0")
    \o Rejected(Line({"AND_TRAILING"}, <<<<Echoes("always", "AND_TRAILING")>>>>))

SequentialLists ==
    Lists({"FIRST", "SECOND"}, <<<<Echoes("always", "FIRST")>>, <<Echoes("always", "SECOND")>>>>,
          Text("SECOND"), "0")
    \o Lists({"AFTER_FAILURE"}, <<<<Missing("always")>>, <<Echoes("always", "AFTER_FAILURE")>>>>,
             Text("AFTER_FAILURE"), "0")
    \o Lists({}, <<<<Missing("always")>>, <<StatusOf("always")>>>>, Alone("127"), "0")
    \o Lists({"COND_SKIP", "AFTER_COND"},
             <<<<Missing("always"), Echoes("and", "COND_SKIP")>>, <<Echoes("always", "AFTER_COND")>>>>,
             Text("AFTER_COND"), "0")
    \o Lists({"TRAILING_OK"}, <<<<Echoes("always", "TRAILING_OK")>>>>, Text("TRAILING_OK"), "0")
    \o Rejected(Line({"PREFIX", "SUFFIX"},
                     <<<<Echoes("always", "PREFIX")>>, <<Echoes("always", "SUFFIX")>>>>))
    \o Lists({"OVER"}, [i \in 1..5 |-> <<Echoes("always", "OVER")>>],
             Text("syntax: invalid conditional list"), "2")

----------------------------------------------------------------------------
(* pipelines (G261, G263), background jobs (G264), fg and bg (G265) *)

External == "pipeline: external stages only"
ExternalOnly(name) == Says(name, External, "2")

Pipelines ==
    Leaves(Breaks(Says("hello|hello", Hello, "42"), "pipeline_hidden", <<>>, "42"), Root, "42")
    \o Leaves(Breaks(Simple({"BUILTIN_STAGE"}, <<Say(External)>>, "2"), "builtin_stage",
                     <<Say("BUILTIN_STAGE"), Say(External)>>, "2"),
              Text(External), "2")
    \o Rejected(Line({"hello|"}, <<<<Command("always", <<Say(Hello)>>, "42")>>>>))
    \o Leaves(Prints("writer|reader", <<"pipeline">>), Root, "0")
    \o <<Typing("fresh", To(Breaks(Prints("reader|reader", <<"pipeline">>), "pipeline_detached",
                                   <<Say("pipeline"), {Root}>>, "0"), "silent")),
         Wait(Text("pipeline")), Pausing, AbsentPrompt,
         Typing("more", To(Prints("TTYPIPE", <<"TTYPIPE">>), "root$")), Wait(Root), Status("0")>>
    \o <<Sending(Simple({"reader|missing"}, <<>>, "127"), Root), Present({"root$"}), Status("127")>>

SleepJob == <<Say("sleep: after"), Say("[1] done 7")>>
Sleeps   == [Quiet("runtime-sleep &") EXCEPT !.job = SleepJob]
Notified == <<Wait(Text("[1] done 7")), Wait(Root), Status("0")>>

Background ==
    <<Typing("fresh", Breaks(Sleeps, "bg_blocks", SleepJob, "7")), Wait(Root), Pausing,
      Absent({"[1] done 7"})>> \o Notified
    \o Rejected(Simple({"BUILTIN_JOB"}, <<Say("BUILTIN_JOB")>>, "0"))

Jobs ==
    LET fg == [Simple({"fg 1"}, <<Say("sleep: after")>>, "7") EXCEPT !.adopts = TRUE]
    IN  <<Typing("fresh", Sleeps), Wait(Root), Glancing, Absent({"[1] done 7"}),
          Typing("fresh", Breaks(fg, "fg_detached", <<{Root}, Say("sleep: after")>>, "7")),
          Wait(Text("sleep: after")), Held(Root, "sleep: after"),
          WaitAfter(Root, Text("sleep: after")), Status("7"),
          Typing("fresh", Sleeps), Wait(Root),
          Typing("fresh", Quiet("bg 1")), Wait(Root), Pausing, Absent({"[1] done 7"})>>
        \o Notified \o Silent("fg 4", "1") \o Silent("bg 0", "2")

----------------------------------------------------------------------------
(* environment (G267), substitution (G268), globs (G269), tilde (G270) *)

Environment ==
    Silent("PATH=/missing", "0") \o Runs("/bin/sdk.elf", "zig-sdk: bad envp/auxv", "233")
    \o Runs("hello", "run: not found", "127") \o Silent("PATH=/bin:/persist", "0")
    \o Silent("A=one", "0") \o Silent("A=two", "0") \o Each(<<"B=two", "C=three">>)
    \o Leaves(Breaks(Simple({"D=four"}, <<>>, "1"), "env_unbounded", <<>>, "0"), Root, "1")
    \o Rejected(Quiet("PATH=/blocked &")) \o Runs("hello", Hello, "42")

\* a background line with an expansion in it is refused, and a pipeline too:
\* neither may have run its program first
BeforeRejection(name, leaks) ==
    LET early == [i \in DOMAIN leaks |-> Say(leaks[i])]
    IN  <<Sending(Breaks(Says(name, "syntax: invalid conditional list", "2"), "expands_early",
                         Append(early, Say("syntax: invalid conditional list")), "2"),
                  Text("syntax: invalid conditional list")),
          Absent({leaks[i] : i \in DOMAIN leaks}), Status("2"),
          Sending(ExternalOnly(name), Text(External)),
          Absent({leaks[i] : i \in DOMAIN leaks}), Status("2")>>

Substitution ==
    Silent("write $(pipe-writer)", "0") \o <<Shows("cat g268", "PIPE-CPL"), Do("rm g268")>>
    \o Looks("echo $(hello)", <<>>, "capture_leaks", <<Say(Hello)>>, Absent({Hello}))
    \o BeforeRejection("hello $(writer)", <<Hello, "PIPE-CPL">>)

\* refused with nothing printed: the word occurs once, in the echo
EchoedOnce(word, flaw) ==
    <<Sending(Breaks(Simple({word}, <<>>, "1"), flaw, <<Say(word)>>, "0"), Root), Once(word),
      Status("1")>>

Globs ==
    Each(<<"write a", "write b">>) \o Silent("write list *.txt", "0")
    \o Looks("cat list", <<"a.txt", "b.txt">>, "glob_first", <<Say("a.txt")>>,
             Present({"a.txt", "b.txt"}))
    \o EchoedOnce("none-*", "glob_literal") \o EchoedOnce("**", "glob_literal")
    \o EchoedOnce("*/a", "glob_literal") \o EchoedOnce("g269-*", "glob_literal")
    \o BeforeRejection("hello *", <<Hello>>) \o Each(<<"rm list", "rm a", "rm b">>)

Tildes ==
    <<Sending(To(Quiet("cd ~"), "home$"), Home),
      Sending(Says("pwd", "/home/root", "0"), Alone("/home/root")), CdRoot,
      Sending(To(Quiet("cd ~/.."), "/home$"), Text("/home$")),
      Sending(Says("pwd", "/home", "0"), Alone("/home")), CdRoot>>
    \o EchoedOnce("~nobody", "tilde_named") \o EchoedOnce("~/long", "tilde_unbounded")
    \o BeforeRejection("hello ~", <<Hello>>)

History == Looks("cat .sh_history", <<"cd ~">>, "history_lost", <<>>, Present({"cd ~"}))

----------------------------------------------------------------------------
(* standalone utilities (G273-G289) *)

Payload(name, flaw) ==
    Looks(name, <<"PAYLOAD">>, flaw, <<>>, Present({"PAYLOAD"}))

FileUtilities ==
    Fs("ls.elf", <<"readme.txt">>) \o Fs("cat.elf", <<"This filesystem">>)
    \o Fs("echo.elf", <<"ALPHA BETA">>) \o Fs("pwd.elf", <<"/">>) \o Fs("mkdir.elf", <<>>)
    \o Looks("ls /tmp", <<"g277-dir/">>, "mkdir_lost", <<>>, Present({"g277-dir/"}))
    \o Each(<<"rmdir g277", "write file", "mkdir dir">>)
    \o Fs("rm.elf", <<>>) \o Fs("rmdir.elf", <<>>)
    \o Looks("ls /tmp", <<>>, "rm_keeps", <<Say("g278-file")>>, Absent({"g278-file", "g278-dir"}))
    \o <<Do("write source")>> \o Utility("cp.elf same", <<"cp: same file">>, {"complaint"}, "1")
    \o Payload("cat source", "cp_truncates") \o Fs("cp.elf", <<>>) \o Payload("cat copy", "cp_short")
    \o Fs("mv.elf", <<>>)
    \o Looks("ls /tmp", <<"g279-moved">>, "mv_copies", <<Say("g279-moved"), Say("g279-copy")>>,
             Absent({"g279-copy"}))
    \o <<Present({"g279-moved"})>> \o Payload("cat moved", "mv_short")
    \o Each(<<"rm source", "rm moved">>)
    \o Fs("stat.elf", <<"type file", "mode 0644", "size 57", "links 1", "owner 0:0",
                        "readonly no", "times ">>)

Bounded(name, xs, excess, flaw) ==
    LET l == Breaks(Prints(name, xs), flaw,
                    [i \in DOMAIN xs |-> Say(xs[i])] \o <<Say(excess)>>, "0")
    IN  <<Typing("fresh", l)>> \o [i \in DOMAIN xs |-> Wait(Text(xs[i]))]
        \o <<Wait(Root), Absent({excess, "complaint"}), Status("0")>>

TextUtilities ==
    <<Do("write g281")>> \o [i \in 1..11 |-> Do("append g281")]
    \o Bounded("head.elf", <<"L01", "L10">>, "L11", "head_unbounded")
    \o Bounded("tail.elf", <<"MATCH_A", "L12">>, "L02", "tail_unbounded")
    \o Fs("wc.elf", <<"12 12 116">>)
    \o Bounded("grep.elf", <<"MATCH_A", "MATCH_B">>, "L04", "grep_all")
    \o Utility("grep.elf none", <<>>, {"complaint"}, "1") \o <<Do("rm g281"), Do("write g282")>>
    \o [i \in 1..15 |-> Do("append g282")]
    \o Bounded("hexdump.elf", <<"0000  41", "49 4A", "ABCDEFGHIJKLMNOP", "00F0  ">>, "0100  ",
               "hexdump_unbounded")
    \o <<Do("rm g282")>>

\* the PID that ps lists for the sleeping job is the one that kill is given
ProcessUtilities ==
    Fs("ps.elf", <<"PID PPID", "1 0 blocked", "2 1 blocked", " 2 running", "ps.elf row">>)
    \o Fs("sleep.elf 2", <<>>)
    \o <<Typing("fresh", Quiet("sleep.elf 1000 &")), Wait(Root),
         Typing("fresh", Prints("ps.elf", <<"sleep.elf row">>)), Wait(Text("sleep.elf row")),
         Wait(Root), Present({"sleep.elf row"}),
         Typing("fresh", [Quiet("kill.elf") EXCEPT !.job = <<Say("] done 137")>>]),
         Wait(Text("] done 137")), Wait(Root), Absent({"complaint"}), Status("0")>>

DfRows == <<"type ramfs", "block-size 4096", "blocks 256", "nodes 128", "mount 1", "flags rw">>

SystemUtilities ==
    Fs("mount.elf", <<"ramfs on /", "procfs (ro)">>)
    \o <<Typing("fresh", Breaks(Prints("df.elf", DfRows \o <<"free within">>), "df_excess",
                                [i \in DOMAIN DfRows |-> Say(DfRows[i])] \o <<Say("free beyond")>>, "0"))>>
    \o [i \in DOMAIN DfRows |-> Wait(Text(DfRows[i]))]
    \o <<Wait(Root), Present({"free within"}), Absent({"complaint"}), Status("0")>>
    \o Fs("fsck.elf", <<"fsck: clean">>) \o Fs("uname.elf", <<"ZigOs 19.0.0">>)
    \o Bounded("env.elf", <<"PATH=/bin:/persist", "HOME=/home/root", "TERM=zigos",
                            "SHELL=/bin/sh.elf", "A=two row", "B=two row", "C=three row">>,
               "D=four row", "env_unbounded")

----------------------------------------------------------------------------
(* the line editor (G290), startup files (G271) *)

Edits(x) == Simple({x}, <<>>, "0")

Editor ==
    <<Do("write g290"),
      Typing("fresh", To(Prints("edit.elf", <<"edit: 5 bytes">>), "edit>")),
      Wait(Text("edit: 5 bytes")), Wait(Text("edit>")),
      Typing("nested", Prints("p", <<"BASE">>)), Wait(Text("BASE")), Wait(Text("edit>")),
      Bursting(<<Breaks(Edits("a XXX"), "edit_one_read", <<Say("edit: command too long")>>, "0"),
                 Edits("d"), Edits("a REMOVE"), Edits("d"), Edits("a FINAL"),
                 To(Prints("wq", <<"edit: wrote 11 bytes">>), "root$")>>),
      Wait(Text("edit: wrote 11 bytes")), Wait(Root),
      Nowhere({"edit: error", "edit: command too long"}), Status("0"),
      Typing("fresh", Breaks(Prints("cat g290", <<"BASE FINAL">>), "edit_keeps",
                             <<Say("REMOVE"), Say("BASE FINAL")>>, "0")),
      Wait(Text("BASE FINAL")), Wait(Root), Absent({"REMOVE"}), Do("rm g290")>>

StartupFiles ==
    Each(<<"write /etc/shrc", "write .shrc", "append .shrc">>)
    \o <<Typing("fresh", To(Prints("sh|reader", <<"pipeline", "G271US">>), "silent")),
         Wait(Text("pipeline")), Wait(Alone("G271US")),
         Typing("more", To(Simple({"^C"}, <<>>, "0"), "root$")), Wait(Root), Status("0")>>
    \o Looks("cat order", <<"SYSTEM", "USER">>, "user_first", <<Say("USER"), Say("SYSTEM")>>,
             Ordered("SYSTEM", "USER"))
    \o Each(<<"rm /etc/shrc", "rm .shrc", "rm order">>)

----------------------------------------------------------------------------
Clean == "storage persistent cleanup yes"

NormalBoot ==
    [GateOf(BootWaits \o Basics \o Statuses \o ConditionalLists \o SequentialLists \o Programs
            \o Pipelines \o Background \o Jobs \o Environment \o Substitution \o Globs \o Tildes
            \o History \o FileUtilities \o TextUtilities \o ProcessUtilities \o SystemUtilities
            \o Editor \o StartupFiles \o <<Shutdown(Clean)>>,
            Reported(Clean) \cup ProgramMarkers \cup
            {Text(x) : x \in {Hello, "help echo pwd", "run: not found", "cd: not found", "AND_RAN",
              "OR_RAN", "MIXED_RECOVERED", "syntax: invalid conditional list", "FIRST", "SECOND",
              "AFTER_FAILURE", "AFTER_COND", "TRAILING_OK", "pipeline", External, "PIPE-CPL",
              "TTYPIPE", "[1] done 7", "zig-sdk: bad envp/auxv", "G271US"}},
            {Text("Kernel heap active:")} \cup
            {Alone(x) : x \in {"AND_BAD", "OR_BAD", "MIXED_BAD", "AND_TRAILING", "COND_SKIP",
              "PREFIX", "SUFFIX", "OVER", "BUILTIN_STAGE", "BUILTIN_JOB"}})
     EXCEPT !.counted = Text(Hello), !.atLeast = 2]

HistoryBoot ==
    GateOf(<<Wait(Text("init PID 1")), Wait(Home),
             Sending(Breaks(Prints("cat .sh_history", <<"cd ~">>), "history_lost", <<>>, "0"),
                     Text("cd ~")), Present({"cd ~"}),
             Shows("sync", "writable mounts synchronized"),
             Sending(Says("hello", "process 3 exited 42", "42"), Text("process 3 exited 42")),
             Shutdown(Clean)>>,
           {Text(Clean)}, {})
=============================================================================
