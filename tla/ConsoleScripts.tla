--------------------------- MODULE ConsoleScripts ---------------------------
(***************************************************************************)
(* What each gate types and expects: the main functions of the test-*.py   *)
(* scripts as data for ConsoleHarness.  A line holds what a correct guest  *)
(* prints for it and, where a fault of the guest would show, what a guest  *)
(* with that fault prints instead.                                        *)
(***************************************************************************)
EXTENDS ConsoleMarkers, Sequences, SequencesExt

----------------------------------------------------------------------------
(* Commands and lines *)

Command(op, out, status) ==
    [op |-> op, out |-> out, status |-> status, tells |-> FALSE,
     fault |-> "none", alt |-> <<>>, altStatus |-> status]
Faulty(c, flaw, out, status) ==
    [c EXCEPT !.fault = flaw, !.alt = out, !.altStatus = status]

Line(echo, lists) ==
    [echo |-> echo, lists |-> lists, malformed |-> FALSE, job |-> <<>>,
     adopts |-> FALSE, to |-> "same"]
Simple(echo, out, status) == Line(echo, <<<<Command("always", out, status)>>>>)
To(l, prompt)   == [l EXCEPT !.to = prompt]
Malformed(l)    == [l EXCEPT !.malformed = TRUE]
Breaks(l, flaw, out, status) ==
    [l EXCEPT !.lists[1][1] = Faulty(@, flaw, out, status)]

Quiet(name)      == Simple({name}, <<>>, "0")
Prints(name, xs) == Simple({name}, [i \in DOMAIN xs |-> Say(xs[i])], "0")
Says(name, x, status) == Simple({name}, <<Say(x)>>, status)

\* one segment of a conditional list: echo of a word, or a missing command
Echoes(op, word) == Command(op, <<Say(word)>>, "0")
Missing(op)      == Command(op, <<Say("run: not found")>>, "127")
Pwd(op)          == Command(op, <<Say("/")>>, "0")
StatusOf(op)     == [Command(op, <<>>, "0") EXCEPT !.tells = TRUE]

----------------------------------------------------------------------------
(* Steps *)

Sending(l, m) == [do |-> "send", how |-> "fresh", lines |-> <<l>>, marker |-> m, after |-> Anywhere]
Typing(how, l) == [do |-> "type", how |-> how, lines |-> <<l>>]
Bursting(ls) == [do |-> "type", how |-> "nested", lines |-> ls]
Wait(m)       == [do |-> "wait", marker |-> m, after |-> Anywhere]
WaitAfter(m, first) == [do |-> "wait", marker |-> m, after |-> first]
Pausing       == [do |-> "pause"]
Glancing      == [do |-> "glance"]
Absent(xs)    == [do |-> "absent", all |-> {Text(x) : x \in xs}]
AbsentPrompt  == [do |-> "absent", all |-> {Root}]
Nowhere(xs)   == [do |-> "nowhere", all |-> {Text(x) : x \in xs}]
Present(xs)   == [do |-> "present", all |-> {Text(x) : x \in xs}]
Once(x)       == [do |-> "once", marker |-> Text(x)]
Ordered(a, b) == [do |-> "ordered", marker |-> Text(a), after |-> Text(b)]
Held(m, x)    == [do |-> "held", marker |-> m, after |-> Text(x)]

Do(name)      == Sending(Quiet(name), Root)
Shows(name, x) == Sending(Says(name, x, "0"), Text(x))
Status(n)     == Sending(Line({}, <<<<StatusOf("always")>>>>), Alone(n))
Refused(l)    == Sending(Malformed(l), Text("syntax: invalid conditional list"))
Each(names)   == [i \in DOMAIN names |-> Do(names[i])]

\* a standalone program: its output lines awaited in turn, then the prompt,
\* then no complaint of its own, then its status
Utility(name, xs, complaints, status) ==
    <<Typing("fresh", [Prints(name, xs) EXCEPT !.lists[1][1].status = status])>>
    \o [i \in DOMAIN xs |-> Wait(Text(xs[i]))]
    \o <<Wait(Root), Absent(complaints), Status(status)>>

----------------------------------------------------------------------------
(* Boot and shutdown, common to the normal-boot gates *)

BootOutput == <<{Text("init PID 1")}, {Text("shell PID 2")}, {Home}>>
BootWaits  == <<Wait(Text("init PID 1")), Wait(Text("shell PID 2")), Wait(Home)>>

\* The report lines of the shutdown; the awaited marker begins the last one.
Shutdown(storage) ==
    Sending(To(Simple({"shutdown"},
               <<{Text("shell reaped")}, {Text("resources clean")},
                 {Text("normal boot verified:")}, {Text(storage)}>>, "0"), "silent"),
            Text("normal boot verified:"))

Reported(storage) ==
    {Text(x) : x \in {"init PID 1", "shell PID 2", "shell reaped", "resources clean",
                      "normal boot verified:", storage}}

CdRoot == Sending(To(Quiet("cd /"), "root$"), Root)
Help   == Shows("help", "help echo pwd")
RunHello == Sending(Simple({"run hello"}, <<Say("hello from ELF64"), Say("process 3 exited 42")>>, "42"),
                    Text("process 3 exited 42"))

\* the shell session every storage gate runs on /persist
PersistSession ==
    <<Shows("ls /bin", "sh.elf"), Shows("cat /proc/version", "ZigOs 19.0.0"),
      Sending(Says("pid", "2", "0"), Alone("2")), Do("mkdir shell-state"),
      Do("write message alpha"), Do("append message"), Do("write renamed stale"),
      Sending(Breaks(Quiet("mv message renamed"), "rename_keeps", <<>>, "1"), Root),
      Do("chmod 600 renamed"),
      Sending(Breaks(Says("cat renamed", "beta", "0"), "rename_keeps",
                     <<Say("stale-destination")>>, "0"), Text("beta")),
      Do("rm renamed"), Do("rmdir shell-state"), RunHello>>

Programs ==
    <<Do("cp sdk.elf"), Shows("sync", "writable mounts synchronized"),
      Sending(Says("persist-sdk", "process 4 exited 86", "86"), Text("process 4 exited 86")),
      Sending(Says("fs init", "process 5 exited 88", "88"), Text("process 5 exited 88")),
      Sending(Says("fs verify-live", "process 6 exited 89", "89"), Text("process 6 exited 89"))>>

ProgramMarkers ==
    {Text(x) : x \in {"process 3 exited 42", "writable mounts synchronized",
       "process 4 exited 86", "process 5 exited 88", "process 6 exited 89"}}

GateOf(script, required, forbidden) ==
    [script |-> script, boot |-> BootOutput, prompt |-> "home$",
     required |-> required, forbidden |-> forbidden,
     faults |-> {"none"}, missed |-> {}, counted |-> Anywhere, atLeast |-> 0, ignoresStuck |-> FALSE]

----------------------------------------------------------------------------
(* test-diskless-normal-boot.py *)

DisklessCat == Sending(Breaks(Says("cat recovery", "diskless recovery", "0"),
                              "write_lost", <<Say("cat: not found")>>, "1"),
                       Text("diskless recovery"))

Diskless ==
    GateOf(BootWaits \o
         <<Sending(Says("pwd", "/home/root", "0"), Alone("/home/root")),
           Shows("ls /bin", "c-sdk.elf"), Shows("cat /proc/version", "ZigOs 19.0.0"),
           Sending(Simple({"write recovery", "diskless recovery"}, <<>>, "0"), Home),
           DisklessCat, DisklessCat,
           Sending(Says("c-sdk", "process 3 exited 87", "87"), Text("process 3 exited 87")),
           Shows("sync", "writable mounts synchronized"),
           Shutdown("storage diskless-ram-root cleanup yes")>>,
         Reported("storage diskless-ram-root cleanup yes") \cup
         {Text("process 3 exited 87"), Text("writable mounts synchronized")},
         {Text("STORAGE FAILURE"), Text("sync: unsupported")})

----------------------------------------------------------------------------
(* test-persistent-readonly-remount.py *)

\* after the injected write error every mutation is refused
Rejects(verb) ==
    LET complaint == [write |-> "write: read-only filesystem",
                      append |-> "append: read-only filesystem",
                      mkdir |-> "mkdir: read-only filesystem",
                      rm |-> "rm: read-only filesystem",
                      sync |-> "sync: read-only filesystem"][verb]
    IN  Sending(Breaks(Says(verb, complaint, "1"), "stays_writable", <<>>, "0"),
                Text(complaint))

CatBefore == Sending(Says("cat value", "before", "0"), Text("before"))

Remount ==
    GateOf(BootWaits \o
         <<Help, CdRoot, RunHello, Do("mkdir damaged"),
           Sending(Simple({"write value", "before"}, <<>>, "0"), Root),
           CatBefore,
           Sending(Breaks(Says("sync", "sync: input/output error", "1"), "error_swallowed",
                          <<Say("writable mounts synchronized")>>, "0"),
                   Text("sync: input/output error")),
           Sending(Breaks(Says("cat /proc/mounts", "zigos_persist (ro)", "0"),
                          "stays_writable", <<Say("zigos_persist (rw)")>>, "0"),
                   Text("zigos_persist (ro)")),
           Rejects("write"), Rejects("append"), Rejects("mkdir"), Rejects("rm"),
           CatBefore, Rejects("sync"),
           Shutdown("storage persistent-read-only cleanup yes")>>,
         Reported("storage persistent-read-only cleanup yes") \cup
         {Text(x) : x \in {"process 3 exited 42", "sync: input/output error",
            "zigos_persist (ro)", "write: read-only filesystem",
            "append: read-only filesystem", "mkdir: read-only filesystem",
            "rm: read-only filesystem", "sync: read-only filesystem"}},
         {Text("mount-readonly no"), Text("kernel fault:")})

----------------------------------------------------------------------------
(* test-boot-fat-io-error.py and test-boot-fat-quarantine.py *)

HomeThenRoot ==
    <<Help, Sending(Says("pwd", "/home/root", "0"), Alone("/home/root")), CdRoot,
      Sending(Says("pwd", "/", "0"), Alone("/"))>>

FatReadme == "ZigOs block-backed FAT16 runtime"

\* one read error, once: the first cat fails, the second reads the file
IoError ==
    GateOf(BootWaits \o HomeThenRoot \o
         <<Sending(Breaks(Says("cat README.TXT", "cat: input/output error", "1"),
                          "error_swallowed", <<Say(FatReadme)>>, "0"),
                   Text("cat: input/output error")),
           Sending(Breaks(Says("cat README.TXT", FatReadme, "0"), "error_sticks",
                          <<Say("cat: input/output error")>>, "1"), Text(FatReadme))>>
         \o PersistSession \o Programs \o <<Shutdown("storage persistent cleanup yes")>>,
         Reported("storage persistent cleanup yes") \cup ProgramMarkers \cup
         {Text("cat: input/output error"), Text(FatReadme)},
         {Text("Kernel heap active:")})

\* the cross-linked volume is quarantined: the embedded fallback is listed
Quarantine ==
    GateOf(BootWaits \o HomeThenRoot \o
         <<Sending(Breaks(Says("ls /boot", "process-exec.elf", "0"), "not_quarantined",
                          <<Say("README.TXT")>>, "0"), Text("process-exec.elf")),
           Sending(Breaks(Says("cat README.TXT", "cat: not found", "1"), "not_quarantined",
                          <<Say(FatReadme)>>, "0"), Text("cat: not found"))>>
         \o PersistSession \o Programs \o <<Shutdown("storage persistent cleanup yes")>>,
         Reported("storage persistent cleanup yes") \cup ProgramMarkers \cup
         {Text("process-exec.elf"), Text("cat: not found")},
         {Text("Kernel heap active:")})
=============================================================================
