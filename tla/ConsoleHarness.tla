--------------------------- MODULE ConsoleHarness ---------------------------
(***************************************************************************)
(* A QEMU gate driving the ZigOs shell over the serial console: the part   *)
(* that the test-*.py scripts share.  The harness types a line, waits for  *)
(* a marker in what arrived since, drains what follows and goes on; the    *)
(* guest echoes each line as it arrives, runs the lines in turn and prints *)
(* a prompt after each.  Nothing on the wire says which line an output     *)
(* belongs to: every hazard of these gates comes from that.                *)
(*                                                                         *)
(* A chunk of serial output is the set of markers (ConsoleMarkers) that it *)
(* contains, with the number of the line the guest was running.            *)
(***************************************************************************)
EXTENDS ConsoleMarkers, Naturals, Sequences, FiniteSets, SequencesExt

CONSTANTS
    Gates,      \* the gates of this run, by name: see ConsoleScripts
    Unreliable  \* those run against a guest, a QEMU and a host that may fail

ASSUME HarnessAssumption == Unreliable \subseteq DOMAIN Gates

VARIABLES
    gate, fault,         \* chosen once; what is wrong with the guest, or "none"
    stage,               \* of main: see Stages
    step, phase,         \* position in the script, and within wait_for
    output, mark, past,  \* serial since the oldest live start, start, judged before
    tally,               \* of the counted marker, in what is before
    verdict,
    qemu,                \* "off", "up", "exited", "killed" or "stuck"
    typed, tty,          \* lines on the wire to the guest, lines echoed
    current,             \* chunks the guest still has to print
    running,             \* number of the line the guest runs or ran last
    shell,               \* last status, prompt and background job
    wire,                \* chunks sent and not yet received
    lines, markLine      \* lines typed so far, and at the last start

session == <<gate, fault>>
host    == <<stage, step, phase, output, mark, past, tally, verdict, lines, markLine>>
guest   == <<current, running, shell, tty>>
vars    == <<session, host, guest, qemu, typed, wire>>

Stages == {"setup", "connect", "script", "verdict", "finally", "ended"}

Chunk(k, has) == [line |-> k, has |-> has]
Markers(chunks) == UNION {chunks[i].has : i \in DOMAIN chunks}
Count(m, chunks) == Cardinality({i \in DOMAIN chunks : m \in chunks[i].has})
Since == SubSeq(output, mark + 1, Len(output))
Gate == Gates[gate]

\* the guest answers within the timeouts and drain windows
OnTime == gate \notin Unreliable
\* setup may fail, QEMU may exit early or survive its kill
MayStop == gate \in Unreliable

\* Mutant: what is forbidden is looked for at the end only.
JudgedRequired == Gate.required

\* the markers that the verdict on the whole transcript asks for
Judged == Gate.required \cup Gate.forbidden
Step == Gate.script[step]

----------------------------------------------------------------------------
(* The guest's shell: sdk/zig/shell.zig *)

\* an && segment runs only after success, an || segment only after failure
ShouldExecute(op, status) ==
    CASE op = "and" -> (fault # "and_never" /\ status = "0") \/ fault = "and_always"
      [] op = "or"  -> (fault # "or_never" /\ status # "0") \/ fault = "or_always"
      [] OTHER      -> TRUE

\* A command prints its output and leaves its status; status prints the one
\* before it; a guest with the fault the command names does the other thing.
ExecuteCommand(r, c) ==
    IF ~ShouldExecute(c.op, r.status) THEN r
    ELSE IF c.tells
    THEN [out |-> Append(r.out, Say(r.status)), status |-> "0"]
    ELSE IF c.fault = fault /\ fault # "none"
    THEN [out |-> r.out \o c.alt, status |-> c.altStatus]
    ELSE [out |-> r.out \o c.out, status |-> c.status]

ExecuteConditionalList(r, list) ==
    IF fault = "list_stops" /\ r.status # "0" /\ r.out # <<>> THEN r
    ELSE FoldLeft(ExecuteCommand, r, list)

MaxLists == 4

\* parseCommandLine refuses a malformed line before any part of it runs.
ExecuteCommandLine(l, status) ==
    LET start   == [out |-> <<>>, status |-> status]
        ran     == FoldLeft(ExecuteConditionalList, start, l.lists)
        refused == l.malformed \/ (Len(l.lists) > MaxLists /\ fault # "no_limit")
        prefix  == IF fault = "runs_prefix" THEN ran.out ELSE <<>>
    IN  IF refused
        THEN [out |-> Append(prefix, Say("syntax: invalid conditional list")),
              status |-> "2"]
        ELSE ran

NoJob == <<>>

\* Where the shell is after a line: its prompt text, "silent" while another
\* program reads the terminal.
PromptAfter(l) == IF l.to = "same" THEN shell.prompt ELSE l.to

\* Tty.feed echoes a line when it arrives, whatever the shell is doing.
GuestEcho ==
    /\ qemu = "up"
    /\ typed # <<>>
    /\ typed' = Tail(typed)
    /\ tty' = Append(tty, Head(typed))
    /\ wire' = Append(wire, Chunk(Head(typed).number, {Text(x) : x \in Head(typed).line.echo}))
    /\ UNCHANGED <<session, host, qemu, current, running, shell>>

GuestRuns ==
    /\ qemu = "up"
    /\ current = <<>> /\ tty # <<>>
    /\ LET l == Head(tty).line
           r == ExecuteCommandLine(l, shell.status)
       IN  /\ current' = IF PromptAfter(l) = "silent" THEN r.out
                         ELSE Append(r.out, {Text(PromptAfter(l))})
           /\ shell' = [status |-> r.status, prompt |-> PromptAfter(l),
                        job |-> IF l.job # NoJob THEN l.job
                                ELSE IF l.adopts THEN NoJob ELSE shell.job]
    /\ running' = Head(tty).number
    /\ tty' = Tail(tty)
    /\ UNCHANGED <<session, host, qemu, typed, wire>>

GuestPrints ==
    /\ qemu = "up"
    /\ current # <<>>
    /\ wire' = Append(wire, Chunk(running, Head(current)))
    /\ current' = Tail(current)
    /\ UNCHANGED <<session, host, qemu, typed, running, shell, tty>>

\* A background job ends while the shell waits for input: notice and prompt.
\* On time means that the job outlasts the checks made before it is awaited.
AwaitsJob == stage = "script" /\ phase \in {"read", "check"} /\ Step.do = "wait"
             /\ \E i \in DOMAIN shell.job : Step.marker \in shell.job[i]

JobEnds ==
    /\ qemu = "up"
    /\ current = <<>> /\ tty = <<>> /\ shell.job # NoJob
    /\ OnTime => AwaitsJob /\ typed = <<>>
    /\ current' = Append(shell.job, {Text(shell.prompt)})
    /\ shell' = [shell EXCEPT !.job = NoJob]
    /\ UNCHANGED <<session, host, qemu, typed, wire, running, tty>>

\* QEMU leaves by itself: a guest that resets, a fault of the emulator.
GuestExits ==
    /\ MayStop
    /\ qemu = "up"
    /\ qemu' = "exited"
    /\ UNCHANGED <<session, host, guest, typed, wire>>

GuestIdle == typed = <<>> /\ tty = <<>> /\ current = <<>>
Settled == GuestIdle /\ wire = <<>>

----------------------------------------------------------------------------
(* main: build, image, firmware, port; then QEMU and the connect loop *)

SetupDone ==
    /\ stage = "setup"
    /\ stage' = "connect"
    /\ qemu' = "up"
    /\ UNCHANGED <<session, guest, typed, wire, step, phase, output, mark, past, tally,
                   verdict, lines, markLine>>

\* A failed build, a missing artifact, image, emulator or firmware raises
\* before Popen: there is nothing to tear down.
SetupFails ==
    /\ MayStop
    /\ stage = "setup"
    /\ stage' = "ended" /\ verdict' = "fail"
    /\ UNCHANGED <<session, guest, qemu, typed, wire, step, phase, output, mark,
                   past, tally, lines, markLine>>

Connected ==
    /\ stage = "connect"
    /\ stage' = "script"
    /\ UNCHANGED <<session, guest, qemu, typed, wire, step, phase, output, mark,
                   past, tally, verdict, lines, markLine>>

Raise(reason) == stage' = "finally" /\ verdict' = reason

ConnectTimesOut ==
    /\ stage = "connect"
    /\ ~OnTime \/ qemu = "exited"
    /\ Raise("no connection")
    /\ UNCHANGED <<session, guest, qemu, typed, wire, step, phase, output, mark,
                   past, tally, lines, markLine>>

----------------------------------------------------------------------------
(* send, wait_for, read_available and the checks between them *)

InScript(do, p) == stage = "script" /\ Step.do = do /\ phase = p

GoOn ==
    /\ phase' = "go"
    /\ IF step = Len(Gate.script)
       THEN stage' = "verdict" /\ UNCHANGED step
       ELSE step' = step + 1 /\ UNCHANGED stage

\* start = len(output).  "more" keeps the start of the line before, "nested"
\* the output since a start that a later check still refers to.
NewStart ==
    CASE Step.how = "fresh"  -> /\ past' = past \cup (Markers(output) \cap Judged)
                                /\ tally' = tally + Count(Gate.counted, output)
                                /\ output' = <<>> /\ mark' = 0
                                /\ markLine' = lines + 1
      [] Step.how = "nested" -> /\ mark' = Len(output)
                                /\ markLine' = lines + 1
                                /\ UNCHANGED <<output, past, tally>>
      [] Step.how = "more"   -> UNCHANGED <<output, past, tally, mark, markLine>>

\* client.sendall of one line, or of several at once.
TypeLine ==
    /\ stage = "script" /\ Step.do \in {"send", "type"} /\ phase = "go"
    /\ lines' = lines + Len(Step.lines)
    /\ typed' = typed \o [i \in DOMAIN Step.lines |-> [number |-> lines + i, line |-> Step.lines[i]]]
    /\ NewStart
    /\ IF Step.do = "send" THEN phase' = "read" /\ UNCHANGED <<stage, step>> ELSE GoOn
    /\ UNCHANGED <<session, guest, qemu, wire, verdict>>

BeginWait ==
    /\ InScript("wait", "go")
    /\ phase' = "read"
    /\ UNCHANGED <<session, guest, qemu, typed, wire, stage, step, output, mark,
                   past, tally, verdict, lines, markLine>>

\* recv hands over all that has arrived.
Receive == output' = output \o wire /\ wire' = <<>>

ReadAvailable ==
    /\ stage = "script" /\ phase = "read"
    /\ Receive
    /\ phase' = "check"
    /\ UNCHANGED <<session, guest, qemu, typed, stage, step, mark, past, tally, verdict,
                   lines, markLine>>

\* The marker occurs after the start, and after the first "after" if the
\* script looks from there.
FirstWith(chunks, m) == SelectInSeq(chunks, LAMBDA c : m \in c.has)
Found == LET i == FirstWith(Since, Step.after)
             from == IF Step.after = Anywhere THEN 0 ELSE i
         IN  \E k \in (from + 1)..Len(Since) : Step.marker \in Since[k].has

MarkerFound ==
    /\ stage = "script" /\ phase = "check"
    /\ Found
    /\ IF Step.do = "send" THEN phase' = "drain" /\ UNCHANGED <<stage, step>> ELSE GoOn
    /\ UNCHANGED <<session, guest, qemu, typed, wire, output, mark, past, tally, verdict,
                   lines, markLine>>

\* process.poll() is asked after the read that found no marker.
PollProcess ==
    /\ stage = "script" /\ phase = "check"
    /\ ~Found
    /\ IF qemu = "exited" THEN Raise("exited") /\ UNCHANGED phase
       ELSE phase' = "read" /\ UNCHANGED <<stage, verdict>>
    /\ UNCHANGED <<session, guest, qemu, typed, wire, step, output, mark, past, tally,
                   lines, markLine>>

\* Mutant: no deadline.
WaitTimesOutNever == FALSE /\ UNCHANGED vars

\* The deadline passes at the head of the loop.
WaitTimesOut ==
    /\ stage = "script" /\ phase = "read"
    /\ OnTime => Settled /\ ~Found /\ ~AwaitsJob /\ qemu = "up"
    /\ Raise("timed out")
    /\ UNCHANGED <<session, guest, qemu, typed, wire, step, phase, output, mark,
                   past, tally, lines, markLine>>

\* Mutant: no drain after the marker.
DrainSkipped ==
    /\ InScript("send", "drain")
    /\ GoOn
    /\ UNCHANGED <<session, guest, qemu, typed, wire, output, mark, past, tally, verdict,
                   lines, markLine>>

\* sleep(0.1); read_available: on time, the line has ended by then.
Drain ==
    /\ InScript("send", "drain")
    /\ OnTime => GuestIdle
    /\ Receive
    /\ GoOn
    /\ UNCHANGED <<session, guest, qemu, typed, mark, past, tally, verdict, lines, markLine>>

\* Mutant: the check follows the marker at once.
PauseSkipped ==
    /\ InScript("pause", "go")
    /\ GoOn
    /\ UNCHANGED <<session, guest, qemu, typed, wire, output, mark, past, tally, verdict,
                   lines, markLine>>

\* An explicit sleep and read_available of the script.
Pause ==
    /\ InScript("pause", "go")
    /\ OnTime => GuestIdle
    /\ Receive
    /\ GoOn
    /\ UNCHANGED <<session, guest, qemu, typed, mark, past, tally, verdict, lines, markLine>>

\* read_available with no sleep before it takes what has arrived by then.
Glance ==
    /\ InScript("glance", "go")
    /\ Receive
    /\ GoOn
    /\ UNCHANGED <<session, guest, qemu, typed, mark, past, tally, verdict, lines, markLine>>

\* serial[start:].count(x) == 1: in the echo and nowhere else
Single(m) == Count(m, Since) = 1

\* What the check of a step asks of the output since its start.
CheckHolds ==
    CASE Step.do = "absent"  -> \A m \in Step.all : m \notin Markers(Since)
      [] Step.do = "nowhere" -> \A m \in Step.all : m \notin Markers(output)
      [] Step.do = "present" -> \A m \in Step.all : m \in Markers(Since)
      [] Step.do = "once"    -> Single(Step.marker)
      [] Step.do = "ordered" -> /\ Step.marker \in Markers(Since)
                                /\ Step.after \in Markers(Since)
                                /\ FirstWith(Since, Step.marker) < FirstWith(Since, Step.after)
      [] Step.do = "held"    -> LET i == FirstWith(Since, Step.after)
                                IN  i > 0 /\ \A k \in 1..(i - 1) : Step.marker \notin Since[k].has

Forbids == IF Step.do = "once" THEN {Step.marker} ELSE Step.all

Checks == {"absent", "nowhere", "present", "once", "ordered", "held"}

Check ==
    /\ stage = "script" /\ phase = "go" /\ Step.do \in Checks
    /\ IF CheckHolds THEN GoOn /\ UNCHANGED verdict
       ELSE Raise("check failed") /\ UNCHANGED <<step, phase>>
    /\ UNCHANGED <<session, guest, qemu, typed, wire, output, mark, past, tally, lines, markLine>>

\* The final read, then required and forbidden over the whole transcript.
JudgeTranscript ==
    /\ stage = "verdict"
    /\ OnTime => GuestIdle
    /\ Receive
    /\ LET text == past \cup Markers(output \o wire)
           counted == tally + Count(Gate.counted, output \o wire)
       IN  Raise(IF /\ Gate.required \subseteq text /\ Gate.forbidden \cap text = {}
                    /\ counted >= Gate.atLeast
                 THEN "pass" ELSE "transcript")
    /\ UNCHANGED <<session, guest, qemu, typed, step, phase, mark, past, tally, lines, markLine>>

\* finally: close the socket, kill QEMU if it is alive and wait for it.  A
\* wait that times out raises, except in run_boot of the persistence test.
TearDown ==
    /\ stage = "finally"
    /\ stage' = "ended"
    /\ \/ /\ qemu' = IF qemu = "up" THEN "killed" ELSE qemu
          /\ UNCHANGED verdict
       \/ /\ MayStop /\ qemu = "up"
          /\ qemu' = "stuck"
          /\ verdict' = IF Gate.ignoresStuck THEN verdict ELSE "fail"
    /\ UNCHANGED <<session, guest, typed, wire, step, phase, output, mark, past, tally,
                   lines, markLine>>

----------------------------------------------------------------------------
Init ==
    /\ gate \in DOMAIN Gates /\ fault \in Gates[gate].faults
    /\ stage = "setup" /\ step = 1 /\ phase = "go"
    /\ output = <<>> /\ mark = 0 /\ past = {} /\ tally = 0 /\ verdict = "none"
    /\ qemu = "off"
    /\ typed = <<>> /\ tty = <<>> /\ wire = <<>>
    /\ current = Gates[gate].boot
    /\ running = 0 /\ lines = 0 /\ markLine = 0
    /\ shell = [status |-> "0", prompt |-> Gates[gate].prompt, job |-> NoJob]

GuestNext == GuestEcho \/ GuestRuns \/ GuestPrints \/ JobEnds \/ GuestExits

HostNext ==
    \/ SetupDone \/ SetupFails \/ Connected \/ ConnectTimesOut
    \/ TypeLine \/ BeginWait \/ ReadAvailable \/ MarkerFound \/ PollProcess
    \/ WaitTimesOut \/ Drain \/ Pause \/ Glance \/ Check \/ JudgeTranscript \/ TearDown

Done == stage = "ended" /\ UNCHANGED vars

Next == GuestNext \/ HostNext \/ Done

\* The host process is scheduled, and its clock reaches every deadline: a
\* wait loop that goes round for ever would outlast its timeout.  A guest that
\* answers on time goes on; nothing else is assumed of a guest.
Fairness == WF_vars(HostNext) /\ SF_vars(WaitTimesOut) /\ WF_vars(OnTime /\ GuestNext)

Spec == Init /\ [][Next]_vars /\ Fairness

----------------------------------------------------------------------------
(* Properties *)

Verdicts == {"none", "pass", "fail", "no connection", "exited", "timed out",
             "check failed", "transcript"}

\* Type correctness of the session's position, verdict and offsets.
TypeOK ==
    /\ stage \in Stages
    /\ step \in 1..Len(Gate.script)
    /\ phase \in {"go", "read", "check", "drain"}
    /\ verdict \in Verdicts
    /\ qemu \in {"off", "up", "exited", "killed", "stuck"}
    /\ mark \in 0..Len(output)
    /\ running \in 0..lines /\ markLine \in 0..lines

\* What the gate is for: a session that passes was given by a guest without
\* the faults the gate notices (a shell that gets || wrong, that runs part of a
\* malformed line, a file system that loses a write, ...).
Detects == stage = "ended" /\ verdict = "pass" => fault \in {"none"} \cup Gate.missed

\* A correct guest that answers on time passes: no marker is looked for in
\* the wrong window, no check sees what an earlier line printed.  A guest with a
\* fault that the gate misses passes as well, in every session: an && that never
\* goes on, a pipeline whose last stage is not seen (missed of the normal gate).
PassesAll ==
    OnTime /\ ~MayStop /\ fault \in {"none"} \cup Gate.missed => verdict \in {"none", "pass"}

\* No session passes with its QEMU still alive: the image a later step reads
\* has no other writer.
NoQemuLeft ==
    stage = "ended" => qemu # "up" /\ (verdict = "pass" => qemu # "stuck")

\* The verdict separates the faults the gate notices from a correct guest and
\* from those it is known to miss, and a pass leaves no QEMU behind.
VerdictExact == TypeOK /\ Detects /\ PassesAll /\ NoQemuLeft

\* The marker that ends a wait was printed by the guest for the line the wait
\* is about, never by a line before it (a stale prompt, a late echo): the drain
\* windows suffice for a guest that answers within them.
OwnAnswer ==
    OnTime /\ stage = "script" /\ phase = "check" /\ Found =>
        \E k \in DOMAIN Since : Step.marker \in Since[k].has /\ Since[k].line >= markLine

\* "X must not appear" is asked once the guest has run what was typed: the
\* check cannot pass because the output it forbids is still on its way.
ChecksSeeAll ==
    OnTime /\ stage = "script" /\ phase = "go" /\ Step.do \in {"absent", "nowhere", "once"} =>
        /\ typed = <<>> /\ tty = <<>>
        /\ Forbids \cap (Markers(wire) \cup UNION Range(current)) = {}

\* Whatever the guest does, a line that never comes, a QEMU that exits or one
\* that survives its kill included, the session ends.
SessionEnds == <>(stage = "ended")
=============================================================================
