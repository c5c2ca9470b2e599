-------------------------------- MODULE Setup --------------------------------
(***************************************************************************)
(* Setting a Linux machine up and back (src/setup.go, src/setup_linux.go,  *)
(* src/resolvconf.go): install and uninstall read the hosts file and what  *)
(* runs on the machine, write one script, and run it under a prompt, step  *)
(* by step under set -e; check says what is in place.                      *)
(*                                                                         *)
(* The hosts file is a sequence of the block's two markers, its lines as   *)
(* one token, users' lines, and newlines.  While a prompt is up users and  *)
(* other tools edit the file, and a resolver is installed or removed.      *)
(*                                                                         *)
(* Left out: macOS and Windows, a script that is printed, the home the     *)
(* daemon serves, and a write that fails halfway.                          *)
(***************************************************************************)
EXTENDS Naturals, Sequences, SequencesExt

CONSTANTS
  UserLine,   \* lines of users and of other tools
  Directive,  \* those of them that printf takes for more than text
  Hosts,      \* the hosts files a machine may start with
  MaxChanges  \* bound: edits of the hosts file and changes of the machine

VARIABLES
  hosts,    \* the hosts file
  env,      \* who owns resolv.conf, and whether dnsmasq runs
  have,     \* files in place: those of install, and the routes and trust of a stack
  up,       \* what runs: the link and the daemon
  script,   \* the script under its prompt: what is left of it, the text it writes, and
            \* users' lines as they were when the file was read for it
  users,    \* users' lines, as users wrote them, without edits that a script undid
  excused,  \* printf made something else of a text
  last,     \* what ran through last, if nothing has changed since
  changes

vars == <<hosts, env, have, up, script, users, excused, last, changes>>

Begin == "# BEGIN doze"
End == "# END doze"
Nl == "\n"
Apex == "apex names"

\* apexHostsBlock.
Block == <<Begin, Nl, Apex, Nl, End, Nl>>

Ends(h) == h # <<>> /\ Last(h) = Nl

\* What users see of a hosts file: their lines, in order.
Users(h) ==
  LET lines[i \in 0 .. Len(h)] ==
        IF i = 0 THEN <<>>
        ELSE IF h[i] \in UserLine THEN Append(lines[i - 1], h[i]) ELSE lines[i - 1]
  IN lines[Len(h)]

\* Each line ends before the next begins.
Separated(h) == \A i \in 1 .. Len(h) - 1 : Nl \in {h[i], h[i + 1]}

\* No line of doze's or a user's is the text of another part of the block; a machine
\* starts with a file of lines, and no block in it.
ASSUME SetupAssumption ==
  /\ Directive \subseteq UserLine /\ MaxChanges \in Nat
  /\ UserLine \cap {Begin, End, Nl, Apex} = {}
  /\ \A h \in Hosts : h \in Seq(UserLine \cup {Nl}) /\ Separated(h)

-----------------------------------------------------------------------------
At(h, from, t) == {i \in from .. Len(h) : h[i] = t}
Least(s) == CHOOSE i \in s : \A j \in s : i <= j

\* Mutant: with no end marker the block goes on to the end of the file.
BlockEndOfFile(h, start) ==
  IF At(h, start, End) = {} THEN Len(h)
  ELSE LET e == Least(At(h, start, End)) IN IF e < Len(h) /\ h[e + 1] = Nl THEN e + 1 ELSE e

\* Where the block that begins at start ends: without its marker it is one line.
BlockEnd(h, start) ==
  IF At(h, start, End) = {} THEN start
  ELSE LET e == Least(At(h, start, End)) IN IF e < Len(h) /\ h[e + 1] = Nl THEN e + 1 ELSE e

WithNl(h) == IF h # <<>> /\ ~Ends(h) THEN Append(h, Nl) ELSE h

\* The blank line the block was separated by.
Collapsed(head) == WithNl(IF Ends(head) THEN Front(head) ELSE head)

\* replaceHostsBlock.
Replaced(h, want) ==
  IF At(h, 1, Begin) = {}
  THEN IF want = <<>> THEN h ELSE WithNl(h) \o <<Nl>> \o want
  ELSE LET start == Least(At(h, 1, Begin))
           head  == SubSeq(h, 1, start - 1)
           tail  == SubSeq(h, BlockEnd(h, start) + 1, Len(h))
       IN IF want = <<>> THEN Collapsed(head) \o tail ELSE head \o want \o tail

\* hostsBlockInstalled.
BlockInstalled == \E i \in 1 .. Len(hosts) : SubSeq(hosts, i, i + Len(Block) - 1) = Block

-----------------------------------------------------------------------------
CanRoute == env.resolved \/ env.dnsmasq

\* Mutant: only systemd-resolved's route is looked at.
RouteInstalledByManager == env.resolved /\ {"zone", "route"} \subseteq have

\* resolverRouteInstalled: resolved needs the unit with its lines, dnsmasq its drop-in.
RouteInstalled == "zone" \in have /\ (IF env.resolved THEN "route" ELSE "drop") \in have

\* netdStep: the unit is this build's and runs.
NetdInPlace == "netd" \in have /\ "netd" \in up

\* check, but for the sysctl, which install does not insist on, and for the daemon
\* unless it is asked about.
Checked(netd) == BlockInstalled /\ (CanRoute => RouteInstalled /\ (netd => NetdInPlace))

-----------------------------------------------------------------------------
\* A step of a script: the files it makes and removes, what it starts and stops,
\* and whether the script goes on when it fails.
Step(add, del, start, stop, optional) ==
  [add |-> add, del |-> del, start |-> start, stop |-> stop, optional |-> optional, hosts |-> FALSE]
Make(add, del) == Step(add, del, {}, {}, FALSE)
Start(what) == Step({}, {}, {what}, {}, FALSE)
WriteHosts == [Make({}, {}) EXCEPT !.hosts = TRUE]

\* The daemon's unit and its program, a copy made by this build or by an older one.
Daemon == {"netd", "old netd", "copy", "old copy"}
HasProgram == {"copy", "old copy"} \cap have # {}

\* install's script.  The copy may fail: set -e does not look at what is before &&.
InstallSteps ==
  <<Step({"sysctl"}, {}, {}, {}, TRUE), WriteHosts>>
  \o (IF ~CanRoute THEN <<>> ELSE
       <<IF env.resolved THEN Make({"zone", "route"}, {}) ELSE Make({"zone"}, {"route"}), Start("link")>>
       \o (IF env.resolved THEN <<>> ELSE <<Make({"drop"}, {}), Step({}, {}, {}, {}, TRUE)>>)
       \o <<Step({"copy"}, {"old copy"}, {}, {}, TRUE), Make({"netd"}, {"old netd"}), Start("netd")>>)

\* Mutant: the drop-in that this machine's resolver does not read is left.
UninstallStepsMissing ==
  <<Step({}, {}, {}, {"netd"}, TRUE), Step({}, {}, {}, {"link"}, TRUE),
    Make({}, {"sysctl", "zone", "route"} \cup Daemon \cup (IF env.resolved THEN {} ELSE {"drop"})),
    WriteHosts, Step({}, {}, {}, {}, TRUE), Make({}, {"routes"})>>

\* uninstall's script, with the lines cleanupScript adds: whatever was installed.
UninstallSteps ==
  <<Step({}, {}, {}, {"netd"}, TRUE), Step({}, {}, {}, {"link"}, TRUE),
    Make({}, {"sysctl", "zone", "route", "drop"} \cup Daemon),
    WriteHosts, Step({}, {}, {}, {}, TRUE), Make({}, {"routes"})>>

None == [what |-> "nothing", steps |-> <<>>, text |-> <<>>, users |-> <<>>, fresh |-> TRUE]

Init ==
  /\ hosts \in Hosts /\ users = Users(hosts)
  /\ env \in [resolved : BOOLEAN, dnsmasq : BOOLEAN]
  /\ \/ have = {} /\ up = {}
     \/ have = {"sysctl", "zone", "drop", "old netd", "old copy"} /\ up = {"link", "netd"}
  /\ script = None /\ excused = FALSE /\ last = "nothing" /\ changes = 0

\* The files and the machine are read, and the prompt comes up.
Prompt(what, steps, want) ==
  /\ script = None
  /\ script' = [what |-> what, steps |-> steps, text |-> Replaced(hosts, want),
                users |-> users, fresh |-> TRUE]
  /\ last' = "nothing"
  /\ UNCHANGED <<hosts, env, have, up, users, excused, changes>>

Install == Prompt("install", InstallSteps, Block)
Uninstall == Prompt("uninstall", UninstallSteps, <<>>)

\* What the shell's printf makes of the text, which it is given as its format: it
\* passes over a directive, or stops at it and fails.
Printf(text) ==
  LET bad == {i \in 1 .. Len(text) : text[i] \in Directive} IN
  IF bad = {} THEN {[out |-> text, ok |-> TRUE]}
  ELSE {[out |-> SelectSeq(text, LAMBDA t : t \notin Directive), ok |-> TRUE],
        [out |-> SubSeq(text, 1, Least(bad) - 1), ok |-> FALSE]}

\* The script's next step does what it is for.  The hosts file becomes what was made of
\* the one read before the prompt: an edit made since is lost.
Do ==
  /\ script.steps # <<>>
  /\ LET s == Head(script.steps) IN
       /\ have' = (have \ s.del) \cup s.add
       /\ up' = (up \ s.stop) \cup (IF HasProgram THEN s.start ELSE s.start \ {"netd"})
       /\ \E text \in IF s.hosts THEN Printf(script.text) ELSE {[out |-> hosts, ok |-> TRUE]} :
            /\ hosts' = text.out
            /\ script' = IF text.ok THEN [script EXCEPT !.steps = Tail(@)] ELSE None
       /\ users' = IF s.hosts THEN script.users ELSE users
       /\ excused' = (excused \/ (s.hosts /\ hosts' # script.text))
  /\ UNCHANGED <<env, last, changes>>

\* It fails: the script goes on without it, or ends there (set -e), as it does when the
\* prompt is turned down.
Fail ==
  /\ script.steps # <<>>
  /\ script' = IF Head(script.steps).optional THEN [script EXCEPT !.steps = Tail(@)] ELSE None
  /\ UNCHANGED <<hosts, env, have, up, users, excused, last, changes>>

\* The script has run through; cleanupAfter removes what the person owns.
Finish ==
  /\ script # None /\ script.steps = <<>>
  /\ have' = IF script.what = "uninstall" THEN have \ {"authority"} ELSE have
  /\ last' = IF script.fresh THEN script.what ELSE "nothing"
  /\ script' = None
  /\ UNCHANGED <<hosts, env, up, users, excused, changes>>

-----------------------------------------------------------------------------
\* Whoever edits the hosts file, changes how the machine resolves, or trusts the
\* authority and routes domains, does so after what last ran, or beside a script.
Disturb ==
  /\ changes < MaxChanges /\ changes' = changes + 1
  /\ last' = "nothing"
  /\ script' = IF script = None THEN None ELSE [script EXCEPT !.fresh = FALSE]

\* A user adds a line, at either end, or deletes a marker of doze's.
Edit ==
  /\ Disturb
  /\ \/ \E t \in UserLine \ ToSet(users) :
          \/ hosts' = <<t, Nl>> \o hosts
          \/ \E nl \in {<<>>, <<Nl>>} : hosts' = WithNl(hosts) \o <<t>> \o nl
     \/ \E i \in 1 .. Len(hosts) : hosts[i] \in {Begin, End} /\ hosts' = RemoveAt(hosts, i)
  /\ users' = Users(hosts')
  /\ UNCHANGED <<env, have, up, excused>>

Reconfigure ==
  /\ env' \in [resolved : BOOLEAN, dnsmasq : BOOLEAN] \ {env} /\ Disturb
  /\ UNCHANGED <<hosts, have, up, users, excused>>

Trust ==
  /\ have' = have \cup {"authority", "routes"} /\ Disturb
  /\ UNCHANGED <<hosts, env, up, users, excused>>

Next == Install \/ Uninstall \/ Do \/ Fail \/ Finish \/ Edit \/ Reconfigure \/ Trust

Spec == Init /\ [][Next]_vars

-----------------------------------------------------------------------------
\* No line of a user's is lost, moved past another or joined to one, whatever installs
\* and removals ran, failed or began again, and whatever became of doze's own markers:
\* but for edits made after a script's file had been read, and where printf takes a
\* line for a directive.
UsersKept ==
  excused \/ (Users(hosts) = users /\ Separated(hosts))

\* Once an install has run through, on whatever an earlier one, by another release or
\* for another resolver, had left, check finds all in place, or all but a daemon that
\* has no program to run; and another changes nothing.
DoneIsSeen ==
  last = "install" => excused \/ (Checked(HasProgram) /\ Replaced(hosts, Block) = hosts)

\* Once a removal has run through, nothing that any install or stack made is left,
\* though the machine's resolver has changed since, and no block is.
UndoneIsGone == last = "uninstall" => have = {} /\ (excused \/ At(hosts, 1, Begin) = {})

\* "Everything outside the markers is preserved byte for byte": but for edits made beside
\* a script.
BytesPreserved == Users(hosts) = users

=============================================================================
