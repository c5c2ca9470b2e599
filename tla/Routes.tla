------------------------------- MODULE Routes -------------------------------
(***************************************************************************)
(* The routes of declared domains: the record of which project declares    *)
(* which (src/routes.go) beside what the machine was told by privileged    *)
(* scripts (Trust and Untrust, src/trust.go).  A script is made from what  *)
(* the program reads, waits at a prompt for the person's password, and     *)
(* runs later; meanwhile other programs record, ask and run.               *)
(*                                                                         *)
(* On macOS a route is a file of its own, which may be someone else's      *)
(* (src/trust_darwin.go).  On Linux the routes are one list, set whole on  *)
(* the resolver's link while it is up and again at boot by a drop-in       *)
(* (src/trust_linux.go); a machine without systemd-resolved is one whose   *)
(* link never comes up.                                                    *)
(*                                                                         *)
(* An update of the record is one step: it is made under a lock.  Domains  *)
(* are those routes are for, wildcards folded (RouteDomains).  The         *)
(* authority's part of the two operations is in module Authority.          *)
(***************************************************************************)
CONSTANTS
  Project,  \* the folders of projects
  Domain    \* the domains they declare

VARIABLES
  linux,    \* which platform this machine is, for good
  folder,   \* the projects whose doze.hcl is there
  known,    \* the record: its domains, and for each the projects that declare it
  claim,
  live,     \* the routes to doze in force
  boot,     \* Linux: the routes the drop-in sets when the link comes up
  link,     \* Linux: the link is up and resolved knows it
  foreign,  \* macOS: domains whose route file is someone else's
  ask,      \* each project's privileged run
  strays    \* history: domains forgotten while a route was on its way

vars == <<linux, folder, known, claim, live, boot, link, foreign, ask, strays>>

machine == <<live, boot, link, foreign>>

\* The script: it puts routes (on Linux, the whole list) and drops some (macOS).
\* left and sure are the domains still to be forgotten, before and after their check;
\* since is history: what others recorded or installed while the run was under way.
Idle == [at |-> "idle", put |-> {}, drop |-> {}, left |-> {},
         sure |-> {}, checks |-> FALSE, since |-> {}]

TypeOK ==
  /\ linux \in BOOLEAN /\ link \in BOOLEAN
  /\ folder \subseteq Project
  /\ known \subseteq Domain /\ claim \in [Domain -> SUBSET Project]
  /\ \A d \in Domain \ known : claim[d] = {}
  /\ live \subseteq Domain /\ boot \subseteq Domain /\ foreign \subseteq Domain
  /\ strays \subseteq Domain
  /\ ask \in [Project -> [at : {"idle", "asked", "ran"}, put : SUBSET Domain,
                          drop : SUBSET Domain, left : SUBSET Domain,
                          sure : SUBSET Domain, checks : BOOLEAN, since : SUBSET Domain]]
  /\ IF linux THEN foreign = {} /\ (~link => live = {})
              ELSE boot = {} /\ live \cap foreign = {}

Init ==
  /\ linux \in BOOLEAN
  /\ folder = Project
  /\ known = {} /\ claim = [d \in Domain |-> {}]
  /\ live = {} /\ boot = {} /\ foreign = {} /\ strays = {}
  /\ link = linux
  /\ ask = [p \in Project |-> Idle]

-----------------------------------------------------------------------------
\* declared: one of the claimants' folders is there.
Declared(d) == claim[d] \cap folder # {}

Standing == {d \in known : Declared(d)}

Mine(p) == {d \in known : p \in claim[d]}

\* domainRouted.
Routed(d) == d \in live

Stale == {d \in known : ~Declared(d) /\ Routed(d)}

\* Mutant: the record is not read.
RouteSetOwn(own, prune) == own \ prune

\* routeSet: what the machine should keep after a run.
RouteSet(own, prune) == (own \cup Standing) \ prune

\* What a run that waits at its prompt is going to install.
Installs(a) == IF a.at = "asked" THEN a.put ELSE {}

\* A route the machine does not show and yet may come to have.
OnItsWay(d) == d \in boot \/ \E q \in Project : d \in Installs(ask[q])

\* A run with nothing left to forget is over.
Rest(a) == IF a.left = {} /\ a.sure = {} THEN Idle ELSE a

Noted(asks, D) ==
  [q \in Project |-> IF asks[q].at = "idle" THEN Idle ELSE [asks[q] EXCEPT !.since = @ \cup D]]

-----------------------------------------------------------------------------
\* Mutant: what the last project drops is forgotten, routed or not.
UnwantedRouted(p, want) == {d \in known \ want : claim[d] \subseteq {p}}

\* What nobody wants and nothing routes is not remembered.
Unwanted(p, want) == {d \in known \ want : claim[d] \subseteq {p} /\ ~Routed(d)}

KnownAfter(p, want) == (known \ Unwanted(p, want)) \cup want

\* RecordDomains: the project declares these domains now, in place of what it did.
RecordDomains(p, want) ==
  /\ p \in folder
  /\ known' = KnownAfter(p, want)
  /\ claim' = [d \in Domain |-> IF d \in want THEN claim[d] \cup {p} ELSE claim[d] \ {p}]
  /\ strays' = (strays \cup {d \in Unwanted(p, want) : OnItsWay(d)}) \ known'
  /\ ask' = Noted(ask, want)
  /\ UNCHANGED <<linux, folder, machine>>

\* ForgetProject.
ForgetProject(p) ==
  /\ Mine(p) # {}
  /\ claim' = [d \in Domain |-> claim[d] \ {p}]
  /\ UNCHANGED <<linux, folder, known, machine, ask, strays>>

\* A project's folder is deleted, or is back.
Folder(p) ==
  /\ folder' = IF p \in folder THEN folder \ {p} ELSE folder \cup {p}
  /\ ask' = IF p \in folder THEN ask ELSE Noted(ask, Mine(p))
  /\ UNCHANGED <<linux, known, claim, machine, strays>>

-----------------------------------------------------------------------------
\* routesScript: Linux restates the whole list, macOS writes and removes files; and
\* what is to be forgotten once it has run.
Script(keep, write, drop, left, checks) ==
  [at |-> "asked", put |-> IF linux THEN keep ELSE write, drop |-> IF linux THEN {} ELSE drop,
   left |-> left, sure |-> {}, checks |-> checks, since |-> {}]

\* Trust, as far as the prompt: what is missing is installed, what is stale removed.
Trust(p) ==
  LET missing == {d \in Mine(p) \ foreign : ~Routed(d)} IN
  /\ p \in folder /\ ask[p].at = "idle"
  /\ missing \cup Stale # {}
  /\ ask' = [ask EXCEPT ![p] = Script(RouteSet(Mine(p), Stale), missing, Stale, Stale, TRUE)]
  /\ UNCHANGED <<linux, folder, known, claim, machine, strays>>

\* Untrust, as far as the prompt, for whatever domains the caller names: the record
\* is read for the list that stays, not for who declares what goes.
Untrust(p, removing) ==
  /\ ask[p].at = "idle" /\ removing # {}
  /\ linux \/ removing \ foreign # {}
  /\ ask' = [ask EXCEPT ![p] =
       Script(RouteSet({}, removing), {}, removing \ foreign, removing, FALSE)]
  /\ UNCHANGED <<linux, folder, known, claim, machine, strays>>

\* The person gives the password and the script runs.
RunScript(p) ==
  LET a == ask[p] IN
  /\ a.at = "asked"
  /\ IF linux
     THEN /\ boot' = a.put
          /\ live' = IF link THEN a.put ELSE live
          /\ UNCHANGED foreign
     ELSE /\ live' = (live \cup a.put) \ a.drop
          /\ foreign' = foreign \ (a.put \cup a.drop)
          /\ UNCHANGED boot
  /\ ask' = [Noted(ask, Installs(a)) EXCEPT
       ![p] = Rest([a EXCEPT !.at = "ran", !.put = {}, !.drop = {}])]
  /\ UNCHANGED <<linux, folder, known, claim, link, strays>>

\* The person refuses; or the program ends with its script run and nothing forgotten,
\* which is also how a printed script ends.
GiveUp(p) ==
  /\ ask[p].at # "idle"
  /\ ask' = [ask EXCEPT ![p] = Idle]
  /\ UNCHANGED <<linux, folder, known, claim, machine, strays>>

\* After Trust a stale route is looked for once more; after Untrust it is not.
CheckGone(p, d) ==
  LET a == ask[p] IN
  /\ a.at = "ran" /\ a.sure = {} /\ d \in a.left
  /\ ask' = [ask EXCEPT ![p] =
       Rest([a EXCEPT !.left = @ \ {d}, !.sure = IF a.checks /\ Routed(d) THEN {} ELSE {d}])]
  /\ UNCHANGED <<linux, folder, known, claim, machine, strays>>

\* Mutant: a domain that is declared again is forgotten with the rest.
RemovableAlways(d) == d \in known

Removable(d) == d \in known /\ ~Declared(d)

\* RouteRemoved.
RouteRemoved(p, d) ==
  /\ d \in ask[p].sure
  /\ ask' = [ask EXCEPT ![p] = Rest([@ EXCEPT !.sure = {}])]
  /\ IF Removable(d)
     THEN /\ known' = known \ {d} /\ claim' = [claim EXCEPT ![d] = {}]
          /\ strays' = strays \cup (IF OnItsWay(d) \/ d \in ask[p].since THEN {d} ELSE {})
     ELSE UNCHANGED <<known, claim, strays>>
  /\ UNCHANGED <<linux, folder, machine>>

-----------------------------------------------------------------------------
\* Linux: the link goes, and its list; the zone's unit and the drop-in bring it back.
LinkDown ==
  /\ linux /\ link /\ link' = FALSE /\ live' = {}
  /\ UNCHANGED <<linux, folder, known, claim, boot, foreign, ask, strays>>

LinkUp ==
  /\ linux /\ ~link /\ link' = TRUE /\ live' = boot
  /\ ask' = Noted(ask, boot)
  /\ UNCHANGED <<linux, folder, known, claim, boot, foreign, strays>>

\* macOS: another tool writes its own route file, over doze's perhaps, or removes it.
Stranger(d) ==
  /\ ~linux
  /\ \/ d \notin foreign /\ foreign' = foreign \cup {d} /\ live' = live \ {d}
     \/ d \in foreign /\ foreign' = foreign \ {d} /\ UNCHANGED live
  /\ UNCHANGED <<linux, folder, known, claim, boot, link, ask, strays>>

Next ==
  \/ \E p \in Project :
       \/ \E want \in SUBSET Domain : RecordDomains(p, want) \/ Untrust(p, want)
       \/ ForgetProject(p) \/ Folder(p) \/ Trust(p) \/ RunScript(p) \/ GiveUp(p)
       \/ \E d \in Domain : CheckGone(p, d) \/ RouteRemoved(p, d)
  \/ LinkDown \/ LinkUp
  \/ \E d \in Domain : Stranger(d)

Spec == Init /\ [][Next]_vars

-----------------------------------------------------------------------------
\* A route that is in force, or will be at the next boot, is in the record, so that
\* it is reported and removed once nobody declares it: unless the record dropped the
\* domain while the route was on its way, which it cannot see.
Remembered == (live \cup boot) \ known \subseteq strays

\* A project's claim goes by its own hand only, as long as its folder stands: no
\* other project's run, however late it ends, takes it.
ClaimKept ==
  [][\A p \in Project, d \in Domain :
       (p \in claim[d] \cap folder /\ p \notin claim'[d]) =>
         (\E want \in SUBSET Domain : RecordDomains(p, want)) \/ ForgetProject(p)]_vars

\* What a run was asked to remove, by the caller of Untrust.
AskedToGo(a) == IF a.checks THEN {} ELSE a.left

\* A run takes no route that a project declares, in force or for the next boot, though
\* it restates or prunes everybody's: but for those its caller named to be removed,
\* which no check keeps for another project, and for what was declared or installed
\* after the run had read the record.
RouteKept ==
  [][\A p \in Project : RunScript(p) =>
       \A d \in (live \ live') \cup (boot \ boot') :
         Declared(d) => d \in AskedToGo(ask[p]) \cup ask[p].since]_vars

=============================================================================
