------------------------------ MODULE Registry ------------------------------
(***************************************************************************)
(* The shared name file, names.json, and the programs that claim names in  *)
(* it: src/registry.go, with Route, RouteFor (src/ingress.go) and          *)
(* Certificate (src/domains.go).                                           *)
(*                                                                         *)
(* Every operation is one call of Registry.update: under an exclusive lock *)
(* it reads the file, refuses a newer format, drops the entries of         *)
(* programs that are gone, applies the operation and renames a new file    *)
(* over the old one.  Here an operation is the step that takes the lock    *)
(* and computes the new file (Update), followed by Commit, by Fail (the    *)
(* write fails), or by the death of the program, which frees the lock and  *)
(* leaves the file as it was.  Between the two steps programs come and go. *)
(* A call that the registry refuses writes nothing: it is the guard of its *)
(* operation.                                                              *)
(*                                                                         *)
(* Left out: Owner and Tier, which decide nothing here; a file that does   *)
(* not parse; Ports (module Ports); the front door's and the resolver's    *)
(* own entries (module Takeover).                                          *)
(***************************************************************************)
EXTENDS Pool

CONSTANTS
  Pid,       \* process identifiers
  Recycled,  \* those the system may give to another process after an exit
  Version,   \* the format a program writes and understands; a release from
             \* before formats existed has version 0
  Dir,       \* the project folder a program serves
  Asked,     \* addresses that callers of ClaimAt pick
  Target,    \* backends of the front door
  Cert,      \* certificates a person brings for a domain
  Stack,     \* stack names
  None       \* no entry, no target, no certificate, nobody

ASSUME RegistryAssumption ==
  /\ Recycled \subseteq Pid
  /\ Asked \subseteq Address
  /\ Version \in [Pid -> Nat]
  /\ None \notin Target \cup Cert

VARIABLES
  proc,      \* what runs under each pid: "new" (nothing yet), "doze",
             \* "other" (a program that is not doze's), "gone"
  file,      \* names.json: the names, the stacks and the format stamp
  pending,   \* each program's update, while it has the lock: the file it
             \* will write, and what the program holds once it has returned
  lease,     \* what each program was told it holds, and what it published
  stacks     \* the stacks each program was told are its own

vars == <<proc, file, pending, lease, stacks>>

-----------------------------------------------------------------------------
\* Entry, as the registry keeps it, and without the pid, as its holder knows it.
Entry == [pid : Pid, ip : Address, target : Target \cup {None}, cert : Cert \cup {None}]
Claimed == [ip : Address, target : Target \cup {None}, cert : Cert \cup {None}]
StackEntry == [pid : Pid, dir : {Dir[p] : p \in Pid}]

File == [name   : [Name -> Entry \cup {None}],
         stack  : [Stack -> StackEntry \cup {None}],
         format : Nat]

Holdings == [Name -> Claimed \cup {None}]
Pending == [file : File, lease : Holdings, stacks : SUBSET Stack]

\* What a peer that resolves a name learns of its entry.
Shown == [pid : Pid, ip : Address, target : Target \cup {None}]

ASSUME NoneAssumption ==
  None \notin Entry \cup Claimed \cup StackEntry \cup Pending \cup Shown

TypeOK ==
  /\ proc \in [Pid -> {"new", "doze", "other", "gone"}]
  /\ file \in File
  /\ pending \in [Pid -> Pending \cup {None}]
  /\ lease \in [Pid -> Holdings]
  /\ stacks \in [Pid -> SUBSET Stack]

NoLease == [n \in Name |-> None]

Init ==
  /\ proc = [p \in Pid |-> "new"]
  /\ file = [name |-> NoLease, stack |-> [s \in Stack |-> None], format |-> 0]
  /\ pending = [p \in Pid |-> None]
  /\ lease = [p \in Pid |-> NoLease]
  /\ stacks = [p \in Pid |-> {}]

-----------------------------------------------------------------------------
\* alive: signal 0 finds a process, whatever program it runs.
Alive(p) == proc[p] \in {"doze", "other"}

\* The file with the entries of dead programs dropped.
Live(e) == IF e # None /\ Alive(e.pid) THEN e ELSE None
Pruned == [file EXCEPT !.name = [n \in Name |-> Live(file.name[n])],
                       !.stack = [s \in Stack |-> Live(file.stack[s])]]

HeldBy(p, e) == e # None /\ e.pid = p

\* Mutant: a lock that is never taken.
NoLock == TRUE

\* lockFile: nobody has the lock.
Unlocked == \A p \in Pid : pending[p] = None

\* Under the lock, the new file with the program's stamp.  A program from before
\* formats writes no stamp, since it knows no such field.
Rewrite(p, new, held, owned) ==
  /\ proc[p] = "doze" /\ Unlocked
  /\ pending' = [pending EXCEPT ![p] = [file |-> [new EXCEPT !.format = Version[p]],
                                       lease |-> held, stacks |-> owned]]
  /\ UNCHANGED <<proc, file, lease>>

\* update: refused when the file is from a newer program, which a program from
\* before formats cannot see.
Update(p, new, held, owned) ==
  /\ Version[p] # 0 => file.format <= Version[p]
  /\ Rewrite(p, new, held, owned)

\* An update that leaves the stacks alone.
UpdateNames(p, new, held) == Update(p, new, held, stacks[p]) /\ UNCHANGED stacks

\* The rename: the new file is in place, the lock is free, the call returns.
Commit(p) ==
  /\ pending[p] # None
  /\ file' = pending[p].file
  /\ lease' = [lease EXCEPT ![p] = pending[p].lease]
  /\ stacks' = [stacks EXCEPT ![p] = pending[p].stacks]
  /\ pending' = [pending EXCEPT ![p] = None]
  /\ UNCHANGED proc

\* The write or the rename fails: the call returns an error, the file is as it was.
Fail(p) ==
  /\ pending[p] # None
  /\ pending' = [pending EXCEPT ![p] = None]
  /\ UNCHANGED <<proc, file, lease, stacks>>

-----------------------------------------------------------------------------
\* The addresses of the names other than n.
Taken(n) == {Pruned.name[m].ip : m \in {k \in Name \ {n} : Pruned.name[k] # None}}

\* Mutant: a claim that forgets the route.
ReclaimedUnrouted(p, n, ip) == [pid |-> p, ip |-> ip, cert |-> None, target |-> None]

\* claim's entry: a program that claims a name again keeps its route.
Reclaimed(p, n, ip) ==
  [pid |-> p, ip |-> ip, cert |-> None,
   target |-> IF HeldBy(p, Pruned.name[n]) THEN Pruned.name[n].target ELSE None]

\* The name's new entry, and the lease the program gets.
Enter(p, n, ip) ==
  UpdateNames(p, [Pruned EXCEPT !.name[n] = Reclaimed(p, n, ip)],
    [lease[p] EXCEPT ![n] = IF @ = None
                              THEN [ip |-> ip, target |-> None, cert |-> None]
                              ELSE [@ EXCEPT !.ip = ip]])

\* The part of claim common to its callers: refused when another program has
\* the name.
Assign(p, n, ip) ==
  /\ Pruned.name[n] # None => Pruned.name[n].pid = p
  /\ Enter(p, n, ip)

\* Registry.Claim: the registry picks the address.
Claim(p, n) == \E ip \in AddressFor(n, Taken(n)) : Assign(p, n, ip)

\* Registry.ClaimAt: the caller picks it, and an address of the pool is refused
\* when another name has it.
ClaimAt(p, n, ip) ==
  /\ InPool(ip) => ip \notin Taken(n)
  /\ Assign(p, n, ip)

\* Lease.Twin: the address of another name of this program.
Twin(p, n, m) ==
  /\ m # n /\ lease[p][m] # None
  /\ InPool(lease[p][m].ip) =>
       \A k \in Name \ {n} :
         Pruned.name[k] # None /\ Pruned.name[k].ip = lease[p][m].ip
           => Pruned.name[k].pid = p
  /\ Assign(p, n, lease[p][m].ip)

\* Lease.Route and RouteFor: whoever asks, the entry has to be the program's.
Route(p, n, t) ==
  /\ HeldBy(p, Pruned.name[n])
  /\ UpdateNames(p, [Pruned EXCEPT !.name[n].target = t],
       [lease[p] EXCEPT ![n] = IF @ = None THEN None ELSE [@ EXCEPT !.target = t]])

\* Lease.Certificate.
Certificate(p, n, c) ==
  /\ lease[p][n] # None /\ HeldBy(p, Pruned.name[n])
  /\ UpdateNames(p, [Pruned EXCEPT !.name[n].cert = c],
                 [lease[p] EXCEPT ![n].cert = c])

\* Lease.Release: of a name that is not this program's, it drops nothing.
Release(p, n) ==
  /\ lease[p][n] # None
  /\ UpdateNames(p,
       IF HeldBy(p, Pruned.name[n]) THEN [Pruned EXCEPT !.name[n] = None] ELSE Pruned,
       [lease[p] EXCEPT ![n] = None])

\* Snapshot, and every read: an update that changes no entry.
Snapshot(p) == UpdateNames(p, Pruned, lease[p])

\* The stack's new entry.
EnterStack(p, s) ==
  /\ Update(p, [Pruned EXCEPT !.stack[s] = [pid |-> p, dir |-> Dir[p]]],
            lease[p], stacks[p] \cup {s})
  /\ UNCHANGED stacks

\* ClaimStack: refused when another program has the stack for another project.
ClaimStack(p, s) ==
  /\ Pruned.stack[s] # None =>
       Pruned.stack[s].pid = p \/ Pruned.stack[s].dir = Dir[p]
  /\ EnterStack(p, s)

\* Mutant: a release that drops the stack whoever has it by then.
ReleaseStackAny(p, s) ==
  /\ s \in stacks[p]
  /\ Update(p, [Pruned EXCEPT !.stack[s] = None], lease[p], stacks[p] \ {s})
  /\ stacks' = [stacks EXCEPT ![p] = @ \ {s}]

\* The function ClaimStack returns.  The program gives the stack up as it calls
\* it, and the update's error is dropped.
ReleaseStack(p, s) ==
  /\ s \in stacks[p]
  /\ Update(p,
       IF HeldBy(p, Pruned.stack[s]) THEN [Pruned EXCEPT !.stack[s] = None] ELSE Pruned,
       lease[p], stacks[p] \ {s})
  /\ stacks' = [stacks EXCEPT ![p] = @ \ {s}]

-----------------------------------------------------------------------------
\* A program starts: doze's, or, under a pid that was used, an unrelated one.
Start(p) ==
  /\ proc[p] = "new" \/ (proc[p] = "gone" /\ p \in Recycled)
  /\ proc' = [proc EXCEPT ![p] = "doze"]
  /\ UNCHANGED <<file, pending, lease, stacks>>

Reuse(p) ==
  /\ proc[p] = "gone" /\ p \in Recycled
  /\ proc' = [proc EXCEPT ![p] = "other"]
  /\ UNCHANGED <<file, pending, lease, stacks>>

\* A program exits or is killed, with or without the lock.
Exit(p) ==
  /\ Alive(p)
  /\ proc' = [proc EXCEPT ![p] = "gone"]
  /\ pending' = [pending EXCEPT ![p] = None]
  /\ lease' = [lease EXCEPT ![p] = NoLease]
  /\ stacks' = [stacks EXCEPT ![p] = {}]
  /\ UNCHANGED file

Operation(p) ==
  \/ \E n \in Name : Claim(p, n)
  \/ \E n \in Name, ip \in Asked : ClaimAt(p, n, ip)
  \/ \E n, m \in Name : Twin(p, n, m)
  \/ \E n \in Name, t \in Target : Route(p, n, t)
  \/ \E n \in Name, c \in Cert : Certificate(p, n, c)
  \/ \E n \in Name : Release(p, n)
  \/ Snapshot(p)
  \/ \E s \in Stack : ClaimStack(p, s)
  \/ \E s \in Stack : ReleaseStack(p, s)

Next ==
  \E p \in Pid : \/ Operation(p) \/ Commit(p) \/ Fail(p)
                 \/ Start(p) \/ Reuse(p) \/ Exit(p)

Spec == Init /\ [][Next]_vars

-----------------------------------------------------------------------------
SamePool(f, n, m, ips) ==
  /\ n # m /\ f.name[n] # None /\ f.name[m] # None
  /\ f.name[n].ip = f.name[m].ip /\ f.name[n].ip \in ips

Own(f) ==
  \A n, m \in Name : SamePool(f, n, m, Dynamic) => f.name[n].pid = f.name[m].pid

\* Two programs never have one dynamic address, however their claims, moves,
\* releases and deaths interleave: each would get the other's clients.
OwnAddress == Own(file)

Agrees(p, f, held) ==
  \A n \in Name :
    IF held[n] = None THEN ~HeldBy(p, f.name[n])
                      ELSE /\ HeldBy(p, f.name[n])
                           /\ f.name[n].ip = held[n].ip
                           /\ f.name[n].target = held[n].target

\* What a running program was told is what the file says, whatever its peers
\* did meanwhile: each name it claimed is its own, at the address and with the
\* route it was given, and the file has no other name under its pid.
ViewAgrees ==
  \A p \in Pid : IF proc[p] = "doze" THEN Agrees(p, file, lease[p])
                                    ELSE lease[p] = NoLease

\* What has the lock is one running program, and the file it is about to
\* rename into place takes nothing from its peers, gives them nothing they do
\* not have, and agrees with what its own caller will be told.
UpdateSafe ==
  \A p \in Pid : pending[p] # None =>
    /\ proc[p] = "doze"
    /\ \A q \in Pid : pending[q] # None => q = p
    /\ Own(pending[p].file)
    /\ Agrees(p, pending[p].file, pending[p].lease)
    /\ \A q \in Pid \ {p}, n \in Name :
         proc[q] # "gone" /\ (HeldBy(q, pending[p].file.name[n]) \/ HeldBy(q, file.name[n]))
           => pending[p].file.name[n] = file.name[n]

\* A stack that a running program was given, has not released and is on file for
\* goes to no one but another program of its project, which takes it over: neither
\* a release that comes late, from a program it was taken over from, nor a claim of
\* another project, nor an update under way as programs die takes it.
StackStays ==
  [][\A p \in Pid : \A s \in stacks[p] :
       HeldBy(p, file.stack[s]) => /\ file'.stack[s] # None
                                   /\ file'.stack[s].dir = Dir[p]]_vars

\* Two running programs that were both given a stack name serve one project.  It
\* takes projects of one program each: after a program of the project took the
\* stack over and released it, the first one has been given it still, and the
\* stack is free.
StackOneProject ==
  \A p, q \in Pid : stacks[p] \cap stacks[q] # {} => Dir[p] = Dir[q]

\* A program never replaces a file of a format above its own.
FormatNeverLowered == [][file'.format >= file.format]_vars

-----------------------------------------------------------------------------
\* What a peer that reads the file sees: the names of the running programs.
Seen(n) == IF Live(file.name[n]) = None THEN None
           ELSE [pid |-> file.name[n].pid, ip |-> file.name[n].ip,
                 target |-> file.name[n].target]

Promised == INSTANCE Zone WITH running <- {p \in Pid : Alive(p)},
                               zone <- [n \in Name |-> Seen(n)]

\* The file, its lock and the pruning are as good as a table that changes at
\* once: an operation takes effect at its rename and touches one name of its
\* own program, and a program's names are gone the moment it is, whatever an
\* update already under way writes back.
ImplementsZone == Promised!Spec

=============================================================================
