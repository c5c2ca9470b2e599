----------------------------- MODULE TableCache -----------------------------
(***************************************************************************)
(* The network daemon's copy of the registered ports, beside the programs  *)
(* of module Ports that write the two files it is built from:              *)
(* src/tablecache.go and readPortTable (src/listen.go).  The daemon takes  *)
(* no lock.  It reads one file after the other, and between any two of its *)
(* steps a program may write either, or die.                               *)
(*                                                                         *)
(* A version of a file never has the stamp of an earlier one: each is a    *)
(* new file, and the daemon's system (macOS) does not use an inode number  *)
(* again.  The registry file has more than Ports says of it: which names   *)
(* have a route, and who holds the front door at its usual address.        *)
(***************************************************************************)
EXTENDS Ports, Translate

CONSTANTS
  ClientPort,  \* ports that clients send from
  FrontDoor,   \* the public port routed names are served on
  Doors        \* the programs that run a front door

ASSUME TableCacheAssumption ==
  Gateway \notin Ip /\ FrontDoor \in Public /\ Doors \subseteq Pid /\ None \notin Pid

VARIABLES
  routed, \* the names whose entry has a target
  door,   \* the pid of the registry's entry for the front door
  stale,  \* the files have been written since the stamp was taken
  read,   \* refresh: how far it is, and the registry it has read
  table   \* tableCache.table: the mappings, and whose name each is of

daemon == <<stale, read, table>>
routes == <<routed, door>>
cvars == <<vars, routes, daemon>>

\* names.json as it stands, and one without an entry.
File == [name |-> reg, routed |-> routed, door |-> door]
Empty == [name |-> [n \in Name |-> None], routed |-> {}, door |-> None]

NoTable == {}
Idle == [at |-> "idle", file |-> Empty]

\* newTableCache reads once before the daemon serves.
CInit ==
  /\ Init /\ routed = {} /\ door = None
  /\ stale = TRUE /\ read = Idle /\ table = NoTable

\* A port of name n that is listened on by a program: the name's own, or the front
\* door's (via).
Mapping(f, n, via, public, private) ==
  [pid |-> f.name[n].pid, via |-> via, ip |-> f.name[n].ip,
   public |-> public, private |-> private]

\* readPortTable, from the registry f as it was read and the ports file as it is:
\* a dead program's names are left out, and the front door answers for a routed
\* name that has not taken the port for itself.
TableFrom(f) ==
  LET mapped == {n \in Name : f.name[n] # None /\ f.name[n].pid \in alive}
      open(n) == {u \in Public : Effective(f.name, n)[u] # NoPort}
      fronted == {n \in mapped \cap f.routed : f.door \in alive /\ FrontDoor \notin open(n)}
  IN (UNION {{Mapping(f, n, f.name[n].pid, u, Effective(f.name, n)[u]) : u \in open(n)} :
               n \in mapped})
     \cup {Mapping(f, n, f.door, FrontDoor, FrontDoor) : n \in fronted}

\* Mutant: the timer looks at the stamp too.
StampUnforced(force) ==
  /\ read = Idle /\ stale
  /\ stale' = FALSE /\ read' = [Idle EXCEPT !.at = "stamped"]
  /\ UNCHANGED <<vars, routes, table>>

\* refresh, first step: the stamp of both files is taken and kept.  A connection
\* goes on only when it differs; the timer always does (force).
Stamp(force) ==
  /\ read = Idle /\ (stale \/ force)
  /\ stale' = FALSE /\ read' = [Idle EXCEPT !.at = "stamped"]
  /\ UNCHANGED <<vars, routes, table>>

\* The registry is read: the file is replaced whole, so it is one version of it.
ReadRegistry ==
  /\ read.at = "stamped" /\ read' = [at |-> "read", file |-> File]
  /\ UNCHANGED <<vars, routes, stale, table>>

\* Mutant: the stamp is taken once the table is built.
BuildSeen ==
  /\ read.at = "read"
  /\ table' = TableFrom(read.file) /\ read' = Idle /\ stale' = FALSE
  /\ UNCHANGED <<vars, routes>>

\* The ports file is read and the table is stored.
Build ==
  /\ read.at = "read"
  /\ table' = TableFrom(read.file) /\ read' = Idle
  /\ UNCHANGED <<vars, routes, stale>>

\* A route goes with its entry, which a program that claims its name again keeps.
RoutesKept == {n \in routed : reg'[n] # None /\ reg'[n].pid = reg[n].pid}

\* The rest of the registry file.  A write of either file changes the stamp.
Fronted(names, holder) ==
  /\ routed' = names /\ door' = holder
  /\ stale' = (stale \/ <<File, side>>' # <<File, side>>)
  /\ UNCHANGED <<read, table>>

\* A program's step, of module Ports.  A dead holder's entry for the front door counts
\* for nothing, whenever it is dropped.
Program == Next /\ Fronted(RoutesKept, door)

\* Lease.Route and RouteFor, with a target or with none.
Route(p, n, given) ==
  /\ p \in alive /\ HeldBy(p, Pruned[n])
  /\ Touch
  /\ Fronted(IF given THEN RoutesKept \cup {n} ELSE RoutesKept \ {n}, door)

\* claimPort and releasePort for the front door, once the port is bound or closed.
OpenDoor(p) == p \in Doors \cap alive /\ Touch /\ Fronted(RoutesKept, p)

CloseDoor(p) == p \in alive /\ door = p /\ Touch /\ Fronted(RoutesKept, None)

Fronting(p) ==
  \/ \E n \in Name, given \in BOOLEAN : Route(p, n, given)
  \/ OpenDoor(p) \/ CloseDoor(p)

CNext ==
  \/ Program \/ (\E p \in Pid : Fronting(p))
  \/ (\E force \in BOOLEAN : Stamp(force)) \/ ReadRegistry \/ Build

\* The timer ticks, and a refresh that has begun ends.
CSpec ==
  /\ CInit /\ [][CNext]_cvars
  /\ WF_cvars(Stamp(TRUE)) /\ WF_cvars(ReadRegistry) /\ WF_cvars(Build)

-----------------------------------------------------------------------------
\* Between refreshes, when the stamp has not changed, the table is what the two
\* files say now, but for names and a front door of programs that died: a write
\* that falls anywhere inside a refresh is never taken for one the table has.
TableCurrent ==
  read = Idle /\ ~stale => {m \in table : {m.pid, m.via} \subseteq alive} = TableFrom(File)

\* A connection to a name is never sent to a program that does not have the name,
\* though the two files are read at two moments: the private port is one of the
\* program whose name the registry said it was, or it is the front door's.
TableOwn ==
  \A m \in table : \/ m.via = m.pid /\ m.private \in Mine[m.pid]
                   \/ m.via \in Doors /\ m.public = FrontDoor /\ m.private = FrontDoor

\* A client is refused, or it reaches the program that is mapped and gets the answer from
\* the address and port it asked, even where its own port is some name's public one;
\* what is written back never comes back here, and no reset answers a reset.  Not so
\* for a client whose own port is one that the table, which may be of a dead program,
\* has as a private one of the address: its packet is taken for an answer.
AnswersReturn ==
  \A v \in Ip, u \in Public, s \in ClientPort, flags \in {{"SYN"}, {"ACK"}, {"RST"}} :
    LET sent == Packet(Gateway, s, v, u, flags) IN
    PublicOf(table, v, s) = {} => \A got \in Translate(table, sent) :
      /\ got.dst = Gateway /\ Translate(table, got) = {}
      /\ IF PrivateOf(table, v, u) = {}
         THEN /\ "RST" \in got.flags \ flags
              /\ got = Reply(sent, got.flags)
         ELSE /\ got.dport \in PrivateOf(table, v, u)
              /\ Translate(table, Reply(got, {"ACK"})) = {Reply(sent, {"ACK"})}

\* What is left of a dead program is gone at last, though nothing writes a file.
DeadForgotten ==
  \A p \in Pid : (p \notin alive) ~> (\A m \in table : p \notin {m.pid, m.via})

=============================================================================
