------------------------------ MODULE Takeover ------------------------------
(***************************************************************************)
(* How doze programs share one port, first come: the resolver's socket     *)
(* (serveWith, serveConn and Server, src/resolver.go) and the front door's *)
(* two ports (holdPort and Ingress, src/ingress.go).  Each program runs    *)
(* the same loop; the holder's pid is in the registry under a key of the   *)
(* port.  The network daemon is one of the programs (serveZone,            *)
(* src/netd.go), one that is never closed.                                 *)
(*                                                                         *)
(* The two loops are one but for what an error leaves: http.Server.Serve   *)
(* closes its listener when it returns, serveConn leaves the socket to a   *)
(* goroutine that waits for the context to end (LeavesSocket).             *)
(*                                                                         *)
(* An update of the registry is one step here, see module Registry; it may *)
(* fail, and the loop drops the error.                                     *)
(***************************************************************************)
EXTENDS Naturals

CONSTANTS
  Pid,           \* the programs
  NoRegistry,    \* those whose resolver was given no registry
  LeavesSocket,  \* TRUE for the resolver, FALSE for a front door port
  MaxBreaks,     \* bound: how often serving ends by an error
  Stranger,      \* a program that is not doze's
  None           \* nobody

ASSUME TakeoverAssumption ==
  /\ LeavesSocket \in BOOLEAN /\ MaxBreaks \in Nat
  /\ NoRegistry \subseteq Pid /\ (~LeavesSocket => NoRegistry = {})
  /\ Stranger \notin Pid /\ None \notin Pid \cup {Stranger}

VARIABLES
  at,        \* where each program's loop is; "off" before, "done" after,
             \* "dead" when the program is
  ended,     \* the programs whose context has ended (Close)
  socket,    \* who has the port bound
  barred,    \* whether a bind fails before it is seen who has the port
  record,    \* the pid in the registry under the port's key
  lost,      \* the programs whose last update of it failed
  bound,     \* the programs whose Bound has been released
  said,      \* what each program has announced since it last served
  breaks     \* errors so far

vars == <<at, ended, socket, barred, record, lost, bound, said, breaks>>

Where == {"off", "listen", "ask", "claim", "bound", "serve", "release", "wait", "done", "dead"}

TypeOK ==
  /\ at \in [Pid -> Where] /\ ended \subseteq Pid /\ bound \subseteq Pid
  /\ socket \in Pid \cup {Stranger, None}
  /\ barred \in BOOLEAN
  /\ record \in Pid \cup {None} /\ lost \subseteq Pid
  /\ said \in [Pid -> {"nothing", "peer", "stranger", "failed"}]
  /\ breaks \in 0 .. MaxBreaks
  /\ \A p \in Pid : at[p] = "done" => p \in ended

Init ==
  /\ at = [p \in Pid |-> "off"]
  /\ ended = {} /\ bound = {} /\ breaks = 0
  /\ socket = None /\ barred = FALSE /\ record = None /\ lost = {}
  /\ said = [p \in Pid |-> "nothing"]

Go(p, from, to) == at[p] = from /\ at' = [at EXCEPT ![p] = to]

\* Whom the registry names: a dead program's entry is pruned by the update that
\* reads it.
Holder == IF record # None /\ at[record] # "dead" THEN record ELSE None

-----------------------------------------------------------------------------
Start(p) ==
  /\ Go(p, "off", "listen")
  /\ UNCHANGED <<ended, socket, barred, record, lost, bound, said, breaks>>

\* Mutant: the record is left for later.
ListenBound(p) ==
  /\ socket = None /\ ~barred
  /\ socket' = p /\ Go(p, "listen", "bound")
  /\ UNCHANGED <<ended, barred, record, lost, bound, said, breaks>>

\* The port is free.
Listen(p) ==
  /\ socket = None /\ ~barred
  /\ socket' = p /\ Go(p, "listen", "claim")
  /\ UNCHANGED <<ended, barred, record, lost, bound, said, breaks>>

\* claimResolver, claimPort, if there is a registry.
Record(p) ==
  /\ Go(p, "claim", "bound")
  /\ record' = IF p \in NoRegistry THEN record ELSE p
  /\ lost' = lost \ {p}
  /\ UNCHANGED <<ended, socket, barred, bound, said, breaks>>

\* The update fails: the program serves without a record.
RecordFails(p) ==
  /\ p \notin NoRegistry /\ Go(p, "claim", "bound")
  /\ lost' = lost \cup {p}
  /\ UNCHANGED <<ended, socket, barred, record, bound, said, breaks>>

\* Mutant: the select on the channel has no default.
ReleaseBoundBlocks(p) ==
  /\ p \in bound
  /\ Go(p, "bound", "serve")
  /\ bound' = bound \cup {p} /\ said' = [said EXCEPT ![p] = "nothing"]
  /\ UNCHANGED <<ended, socket, barred, record, lost, breaks>>

\* Whoever waits in Bound goes on; the next time the port is taken is announced.
ReleaseBound(p) ==
  /\ Go(p, "bound", "serve")
  /\ bound' = bound \cup {p} /\ said' = [said EXCEPT ![p] = "nothing"]
  /\ UNCHANGED <<ended, socket, barred, record, lost, breaks>>

\* The port is in use: who has it is announced once.
InUse(p) ==
  /\ socket # None /\ ~barred
  /\ Go(p, "listen", IF said[p] = "nothing" THEN "ask" ELSE "wait")
  /\ UNCHANGED <<ended, socket, barred, record, lost, bound, said, breaks>>

\* The bind fails for another reason, a port that needs a privilege, say.
BindFails(p) ==
  /\ barred /\ Go(p, "listen", "wait")
  /\ said' = [said EXCEPT ![p] = IF @ = "nothing" THEN "failed" ELSE @]
  /\ UNCHANGED <<ended, socket, barred, record, lost, bound, breaks>>

\* The registry is asked a moment after the bind failed; if there is none, or the
\* update that reads it fails, nobody is found.
Ask(p) ==
  /\ Go(p, "ask", "wait")
  /\ \E who \in {"stranger"} \cup (IF Holder # None /\ p \notin NoRegistry
                                    THEN {"peer"} ELSE {}) :
       said' = [said EXCEPT ![p] = who]
  /\ UNCHANGED <<ended, socket, barred, record, lost, bound, breaks>>

\* The context has ended: the socket is closed under the loop, which stops serving.
Stop(p) ==
  /\ p \in ended /\ Go(p, "serve", "release")
  /\ socket' = None
  /\ UNCHANGED <<ended, barred, record, lost, bound, said, breaks>>

\* Serving ends by an error: the socket was closed, or, in serveConn, is not.
Break(p) ==
  /\ breaks < MaxBreaks /\ breaks' = breaks + 1
  /\ Go(p, "serve", "release")
  /\ \/ socket' = None
     \/ LeavesSocket /\ UNCHANGED socket
  /\ UNCHANGED <<ended, barred, record, lost, bound, said>>

\* Mutant: the goroutine ends with the loop.
CloseLeftByLoop(p) ==
  /\ p \in ended /\ socket = p /\ at[p] \in {"release", "wait"}
  /\ socket' = None
  /\ UNCHANGED <<at, ended, barred, record, lost, bound, said, breaks>>

\* serveConn's goroutine, once the context has ended: the socket an error left.
CloseLeft(p) ==
  /\ p \in ended /\ socket = p /\ at[p] \notin {"claim", "bound", "serve"}
  /\ socket' = None
  /\ UNCHANGED <<at, ended, barred, record, lost, bound, said, breaks>>

\* Mutants: the record is dropped whoever's it is; it is dropped only on the way
\* to another try; the loop ends with the first end of serving.
UnrecordAny(p) ==
  /\ Go(p, "release", IF p \in ended THEN "done" ELSE "wait")
  /\ record' = None
  /\ lost' = lost \ {p}
  /\ UNCHANGED <<ended, socket, barred, bound, said, breaks>>

UnrecordToRetry(p) ==
  /\ Go(p, "release", IF p \in ended THEN "done" ELSE "wait")
  /\ record' = IF record = p /\ p \notin ended THEN None ELSE record
  /\ lost' = lost \ {p}
  /\ UNCHANGED <<ended, socket, barred, bound, said, breaks>>

UnrecordAndReturn(p) ==
  /\ Go(p, "release", "done")
  /\ record' = IF record = p THEN None ELSE record
  /\ lost' = lost \ {p}
  /\ UNCHANGED <<ended, socket, barred, bound, said, breaks>>

\* releaseResolver, releasePort: a peer's record stays.
Unrecord(p) ==
  /\ Go(p, "release", IF p \in ended THEN "done" ELSE "wait")
  /\ record' = IF record = p THEN None ELSE record
  /\ lost' = lost \ {p}
  /\ UNCHANGED <<ended, socket, barred, bound, said, breaks>>

\* The update fails: what the record says stays.
UnrecordFails(p) ==
  /\ p \notin NoRegistry /\ Go(p, "release", IF p \in ended THEN "done" ELSE "wait")
  /\ lost' = lost \cup {p}
  /\ UNCHANGED <<ended, socket, barred, record, bound, said, breaks>>

\* Mutant: a program that has announced a peer does not try again.
RetryUnlessPeer(p) ==
  /\ said[p] # "peer" \/ p \in ended
  /\ Go(p, "wait", IF p \in ended THEN "done" ELSE "listen")
  /\ UNCHANGED <<ended, socket, barred, record, lost, bound, said, breaks>>

\* The retry timer, or the end of the context.
Retry(p) ==
  /\ Go(p, "wait", IF p \in ended THEN "done" ELSE "listen")
  /\ UNCHANGED <<ended, socket, barred, record, lost, bound, said, breaks>>

-----------------------------------------------------------------------------
\* Close, until the loop is done; or the caller's context ends.
Close(p) ==
  /\ at[p] \notin {"off", "done", "dead"} /\ p \notin ended
  /\ ended' = ended \cup {p}
  /\ UNCHANGED <<at, socket, barred, record, lost, bound, said, breaks>>

\* The program dies: the system closes its socket, the record stays.
Exit(p) ==
  /\ at[p] # "dead" /\ at' = [at EXCEPT ![p] = "dead"]
  /\ socket' = IF socket = p THEN None ELSE socket
  /\ UNCHANGED <<ended, barred, record, lost, bound, said, breaks>>

StrangerBinds ==
  /\ socket = None /\ socket' = Stranger
  /\ UNCHANGED <<at, ended, barred, record, lost, bound, said, breaks>>

StrangerLeaves ==
  /\ socket = Stranger /\ socket' = None
  /\ UNCHANGED <<at, ended, barred, record, lost, bound, said, breaks>>

\* What else binds need, a privilege or the address, goes away and comes back.
Bar ==
  /\ barred' = ~barred
  /\ UNCHANGED <<at, ended, socket, record, lost, bound, said, breaks>>

Loop(p) ==
  \/ Listen(p) \/ Record(p) \/ RecordFails(p) \/ ReleaseBound(p)
  \/ InUse(p) \/ BindFails(p) \/ Ask(p)
  \/ Stop(p) \/ Unrecord(p) \/ UnrecordFails(p) \/ Retry(p)

Next ==
  \/ \E p \in Pid : Loop(p) \/ Start(p) \/ Break(p) \/ CloseLeft(p) \/ Close(p) \/ Exit(p)
  \/ StrangerBinds \/ StrangerLeaves \/ Bar

\* A loop goes on, and the goroutine that closes a socket runs.  Nobody has to
\* close anything, and a stranger may stay.
Spec ==
  /\ Init /\ [][Next]_vars
  /\ \A p \in Pid : WF_vars(Loop(p)) /\ WF_vars(CloseLeft(p))

-----------------------------------------------------------------------------
\* The registry need not have anything of these.
Unrecorded == NoRegistry \cup lost

\* While a program serves, the registry names it, however its predecessor's
\* release, a crash and its own claim fell: peers ask who has the port, and the
\* front door's redirect whether a doze program has.
ServingIsRecorded == \A p \in Pid \ Unrecorded : at[p] = "serve" => Holder = p

\* Whoever waited for the socket may ask the registry who has it straight away.
RecordedBeforeBound ==
  [][\A p \in Pid : p \in bound' \ bound =>
       socket = p /\ (Holder = p \/ p \in Unrecorded)]_vars

\* When Close has returned nothing of the program is left in the registry, so no
\* peer stands by for it.
ClosedIsUnrecorded == \A p \in Pid \ lost : at[p] = "done" => Holder # p

\* A program that waits for the port does not wait for ever beside a free one that can
\* be bound: it or another takes it, with no peer's help and whatever became of the
\* holder.
Waits(p) == at[p] \in {"listen", "ask", "wait"} /\ p \notin ended

FreePortIsTaken ==
  \A p \in Pid :
    (Waits(p) /\ socket = None /\ ~barred) ~> (~Waits(p) \/ socket # None \/ barred)

\* And what takes the port gets to serve, and answers to its Close.
TakenIsServed ==
  \A p \in Pid :
    (at[p] \in {"claim", "bound"} \/ (at[p] = "serve" /\ p \in ended))
      ~> (at[p] \in {"done", "dead"} \/ (at[p] = "serve" /\ p \notin ended) \/ Waits(p))

\* A program that was closed lets go of the port for good, wherever its loop was, and
\* with it of a socket that an error had left behind.
ClosedLetsGo == \A p \in Pid : (p \in ended) ~> [](socket # p)

=============================================================================
