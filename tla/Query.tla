-------------------------------- MODULE Query --------------------------------
(***************************************************************************)
(* What a client meets: it asks the resolver for a host (serveConn and     *)
(* answer, src/resolver.go), is answered from the registry or by the       *)
(* machine's own upstreams (find and forward, src/upstream.go), keeps the  *)
(* answer for its time to live, and goes to the front door of the address  *)
(* (proxy and routeFor, src/ingress.go), while names come and go.          *)
(*                                                                         *)
(* The loop of serveConn takes one query after another; a question for     *)
(* upstream is a goroutine of its own.  A read of the registry is one step *)
(* (module Registry), as is what programs write to it here.  A client      *)
(* whose query died with the program that had the socket sends it again.   *)
(*                                                                         *)
(* Left out: queries that cannot be parsed, which get no answer, and https *)
(* (module Authority; the redirect to it).                                 *)
(***************************************************************************)
EXTENDS Lookup, Message, FiniteSets

CONSTANTS
  Client, Here,   \* who asks; those on this machine
  Host, Want,     \* what they ask for; who may ask for what
  Name, Tier,     \* the names programs may register, and each one's tier
  Server, Stub,   \* resolvers of the machine, and those that ask this one (own)
  Config,         \* the lists of resolvers the machine may be configured with
  Says,           \* what each server answers: [records, cut]
  RelayTTL,       \* relayTTL
  MaxSwitch,      \* bound: how often the socket goes to another program
  None

ASSUME QueryAssumption ==
  /\ Here \subseteq Client /\ Want \subseteq [Client -> Host]
  /\ Stub \subseteq Server /\ Config \subseteq Seq(Server)
  /\ RelayTTL \in Nat /\ MaxSwitch \in Nat /\ None \notin Name
  /\ Host \cup Name \subseteq Seq(Label) /\ Star \in Label
  /\ \A n \in Name : Tier[n] = "domain" => ValidDomain(n)
  /\ \A s \in Server : \A says \in Says[s] :
       says.records \in Seq(Record) /\ says.cut \in 0 .. Len(Whole(says.records))

VARIABLES
  m,         \* the registry: live names, with their tier and whether they have a route
  sys,       \* the machine's resolvers
  cache,     \* upstreams.addrs, nil as <<>>
  fresh,     \* upstreams.at is recent
  wish,      \* the host each client wants
  query,     \* each client's query or request
  told,      \* what each client has been told and still keeps
  switches

vars == <<m, sys, cache, fresh, wish, query, told, switches>>

Idle == [at |-> "idle", a |-> TRUE, list |-> <<>>]

\* by is the name whose service answered; long says it is kept beyond RelayTTL.
Nothing == [is |-> "nothing", by |-> None, long |-> FALSE]

Init ==
  /\ m = <<>>
  /\ sys \in Config /\ cache = <<>> /\ fresh = FALSE
  /\ wish \in Want
  /\ query = [c \in Client |-> Idle] /\ told = [c \in Client |-> Nothing]
  /\ switches = 0

-----------------------------------------------------------------------------
\* Programs claim and release names, and publish where their traffic goes.
Claim(n) ==
  /\ n \notin DOMAIN m
  /\ \E routed \in BOOLEAN :
       m' = [k \in DOMAIN m \cup {n} |-> IF k = n THEN [tier |-> Tier[n], routed |-> routed] ELSE m[k]]
  /\ UNCHANGED <<sys, cache, fresh, wish, query, told, switches>>

Release(n) ==
  /\ n \in DOMAIN m
  /\ m' = [k \in DOMAIN m \ {n} |-> m[k]]
  /\ UNCHANGED <<sys, cache, fresh, wish, query, told, switches>>

-----------------------------------------------------------------------------
\* A client asks when it has no answer, or none any more: for an address of the type
\* doze has (a) or of another.
Ask(c, a) ==
  /\ query[c].at = "idle" /\ told[c] = Nothing
  /\ query' = [query EXCEPT ![c] = [Idle EXCEPT !.at = "sent", !.a = a]]
  /\ UNCHANGED <<m, sys, cache, fresh, wish, told, switches>>

Tell(c, is, by, long) ==
  /\ told' = [told EXCEPT ![c] = [is |-> is, by |-> by, long |-> long]]
  /\ query' = [query EXCEPT ![c] = Idle]

\* answer's verdict, and askedFromHere.
Forwards(c, own) == own = NoHost /\ ~InZone(wish[c]) /\ c \in Here

\* One turn of serveConn: an address, no address of that type, or no such name.
Answer(c) ==
  LET own == Owner(m, wish[c]) IN
  /\ query[c].at = "sent"
  /\ IF Forwards(c, own)
     THEN query' = [query EXCEPT ![c] = [Idle EXCEPT !.at = "find"]] /\ UNCHANGED told
     ELSE Tell(c, IF own # NoHost /\ query[c].a THEN "address" ELSE "none", None, FALSE)
  /\ UNCHANGED <<m, sys, cache, fresh, wish, switches>>

-----------------------------------------------------------------------------
\* Mutant: a stub that sends the query back here is asked like any other.
UsableAll(list) == list

\* own: left out of what the system names, one line of it after the other.
Usable(list) ==
  LET servers[i \in 0 .. Len(list)] ==
        IF i = 0 THEN <<>>
        ELSE IF list[i] \in Stub THEN servers[i - 1] ELSE Append(servers[i - 1], list[i])
  IN servers[Len(list)]

\* find, under its lock: what was read a while ago, or nothing, is read again.
Find(c) ==
  /\ query[c].at = "find"
  /\ cache' = IF fresh /\ cache # <<>> THEN cache ELSE Usable(sys)
  /\ fresh' = TRUE
  /\ query' = [query EXCEPT ![c].at = "forward", ![c].list = cache']
  /\ UNCHANGED <<m, sys, wish, told, switches>>

Relayed(says) == CapTTL(Packed(says.records, says.cut), RelayTTL)

\* Which of a server's answers a client would keep for longer than RelayTTL.
Long == [s \in Server |-> [says \in Says[s] |->
  says.cut = 0 /\ Relayed(says) # Packed(Capped(says.records, RelayTTL), 0)]]

\* What the client makes of a message that is passed on to it: the real address, if
\* the message is whole, for as long as its records say.
Relay(c, s, says) == Tell(c, IF says.cut > 0 THEN "none" ELSE "real", None, Long[s][says])

\* forward: the first upstream that answers in time.
Upstream(c) ==
  /\ query[c].at = "forward" /\ query[c].list # <<>>
  /\ \/ \E says \in Says[Head(query[c].list)] : Relay(c, Head(query[c].list), says)
     \/ query' = [query EXCEPT ![c].list = Tail(@)] /\ UNCHANGED told
  /\ UNCHANGED <<m, sys, cache, fresh, wish, switches>>

\* Mutant: nothing is said when no upstream answered.
GiveUpSilently(c) == UNCHANGED <<query, told>>

\* None of them: the answer that was ready all along.
GiveUp(c) == Tell(c, "none", None, FALSE)

NoUpstream(c) ==
  /\ query[c].at = "forward" /\ query[c].list = <<>>
  /\ GiveUp(c)
  /\ UNCHANGED <<m, sys, cache, fresh, wish, switches>>

-----------------------------------------------------------------------------
\* A client forgets what it was told when its time is up.
Expire(c) ==
  /\ query[c].at = "idle" /\ told[c] # Nothing /\ ~told[c].long
  /\ told' = [told EXCEPT ![c] = Nothing]
  /\ UNCHANGED <<m, sys, cache, fresh, wish, query, switches>>

\* upstreamRefresh has passed; the machine is on another network.
Age ==
  /\ fresh /\ fresh' = FALSE
  /\ UNCHANGED <<m, sys, cache, wish, query, told, switches>>

Reconfigure ==
  /\ sys' \in Config \ {sys}
  /\ UNCHANGED <<m, cache, fresh, wish, query, told, switches>>

\* The program with the socket closes or dies, and a peer answers from then on.
Switch ==
  /\ switches < MaxSwitch /\ switches' = switches + 1
  /\ cache' = <<>> /\ fresh' = FALSE
  /\ query' = [c \in Client |->
       IF query[c].at \in {"find", "forward"} THEN [Idle EXCEPT !.at = "sent"] ELSE query[c]]
  /\ UNCHANGED <<m, sys, wish, told>>

-----------------------------------------------------------------------------
\* Mutant: the front door knows registered names only.
RouteForExact(host) == IF host \in DOMAIN m /\ m[host].routed THEN host ELSE None

\* routeFor: the owner's target, by the walk the resolver uses.
RouteFor(host) ==
  LET own == Owner(m, host) IN IF own # NoHost /\ m[own].routed THEN own ELSE None

\* The front door answers this machine only, and only for a name that has a route.
Visit(c) ==
  /\ query[c].at = "idle" /\ told[c].is = "address" /\ c \in Here
  /\ RouteFor(wish[c]) # None
  /\ query' = [query EXCEPT ![c] = [Idle EXCEPT !.at = "proxy"]]
  /\ UNCHANGED <<m, sys, cache, fresh, wish, told, switches>>

\* The proxy looks the route up once more; it may be gone.
Proxy(c) ==
  /\ query[c].at = "proxy"
  /\ query' = [query EXCEPT ![c] = Idle]
  /\ told' = [told EXCEPT ![c].by = RouteFor(wish[c])]
  /\ UNCHANGED <<m, sys, cache, fresh, wish, switches>>

Serves(c) == Answer(c) \/ Find(c) \/ Upstream(c) \/ NoUpstream(c) \/ Proxy(c)

Next ==
  \/ \E n \in Name : Claim(n) \/ Release(n)
  \/ \E c \in Client : \/ \E a \in BOOLEAN : Ask(c, a)
                       \/ Serves(c) \/ Expire(c) \/ Visit(c)
  \/ Age \/ Reconfigure \/ Switch

\* The resolver and the front door run; a client that wants a host goes on asking for
\* its address, asks again when its answer is old, and goes there.
Spec ==
  /\ Init /\ [][Next]_vars
  /\ \A c \in Client : WF_vars(Serves(c))
  /\ \A c \in Here : SF_vars(Ask(c, TRUE)) /\ WF_vars(Expire(c)) /\ SF_vars(Visit(c))

-----------------------------------------------------------------------------
\* Every host has the owner that speaks for it most closely, in the zone and outside,
\* whatever other names come and go.
OwnsMostSpecific == \A h \in Host : MostSpecific(m, h)

\* A query leaves the machine only for a host outside the zone that a program of this
\* machine asked for, and never to a stub that would send it back here.
OnlyOthersLeave ==
  \A c \in Client : query[c].at = "forward" =>
    /\ ~InZone(wish[c]) /\ c \in Here
    /\ \A i \in 1 .. Len(query[c].list) : query[c].list[i] \notin Stub

Right == [s \in Server |-> \A says \in Says[s] : CapsRight(says.records, says.cut, RelayTTL)]

\* Whatever the upstream that is asked says is relayed with every time to live capped
\* and nothing else changed when it is whole, and as it came when it has lost its end.
RelayedCapped ==
  \A c \in Client : query[c].at = "forward" /\ query[c].list # <<>> => Right[Head(query[c].list)]

\* Every query is answered in the end, with the upstreams silent, the network changed
\* and the socket in other hands.
Answered == \A c \in Client : query[c].at = "sent" ~> query[c].at = "idle"

\* While a host has an owner with a route, whichever it is by then, a client gets to it
\* at last, whatever it was told before, from here or upstream, and whatever answer was
\* still on its way.
Reached ==
  \A c \in Here :
    LET own == Owner(m, wish[c])
        due == own # NoHost /\ m[own].routed
    IN due ~> (~due \/ told[c].by = own)

=============================================================================
