------------------------------ MODULE Translate ------------------------------
(***************************************************************************)
(* What the network daemon of macOS does to a packet (src/nat.go): a       *)
(* client's packet to a name's address and public port is turned into one  *)
(* from that address to the private port, the service's answer is turned   *)
(* round to match, and nothing is remembered of either.                    *)
(*                                                                         *)
(* A packet has its addresses, its ports and its flags.  Left out:         *)
(* lengths, sequence numbers and checksums; a packet that is cut short, a  *)
(* fragment and any that is neither TCP nor an echo request are dropped.   *)
(***************************************************************************)
EXTENDS Naturals

CONSTANT Gateway  \* the interface's own address, from which all packets come

Packet(src, sport, dst, dport, flags) ==
  [proto |-> "tcp", src |-> src, sport |-> sport, dst |-> dst, dport |-> dport, flags |-> flags]

\* portTable: where an address's public port is listened on, and back.  A port that is
\* entered twice has the value of either entry: a Go map is read in no order.
PrivateOf(table, v, public) ==
  {m.private : m \in {k \in table : k.ip = v /\ k.public = public}}
PublicOf(table, v, private) ==
  {m.public : m \in {k \in table : k.ip = v /\ k.private = private}}

\* setAddrs: the packet goes back the way it came.
Turned(p) == [p EXCEPT !.src = p.dst, !.dst = p.src]

\* refuse: the reset a closed port would send; none for a reset.
Refuse(p) ==
  IF "RST" \in p.flags THEN {}
  ELSE {[Turned(p) EXCEPT !.sport = p.dport, !.dport = p.sport,
                          !.flags = IF "ACK" \in p.flags THEN {"RST"} ELSE {"RST", "ACK"}]}

\* Mutant: a registered public port is looked for before the service's answer.
TurnClientFirst(table, p) ==
  LET answer == PublicOf(table, p.dst, p.sport)
      client == PrivateOf(table, p.dst, p.dport)
  IN IF client # {} THEN {[Turned(p) EXCEPT !.dport = v] : v \in client}
     ELSE IF answer # {} THEN {[Turned(p) EXCEPT !.sport = u] : u \in answer}
     ELSE Refuse(p)

\* translate's TCP part: the service's answer is looked for first.
Turn(table, p) ==
  LET answer == PublicOf(table, p.dst, p.sport)
      client == PrivateOf(table, p.dst, p.dport)
  IN IF answer # {} THEN {[Turned(p) EXCEPT !.sport = u] : u \in answer}
     ELSE IF client # {} THEN {[Turned(p) EXCEPT !.dport = v] : v \in client}
     ELSE Refuse(p)

\* translate: the packets that may be written back for p, none when it is dropped.
Translate(table, p) ==
  IF p.src # Gateway \/ p.dst = Gateway THEN {}
  ELSE IF p.proto = "echo" THEN {[Turned(p) EXCEPT !.proto = "reply"]}
  ELSE IF p.proto = "tcp" THEN Turn(table, p) ELSE {}

\* What whoever gets p sends in reply.
Reply(p, flags) == Packet(p.dst, p.dport, p.src, p.sport, flags)

=============================================================================
