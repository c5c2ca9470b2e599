------------------------------- MODULE Lookup -------------------------------
(***************************************************************************)
(* Which registered name owns a host: in the zone the nearest registered   *)
(* ancestor (Registry.lookup, src/registry.go), outside it a declared      *)
(* domain or a wildcard over the host (lookupDomain, src/domains.go).  The *)
(* resolver and the front door both ask this.                              *)
(*                                                                         *)
(* A host is the sequence of its labels, in lower case and with no final   *)
(* dot; m is the registry: a function from hosts to entries with a tier.   *)
(***************************************************************************)
EXTENDS Naturals, Sequences

CONSTANTS
  Label,   \* the labels hosts are made of
  Suffix,  \* the zone's label
  Star,    \* the label of a wildcard
  NoHost   \* no name owns the host

InZone(host) == host # <<>> /\ host[Len(host)] = Suffix

\* What may be declared as a domain: two labels or more, outside the zone, a wildcard
\* over two or more.  That no label is localhost's or an address's is text.
ValidDomain(name) ==
  /\ Len(name) >= (IF name[1] = Star THEN 3 ELSE 2) /\ ~InZone(name)
  /\ \A i \in 2 .. Len(name) : name[i] # Star

IsDomain(m, name) == name \in DOMAIN m /\ m[name].tier = "domain"

Over(host) == <<Star>> \o host

-----------------------------------------------------------------------------
\* Registry.lookup: from the full name towards the zone, which nothing owns.
OwnerInZone(m, host) ==
  LET walk[n \in Nat] ==
        LET h == SubSeq(host, n, Len(host)) IN
        IF Len(h) <= 1 THEN NoHost ELSE IF h \in DOMAIN m THEN h ELSE walk[n + 1]
  IN walk[1]

\* Mutant: the wildcards are looked at before the name itself.
DomainOwnerWild(m, host) ==
  LET walk[n \in Nat] ==
        LET h == SubSeq(host, n, Len(host)) IN
        IF Len(h) < 2 THEN NoHost ELSE IF IsDomain(m, Over(h)) THEN Over(h) ELSE walk[n + 1]
  IN IF walk[1] # NoHost THEN walk[1] ELSE IF IsDomain(m, host) THEN host ELSE NoHost

\* lookupDomain: the name, a wildcard over it (which owns the name under it too), or
\* one over an ancestor of two labels or more.
DomainOwner(m, host) ==
  LET walk[n \in Nat] ==
        LET h == SubSeq(host, n, Len(host)) IN
        IF n > 1 /\ Len(h) < 2 THEN NoHost ELSE IF IsDomain(m, Over(h)) THEN Over(h) ELSE walk[n + 1]
  IN IF IsDomain(m, host) THEN host ELSE walk[1]

Owner(m, host) == IF InZone(host) THEN OwnerInZone(m, host) ELSE DomainOwner(m, host)

-----------------------------------------------------------------------------
(* What the two walks are for, said without a walk.                          *)

\* The hosts a registered name speaks for: a name in the zone for itself and its
\* subtree, a domain for itself, a wildcard for what it is over and all beneath.
Under(host, name) ==
  /\ Len(name) <= Len(host)
  /\ SubSeq(host, Len(host) - Len(name) + 1, Len(host)) = name

SpeaksFor(m, name, host) ==
  IF m[name].tier # "domain" THEN InZone(host) /\ Len(name) > 1 /\ Under(host, name)
  ELSE IF name[1] = Star THEN Under(host, Tail(name))
  ELSE host = name

\* The owner is the most specific name that speaks for the host: an exact domain
\* before a wildcard, a longer name before a shorter; with none there is no owner, so
\* a typo is a name that does not exist.
MostSpecific(m, host) ==
  LET own == Owner(m, host)
      able == {name \in DOMAIN m : SpeaksFor(m, name, host)}
  IN IF able = {} THEN own = NoHost
     ELSE /\ own \in able
          /\ \A name \in able \ {own} : own = host \/ Len(own) > Len(name)

=============================================================================
