------------------------------ MODULE Authority ------------------------------
(***************************************************************************)
(* The machine's certificate authority (src/ca.go): two files, root.key    *)
(* and root.crt, that programs starting together make (LoadOrCreateCA),    *)
(* that a person replaces (RotateCA), and that the holder of the https     *)
(* port follows (CurrentCA) and mints certificates from (Leaf).  Creation  *)
(* is under a lock; reading and rotation are not, so each read and each    *)
(* rename is a step of its own.                                            *)
(*                                                                         *)
(* A root is a number, the same in its certificate and in its key; openCA  *)
(* does not compare the two.  One domain is served.  A program that calls  *)
(* LoadOrCreateCA and then holds the port is a loader and a door: what the *)
(* one has loaded the other reads again.                                   *)
(*                                                                         *)
(* Left out: files that do not parse, an authority about to expire, what   *)
(* the machine trusts (so trustedDozeRoots finds nothing, as on Linux),    *)
(* and the bundle.                                                         *)
(***************************************************************************)
EXTENDS Naturals, FiniteSets

CONSTANTS
  Loader,     \* programs that call LoadOrCreateCA
  Rotator,    \* where RotateCA is called
  Door,       \* holders of the https port
  MaxCalls,   \* bound: calls of LoadOrCreateCA and RotateCA
  MaxLeafs,   \* bound: certificates minted
  MaxFaults,  \* bound: programs that die and writes that fail
  None,       \* no file, nobody, nothing loaded
  Broken      \* what is loaded when there is an authority that cannot be used

Program == Loader \cup Rotator \cup Door
Root == 1 .. MaxCalls
Pair == 1 .. MaxLeafs

ASSUME AuthorityAssumption ==
  /\ MaxCalls \in Nat /\ MaxLeafs \in Nat /\ MaxFaults \in Nat
  /\ None \notin Root \cup Pair \cup Program /\ Broken # None
  /\ Loader \cap Rotator = {} /\ Door \cap (Loader \cup Rotator) = {}

VARIABLES
  cert,       \* root.crt
  key,        \* root.key
  prev,       \* previous.json: the roots rotated out
  leaf,       \* the domain's certificate and key under certs/
  lock,       \* who has ca/.lock
  at,         \* where each program is
  hand,       \* what each program has read or made on the way
  ca,         \* the authority each door has loaded
  id,         \* caCache.id of each door: the root.crt it last saw
  made,       \* roots made so far
  minted,     \* leaf certificates minted so far
  starts,     \* calls of LoadOrCreateCA so far
  rotations,  \* calls of RotateCA so far
  rotated,    \* the roots that finished rotations replaced
  faults      \* deaths and failed writes so far

files == <<cert, key, prev, leaf, lock>>
counts == <<made, minted, starts, rotations, rotated, faults>>
vars == <<files, at, hand, ca, id, counts>>

Crt == [by : Root, pair : Pair]
CA == [cert : Root, key : Root, leaf : Crt \cup {None}]
Hand == [cert : Root \cup {None}, old : Root \cup {None}, prev : SUBSET Root,
         crt : Crt \cup {None}]
Empty == [cert |-> None, old |-> None, prev |-> {}, crt |-> None]

Where == {"off", "cert", "key", "lock", "key again", "old", "write key",
          "write cert", "clean", "remember", "done", "failed",
          "leaf key", "mint", "write crt"}

TypeOK ==
  /\ cert \in Root \cup {None} /\ key \in Root \cup {None} /\ prev \subseteq Root
  /\ leaf \in [crt : Crt \cup {None}, key : Pair \cup {None}]
  /\ lock \in Loader \cup {None}
  /\ at \in [Program -> Where] /\ hand \in [Program -> Hand]
  /\ ca \in [Door -> CA \cup {None, Broken}] /\ id \in [Door -> Root \cup {None}]
  /\ made \in 0 .. MaxCalls /\ minted \in 0 .. MaxLeafs
  /\ starts \in Nat /\ rotations \in Nat /\ starts + rotations <= MaxCalls
  /\ rotated \subseteq Root
  /\ faults \in 0 .. MaxFaults

Init ==
  /\ cert = None /\ key = None /\ prev = {} /\ lock = None
  /\ leaf = [crt |-> None, key |-> None]
  /\ at = [p \in Program |-> "off"] /\ hand = [p \in Program |-> Empty]
  /\ ca = [d \in Door |-> None] /\ id = [d \in Door |-> None]
  /\ made = 0 /\ minted = 0 /\ starts = 0 /\ rotations = 0 /\ rotated = {} /\ faults = 0

Go(p, from, to) == at[p] = from /\ at' = [at EXCEPT ![p] = to]
Forget(p) == hand' = [hand EXCEPT ![p] = Empty]

-----------------------------------------------------------------------------
\* openCA reads root.crt, and then root.key.
ReadCert(p) == hand' = [hand EXCEPT ![p].cert = cert]

\* What it says once it has read root.key: there is no authority, or there is one,
\* or one file of the two is not there.
Absent(p) == hand[p].cert = None /\ key = None

\* Mutant: a file that is not there is no error.
UsableHalf(p) == hand[p].cert # None \/ key # None

Usable(p) == hand[p].cert # None /\ key # None

Opened(p) ==
  IF Usable(p) THEN [cert |-> hand[p].cert, key |-> key, leaf |-> None]
  ELSE IF Absent(p) THEN None ELSE Broken

\* LoadOrCreateCA's first look, without the lock.
Start(p) ==
  /\ p \in Loader /\ Go(p, "off", "key") /\ ReadCert(p)
  /\ starts + rotations < MaxCalls /\ starts' = starts + 1
  /\ UNCHANGED <<files, ca, id, made, minted, rotations, rotated, faults>>

Load(p) ==
  /\ p \in Loader
  /\ Go(p, "key", IF Usable(p) THEN "done" ELSE IF Absent(p) THEN "lock" ELSE "failed")
  /\ Forget(p)
  /\ UNCHANGED <<files, ca, id, counts>>

\* Mutant: what another program wrote before the lock was free is not looked at.
LockToCreate(p) ==
  /\ lock = None /\ lock' = p
  /\ Go(p, "lock", "write key")
  /\ UNCHANGED <<cert, key, prev, leaf, hand, ca, id, counts>>

\* Its second look, under the lock.
Lock(p) ==
  /\ lock = None /\ lock' = p
  /\ Go(p, "lock", "key again") /\ ReadCert(p)
  /\ UNCHANGED <<cert, key, prev, leaf, ca, id, counts>>

LoadLocked(p) ==
  /\ Go(p, "key again", IF Usable(p) THEN "done" ELSE IF Absent(p) THEN "write key" ELSE "failed")
  /\ Forget(p)
  /\ lock' = IF Absent(p) THEN p ELSE None
  /\ UNCHANGED <<cert, key, prev, leaf, ca, id, counts>>

-----------------------------------------------------------------------------
\* RotateCA opens the authority too, whatever it is.
Rotate(p) ==
  /\ p \in Rotator /\ Go(p, "off", "key") /\ ReadCert(p)
  /\ starts + rotations < MaxCalls /\ rotations' = rotations + 1
  /\ UNCHANGED <<files, ca, id, made, minted, starts, rotated, faults>>

\* What is to be remembered: of an authority that opens, the root read; of one
\* that does not, what root.crt is read to be afterwards.
OpenToRotate(p) ==
  /\ p \in Rotator
  /\ Go(p, "key", IF Usable(p) THEN "write key" ELSE "old")
  /\ hand' = [hand EXCEPT ![p] = [@ EXCEPT !.cert = None, !.old = hand[p].cert, !.prev = prev]]
  /\ UNCHANGED <<files, ca, id, counts>>

ReadOld(p) ==
  /\ Go(p, "old", "write key")
  /\ hand' = [hand EXCEPT ![p].old = cert]
  /\ UNCHANGED <<files, ca, id, counts>>

\* create: a new root, its key file and then its certificate, each renamed into
\* place; then the leafs kept by older roots are removed, the two files at once: one
\* alone is as good as none, and a mint beside it leaves one alone as well.
WriteKey(p) ==
  /\ Go(p, "write key", "write cert")
  /\ made' = made + 1 /\ key' = made' /\ hand' = [hand EXCEPT ![p].cert = made']
  /\ UNCHANGED <<cert, prev, leaf, lock, ca, id, minted, starts, rotations, rotated, faults>>

WriteCert(p) ==
  /\ Go(p, "write cert", "clean")
  /\ cert' = hand[p].cert
  /\ UNCHANGED <<key, prev, leaf, lock, hand, ca, id, counts>>

Clean(p) ==
  /\ Go(p, "clean", IF p \in Loader THEN "done" ELSE "remember")
  /\ leaf' = [crt |-> None, key |-> None]
  /\ hand' = [hand EXCEPT ![p].cert = None]
  /\ lock' = IF lock = p THEN None ELSE lock
  /\ UNCHANGED <<cert, key, prev, ca, id, counts>>

\* Mutant: only the last root is remembered.
RememberLast(p) ==
  /\ Go(p, "remember", "off")
  /\ prev' = {hand[p].old} \ {None}
  /\ rotated' = (rotated \cup {hand[p].old}) \ {None}
  /\ Forget(p)
  /\ UNCHANGED <<cert, key, leaf, lock, ca, id, made, minted, starts, rotations, faults>>

\* writePrevious, and the program that called RotateCA ends.
Remember(p) ==
  /\ Go(p, "remember", "off")
  /\ prev' = (hand[p].prev \cup {hand[p].old}) \ {None}
  /\ rotated' = (rotated \cup {hand[p].old}) \ {None}
  /\ Forget(p)
  /\ UNCHANGED <<cert, key, leaf, lock, ca, id, made, minted, starts, rotations, faults>>

-----------------------------------------------------------------------------
\* CurrentCA, when the last look is some time ago: root.crt has changed.
See(d) ==
  /\ d \in Door /\ Go(d, "off", "cert")
  /\ ca[d] = None \/ id[d] # cert
  /\ id' = [id EXCEPT ![d] = cert]
  /\ UNCHANGED <<files, hand, ca, counts>>

\* Mutant: the root is taken for seen once it has been loaded.
LoadAfter(d) ==
  /\ d \in Door /\ Go(d, "key", "off")
  /\ ca' = [ca EXCEPT ![d] = Opened(d)] /\ Forget(d)
  /\ id' = [id EXCEPT ![d] = cert]
  /\ UNCHANGED <<files, counts>>

LookAgain(d) ==
  /\ d \in Door /\ Go(d, "cert", "key") /\ ReadCert(d)
  /\ UNCHANGED <<files, ca, id, counts>>

\* The authority is loaded anew, with no leaf in memory; or there is none.
Reload(d) ==
  /\ d \in Door /\ Go(d, "key", "off")
  /\ ca' = [ca EXCEPT ![d] = Opened(d)] /\ Forget(d)
  /\ UNCHANGED <<files, id, counts>>

\* Leaf, when there is none in memory or it is near its end: the two files.
ReadCrt(d) ==
  /\ d \in Door /\ ca[d] \notin {None, Broken} /\ Go(d, "off", "leaf key")
  /\ hand' = [hand EXCEPT ![d].crt = leaf.crt]
  /\ UNCHANGED <<files, ca, id, counts>>

\* Mutant: any leaf in the folder will do.
GoodAny(d) == hand[d].crt # None /\ hand[d].crt.pair = leaf.key

\* It is taken if the key is the certificate's, and the root's key signed it.
Good(d) == hand[d].crt # None /\ hand[d].crt.pair = leaf.key /\ hand[d].crt.by = ca[d].cert

Take(d) ==
  /\ Go(d, "leaf key", "off") /\ Good(d)
  /\ ca' = [ca EXCEPT ![d].leaf = hand[d].crt]
  /\ Forget(d)
  /\ UNCHANGED <<files, id, counts>>

\* Near its end, or no good.
Refuse(d) ==
  /\ Go(d, "leaf key", "mint")
  /\ UNCHANGED <<files, hand, ca, id, counts>>

\* mint: a key that is not the root's signs nothing, and the handshake fails (so
\* does one beyond the bound).
MintNothing(d) ==
  /\ Go(d, "mint", "off") /\ (ca[d].cert # ca[d].key \/ minted = MaxLeafs)
  /\ Forget(d)
  /\ UNCHANGED <<files, ca, id, counts>>

\* Otherwise there is a certificate; that a file cannot be written is no error.
Fails == IF faults < MaxFaults THEN BOOLEAN ELSE {FALSE}

Mint(d) ==
  /\ Go(d, "mint", "write crt") /\ ca[d].cert = ca[d].key /\ minted < MaxLeafs
  /\ minted' = minted + 1
  /\ hand' = [hand EXCEPT ![d].crt = [by |-> ca[d].key, pair |-> minted']]
  /\ \E fails \in Fails :
       /\ leaf' = [leaf EXCEPT !.key = IF fails THEN @ ELSE minted']
       /\ faults' = IF fails THEN faults + 1 ELSE faults
  /\ UNCHANGED <<cert, key, prev, lock, ca, id, made, starts, rotations, rotated>>

WriteCrt(d) ==
  /\ Go(d, "write crt", "off")
  /\ \E fails \in Fails :
       /\ leaf' = [leaf EXCEPT !.crt = IF fails THEN @ ELSE hand[d].crt]
       /\ faults' = IF fails THEN faults + 1 ELSE faults
  /\ ca' = [ca EXCEPT ![d].leaf = hand[d].crt]
  /\ Forget(d)
  /\ UNCHANGED <<cert, key, prev, lock, id, made, minted, starts, rotations, rotated>>

-----------------------------------------------------------------------------
\* A write fails and the call returns an error, or the program dies: its lock is
\* free, what it wrote stays.  (The end of a daemon that has made its call, or of a
\* door that has loaded nothing, is no different from its not being there.)
Fault(p) ==
  /\ faults < MaxFaults /\ faults' = faults + 1 /\ at[p] \notin {"done", "failed"}
  /\ at[p] = "off" => p \in Door /\ ca[p] # None
  /\ \/ at[p] \in {"write key", "write cert"} /\ p \in Loader
        /\ at' = [at EXCEPT ![p] = "failed"]
     \/ at' = [at EXCEPT ![p] = "off"]
  /\ Forget(p)
  /\ ca' = [d \in Door |-> IF d = p THEN None ELSE ca[d]]
  /\ id' = [d \in Door |-> IF d = p THEN None ELSE id[d]]
  /\ lock' = IF lock = p THEN None ELSE lock
  /\ UNCHANGED <<cert, key, prev, leaf, made, minted, starts, rotations, rotated>>

Creates(p) ==
  \/ Start(p) \/ Load(p) \/ Lock(p) \/ LoadLocked(p)
  \/ Rotate(p) \/ OpenToRotate(p) \/ ReadOld(p) \/ Remember(p)
  \/ WriteKey(p) \/ WriteCert(p) \/ Clean(p)

Serves(d) ==
  LookAgain(d) \/ Reload(d) \/ Take(d) \/ Refuse(d) \/ MintNothing(d) \/ Mint(d) \/ WriteCrt(d)

Next ==
  \E p \in Program :
    \/ Creates(p) \/ See(p) \/ ReadCrt(p) \/ Serves(p) \/ Fault(p)

\* Handshakes keep coming, so a look at root.crt comes due again and again among
\* them, and a handshake that has begun ends.
Spec ==
  /\ Init /\ [][Next]_vars
  /\ \A d \in Door : SF_vars(See(d)) /\ WF_vars(Serves(d))

-----------------------------------------------------------------------------
\* As long as nobody has begun to rotate, programs that start together, and restart,
\* never replace a root that is there, nor its key: the person may trust it.  A key with
\* no certificate is made again; a start beside a rotation may replace what it finds.
NeverReplaced ==
  [][rotations = 0 /\ cert # None => cert' = cert /\ key' = key]_vars

\* A root whose rotation has returned stays remembered, so that the next prompt
\* can stop trusting it, whatever failed or died in later rotations.
RotatedRemembered == rotated \subseteq prev

\* What a door serves verifies under the root it has loaded, whatever older
\* roots' certificates are left or written late in the folder.
ServedVerifies ==
  \A d \in Door : ca[d] \notin {None, Broken} /\ ca[d].leaf # None
                    => ca[d].leaf.by = ca[d].cert

\* A door follows the root on disk, though it may read the files half rotated:
\* a whole authority that stays is at last the one it serves from.
FollowsRoot ==
  \A d \in Door, r \in Root :
    (cert = r /\ key = r)
      ~> (cert # r \/ key # r \/ (ca[d] \notin {None, Broken} /\ ca[d].cert = r /\ ca[d].key = r))

-----------------------------------------------------------------------------
(* What a comment says and the code does not always do: the run that checks  *)
(* it finds a counterexample (see README.md).                                *)

\* "Two daemons starting together on a fresh home make one authority between
\* them": no call of LoadOrCreateCA fails when no write does and nothing dies.
StartTogether == faults = 0 /\ rotations = 0 => \A p \in Loader : at[p] # "failed"

=============================================================================
