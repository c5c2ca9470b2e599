------------------------------- MODULE Message -------------------------------
(***************************************************************************)
(* What the resolver does to an upstream's answer before it passes it on:  *)
(* every record's time to live is capped (capTTL and skipName,             *)
(* src/upstream.go), so that a stub that caches the answer asks again soon *)
(* after a stack declares the domain.                                      *)
(*                                                                         *)
(* A message is the counts of its questions and records and a body of      *)
(* cells.  A cell of a name is a byte (a label's cell stands for one byte  *)
(* of it); a field of two or four bytes is one cell.  So a question ends   *)
(* in two cells (type, class) and a record in four (type, class, time to   *)
(* live, length of data) and its data.                                     *)
(***************************************************************************)
EXTENDS Naturals, Sequences

Pointer == 192  \* 0xC0: the first byte of a compressed name's end

\* skipName: the cell after the name at off, and 0 when the name runs out of the body.
SkipName(body, off) ==
  LET from[o \in Nat \ {0}] ==
        IF o > Len(body) THEN 0
        ELSE IF body[o] = 0 THEN o + 1
        ELSE IF body[o] >= Pointer THEN (IF o < Len(body) THEN o + 2 ELSE 0)
        ELSE from[o + 1 + body[o]]
  IN from[off]

\* The walk's state: where it is, and what it has written; off is 0 once it is lost.
Lost == [off |-> 0, out |-> <<>>]

SkipQuestion(body, st) ==
  LET n == IF st.off = 0 THEN 0 ELSE SkipName(body, st.off) IN
  IF n = 0 \/ n + 1 > Len(body) THEN Lost ELSE [st EXCEPT !.off = n + 2]

\* Mutant: a record that goes beyond the end is passed over.
CapRecordLoose(body, max, st) ==
  LET n == IF st.off = 0 THEN 0 ELSE SkipName(body, st.off) IN
  IF n = 0 \/ n + 3 > Len(body) THEN Lost
  ELSE [off |-> n + 4 + body[n + 3],
        out |-> [st.out EXCEPT ![n + 2] = IF @ > max THEN max ELSE @]]

CapRecord(body, max, st) ==
  LET n == IF st.off = 0 THEN 0 ELSE SkipName(body, st.off) IN
  IF n = 0 \/ n + 3 > Len(body) \/ n + 3 + body[n + 3] > Len(body) THEN Lost
  ELSE [off |-> n + 4 + body[n + 3],
        out |-> [st.out EXCEPT ![n + 2] = IF @ > max THEN max ELSE @]]

\* capTTL: a message that cannot be walked to its last record is passed on as it was.
CapTTL(msg, max) ==
  LET asked[i \in 0 .. msg.qd] ==
        IF i = 0 THEN [off |-> 1, out |-> msg.body] ELSE SkipQuestion(msg.body, asked[i - 1])
      walk[i \in 0 .. msg.rrs] ==
        IF i = 0 THEN asked[msg.qd] ELSE CapRecord(msg.body, max, walk[i - 1])
      end == walk[msg.rrs]
  IN IF end.off = 0 THEN msg ELSE [msg EXCEPT !.body = end.out]

-----------------------------------------------------------------------------
(* The same from the other end: a message as its client reads it.            *)

\* A name is labels, each behind its length, up to a zero or a pointer.
WholeName(name) ==
  \E n \in 1 .. Len(name) : \E at \in [1 .. n -> 1 .. Len(name)] :
    /\ at[1] = 1
    /\ \A i \in 1 .. n - 1 :
         name[at[i]] \in 1 .. Pointer - 1 /\ at[i + 1] = at[i] + 1 + name[at[i]]
    /\ \/ name[at[n]] = 0 /\ at[n] = Len(name)
       \/ name[at[n]] >= Pointer /\ at[n] = Len(name) - 1

Record == [name : {n \in Seq(Nat) : WholeName(n)}, type : Nat, ttl : Nat, data : Seq(Nat)]

\* A record is its name, type, time to live and data.
Cells(r) == r.name \o <<r.type, 1, r.ttl, Len(r.data)>> \o r.data

\* A question and these records.
Whole(records) ==
  LET upTo[i \in 0 .. Len(records)] ==
        IF i = 0 THEN <<1, 1, 0, 1, 1>> ELSE upTo[i - 1] \o Cells(records[i])
  IN upTo[Len(records)]

\* The message they make; cut is how many cells of the end were lost on the way.
Packed(records, cut) ==
  [qd |-> 1, rrs |-> Len(records),
   body |-> SubSeq(Whole(records), 1, Len(Whole(records)) - cut)]

Capped(records, max) ==
  [i \in 1 .. Len(records) |->
    [records[i] EXCEPT !.ttl = IF @ > max THEN max ELSE @]]

\* What is whole is packed again with its times capped, and nothing else about it
\* changes; what has lost its end is passed on cell for cell.
CapsRight(records, cut, max) ==
  CapTTL(Packed(records, cut), max) =
    IF cut = 0 THEN Packed(Capped(records, max), 0) ELSE Packed(records, cut)

=============================================================================
