--------------------------- MODULE TakeoverProofs ---------------------------
(***************************************************************************)
(* Theorems about module Takeover, for every number of programs, either of *)
(* the two loops and any number of errors.                                 *)
(***************************************************************************)
EXTENDS Takeover, TLAPS

\* From the bind on the port is the program's; from the claim until it stops serving
\* the record is, unless that update failed; the record names a program only while
\* that one has something left to unrecord, or is dead, or failed to.
Held ==
  \A p \in Pid :
    /\ at[p] \in {"claim", "bound", "serve"} => socket = p
    /\ at[p] \in {"bound", "serve"} /\ p \notin Unrecorded => record = p
    /\ record = p => at[p] \in {"bound", "serve", "release", "dead"} \/ p \in lost
    /\ record = p => p \notin NoRegistry

Inv == TypeOK /\ Held

LEMMA InitInv == Init => Inv
<1> SUFFICES ASSUME Init
             PROVE  Inv
  OBVIOUS
<1>1. TypeOK
  <2>1. /\ at \in [Pid -> Where] /\ said \in [Pid -> {"nothing", "peer", "stranger", "failed"}]
        /\ \A p \in Pid : at[p] = "off"
    BY DEF Init, Where
  <2>2. breaks \in 0 .. MaxBreaks
    BY TakeoverAssumption DEF Init
  <2>3. QED
    BY <2>1, <2>2 DEF Init, TypeOK
<1>2. Held
  BY TakeoverAssumption DEF Init, Held
<1>3. QED
  BY <1>1, <1>2 DEF Inv

-----------------------------------------------------------------------------
LEMMA LoopTypeOK ==
  ASSUME TypeOK, NEW p \in Pid, Loop(p)
  PROVE  TypeOK'
<1>1. CASE Listen(p)
  BY <1>1 DEF TypeOK, Where, Go, Listen
<1>2. CASE Record(p)
  BY <1>2 DEF TypeOK, Where, Go, Record
<1>3. CASE RecordFails(p)
  BY <1>3 DEF TypeOK, Where, Go, RecordFails
<1>4. CASE ReleaseBound(p)
  BY <1>4 DEF TypeOK, Where, Go, ReleaseBound
<1>5. CASE InUse(p)
  BY <1>5 DEF TypeOK, Where, Go, InUse
<1>6. CASE BindFails(p)
  BY <1>6 DEF TypeOK, Where, Go, BindFails
<1>7. CASE Ask(p)
  BY <1>7 DEF TypeOK, Where, Go, Ask
<1>8. CASE Stop(p)
  BY <1>8 DEF TypeOK, Where, Go, Stop
<1>9. CASE Unrecord(p)
  BY <1>9 DEF TypeOK, Where, Go, Unrecord
<1>10. CASE UnrecordFails(p)
  BY <1>10 DEF TypeOK, Where, Go, UnrecordFails
<1>11. CASE Retry(p)
  BY <1>11 DEF TypeOK, Where, Go, Retry
<1>12. QED
  BY <1>1, <1>2, <1>3, <1>4, <1>5, <1>6, <1>7, <1>8, <1>9, <1>10, <1>11 DEF Loop

LEMMA LoopHeld ==
  ASSUME Inv, NEW p \in Pid, Loop(p)
  PROVE  Held'
<1> USE TakeoverAssumption DEF Inv, TypeOK, Held, Unrecorded, Go
<1>1. CASE Listen(p)
  BY <1>1 DEF Listen
<1>2. CASE Record(p)
  BY <1>2 DEF Record
<1>3. CASE RecordFails(p)
  BY <1>3 DEF RecordFails
<1>4. CASE ReleaseBound(p)
  BY <1>4 DEF ReleaseBound
<1>5. CASE InUse(p)
  BY <1>5 DEF InUse
<1>6. CASE BindFails(p)
  BY <1>6 DEF BindFails
<1>7. CASE Ask(p)
  BY <1>7 DEF Ask
<1>8. CASE Stop(p)
  BY <1>8 DEF Stop
<1>9. CASE Unrecord(p)
  BY <1>9 DEF Unrecord
<1>10. CASE UnrecordFails(p)
  BY <1>10 DEF UnrecordFails
<1>11. CASE Retry(p)
  BY <1>11 DEF Retry
<1>12. QED
  BY <1>1, <1>2, <1>3, <1>4, <1>5, <1>6, <1>7, <1>8, <1>9, <1>10, <1>11 DEF Loop

-----------------------------------------------------------------------------
LEMMA StepInv == Inv /\ [Next]_vars => Inv'
<1> SUFFICES ASSUME Inv, [Next]_vars
             PROVE  Inv'
  OBVIOUS
<1> USE TakeoverAssumption DEF Inv, TypeOK, Held, Unrecorded, Where, Go
<1>1. ASSUME NEW p \in Pid, Loop(p)
      PROVE  Inv'
  BY <1>1, LoopTypeOK, LoopHeld DEF Inv
<1>2. ASSUME NEW p \in Pid, Start(p)
      PROVE  Inv'
  BY <1>2 DEF Start
<1>3. ASSUME NEW p \in Pid, Break(p)
      PROVE  Inv'
  BY <1>3 DEF Break
<1>4. ASSUME NEW p \in Pid, CloseLeft(p)
      PROVE  Inv'
  BY <1>4 DEF CloseLeft
<1>5. ASSUME NEW p \in Pid, Close(p)
      PROVE  Inv'
  BY <1>5 DEF Close
<1>6. ASSUME NEW p \in Pid, Exit(p)
      PROVE  Inv'
  BY <1>6 DEF Exit
<1>7. CASE StrangerBinds
  BY <1>7 DEF StrangerBinds
<1>8. CASE StrangerLeaves
  BY <1>8 DEF StrangerLeaves
<1>9. CASE Bar
  BY <1>9 DEF Bar
<1>10. CASE UNCHANGED vars
  BY <1>10 DEF vars
<1>11. QED
  BY <1>1, <1>2, <1>3, <1>4, <1>5, <1>6, <1>7, <1>8, <1>9, <1>10 DEF Next

LEMMA SpecInv == Spec => []Inv
<1>1. QED
  BY InitInv, StepInv, PTL DEF Spec

-----------------------------------------------------------------------------
\* Every program is at a place of its loop, a loop is done (Close returns) only after
\* its context has ended, and the socket and the record name a program or nobody.
THEOREM TypeOKHolds == Spec => []TypeOK
<1>1. Inv => TypeOK
  BY DEF Inv
<1>2. QED
  BY <1>1, SpecInv, PTL

\* While a program that could write the registry serves the port (serveConn,
\* holdPort), the registry names it, whatever its predecessor's release did and
\* whoever died.
THEOREM ServingIsRecordedHolds == Spec => []ServingIsRecorded
<1>1. Inv => ServingIsRecorded
  BY TakeoverAssumption DEF Inv, TypeOK, Held, ServingIsRecorded, Unrecorded, Holder
<1>2. QED
  BY <1>1, SpecInv, PTL

\* When Close has returned, the registry does not name the program as the port's
\* holder, unless the program's last write of it failed.
THEOREM ClosedIsUnrecordedHolds == Spec => []ClosedIsUnrecorded
<1>1. Inv => ClosedIsUnrecorded
  BY TakeoverAssumption DEF Inv, TypeOK, Held, ClosedIsUnrecorded, Holder
<1>2. QED
  BY <1>1, SpecInv, PTL

\* Bound is released only by the program that has the port and that the registry
\* names, if it could be written.
THEOREM RecordedBeforeBoundHolds == Spec => RecordedBeforeBound
<1>1. Inv /\ [Next]_vars =>
        [\A p \in Pid : p \in bound' \ bound =>
           socket = p /\ (Holder = p \/ p \in Unrecorded)]_vars
  <2>1. SUFFICES ASSUME Inv, Next, NEW p \in Pid, p \in bound' \ bound
                 PROVE  socket = p /\ (Holder = p \/ p \in Unrecorded)
    OBVIOUS
  <2>2. ReleaseBound(p)
    <3>1. PICK q \in Pid : ReleaseBound(q)
      BY <2>1 DEF Next, Loop, Listen, Record, RecordFails, InUse, BindFails, Ask, Stop, Unrecord,
                  UnrecordFails, Retry, Start, Break, CloseLeft, Close, Exit, StrangerBinds,
                  StrangerLeaves, Bar
    <3>2. QED
      BY <2>1, <3>1 DEF ReleaseBound
  <2>3. QED
    BY <2>1, <2>2, TakeoverAssumption DEF Inv, TypeOK, Held, ReleaseBound, Go, Holder
<1>2. QED
  BY <1>1, SpecInv, PTL DEF Spec, RecordedBeforeBound

=============================================================================
