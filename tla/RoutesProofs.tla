---------------------------- MODULE RoutesProofs ----------------------------
(***************************************************************************)
(* Theorems about module Routes, for every set of projects and domains,    *)
(* on either platform, and every length of run.                            *)
(***************************************************************************)
EXTENDS Routes, TLAPS

Run == [at : {"idle", "asked", "ran"}, put : SUBSET Domain, drop : SUBSET Domain,
        left : SUBSET Domain, sure : SUBSET Domain, checks : BOOLEAN, since : SUBSET Domain]

\* What a project's run may rely on, from its prompt to what it forgets at its end.
\* What it is going to install is in the record, or was dropped from it knowingly; a
\* declared domain that it leaves out of the list, or drops, was named to it or came
\* after it had read the record; so did a route that stands though the run is to
\* forget its domain.
RunOK(p) ==
  LET a == ask[p] IN
  /\ a.at = "idle" => a = Idle
  /\ a.at = "asked" =>
       /\ a.put \ known \subseteq strays
       /\ a.put \cap a.left = {} /\ a.sure = {}
       /\ a.checks \/ linux \/ (a.left \ a.drop) \cap live \subseteq a.since
       /\ \A d \in (IF linux THEN Domain \ a.put ELSE a.drop) :
            Declared(d) => d \in AskedToGo(a) \cup a.since
  /\ a.at = "ran" => a.checks \/ a.left \cap live \subseteq a.since
  /\ a.sure \cap live \subseteq a.since

Inv == TypeOK /\ Remembered /\ \A p \in Project : RunOK(p)

-----------------------------------------------------------------------------
LEMMA IdleIsRun == Idle \in Run
BY DEF Idle, Run

LEMMA AskIsRun ==
  ASSUME TypeOK, NEW p \in Project
  PROVE  ask[p] \in Run
BY DEF TypeOK, Run

\* Clearing up what a run has nothing left to do keeps it a run.
LEMMA RestIsRun ==
  ASSUME NEW a \in Run
  PROVE  Rest(a) \in Run /\ (Rest(a) = a \/ Rest(a) = Idle)
BY IdleIsRun DEF Rest

\* What Noted does to a run: domains are added to its history, and nothing else.
LEMMA NotedAdds ==
  ASSUME TypeOK, NEW D \in SUBSET Domain, NEW q \in Project, RunOK(q)
  PROVE  /\ Noted(ask, D)[q] \in Run
         /\ ask[q].at = "idle" => Noted(ask, D)[q] = ask[q]
         /\ ask[q].at # "idle" => Noted(ask, D)[q] = [ask[q] EXCEPT !.since = @ \cup D]
<1>1. ask[q] \in Run
  BY AskIsRun
<1>2. CASE ask[q].at = "idle"
  <2>1. ask[q] = Idle
    BY <1>2 DEF RunOK
  <2>2. QED
    BY <1>1, <1>2, <2>1 DEF Noted
<1>3. CASE ask[q].at # "idle"
  <2>1. Noted(ask, D)[q] = [ask[q] EXCEPT !.since = @ \cup D]
    BY <1>3 DEF Noted
  <2>2. QED
    BY <1>1, <1>3, <2>1 DEF Run
<1>4. QED
  BY <1>2, <1>3

\* A run goes on as it was through what others do, as long as what they install or
\* declare is noted, and what is dropped from the record while it is to be installed.
LEMMA RunGoesOn ==
  ASSUME TypeOK, NEW p \in Project, RunOK(p), NEW D \in SUBSET Domain,
         linux' = linux,
         ask'[p] = ask[p] \/ (ask[p].at # "idle" /\ ask'[p] = [ask[p] EXCEPT !.since = @ \cup D]),
         ask[p].at = "asked" => ask[p].put \ known' \subseteq strays',
         ask[p].at # "idle" => live' \ live \subseteq ask'[p].since,
         ask[p].at = "asked" => \A d \in Domain : Declared(d)' /\ ~Declared(d) => d \in ask'[p].since,
         live' \subseteq Domain
  PROVE  RunOK(p)'
<1> DEFINE a == ask[p]
           b == ask'[p]
<1>1. a \in Run
  BY AskIsRun
<1>2. /\ b.at = a.at /\ b.put = a.put /\ b.drop = a.drop /\ b.left = a.left
      /\ b.sure = a.sure /\ b.checks = a.checks /\ a.since \subseteq b.since
      /\ a.at = "idle" => b = a
  BY <1>1 DEF Run
<1> HIDE DEF b
<1>3. b.at = "idle" => b = Idle
  BY <1>2 DEF RunOK
<1>4. ASSUME b.at = "asked"
      PROVE  /\ b.put \ known' \subseteq strays'
             /\ b.put \cap b.left = {} /\ b.sure = {}
             /\ b.checks \/ linux' \/ (b.left \ b.drop) \cap live' \subseteq b.since
             /\ \A d \in (IF linux' THEN Domain \ b.put ELSE b.drop) :
                  Declared(d)' => d \in AskedToGo(b) \cup b.since
  <2>1. a.at = "asked" /\ live' \ live \subseteq b.since
    BY <1>2, <1>4 DEF b
  <2>2. /\ a.put \cap a.left = {} /\ a.sure = {}
        /\ a.checks \/ linux \/ (a.left \ a.drop) \cap live \subseteq a.since
        /\ \A d \in (IF linux THEN Domain \ a.put ELSE a.drop) :
             Declared(d) => d \in AskedToGo(a) \cup a.since
    BY <2>1 DEF RunOK
  <2>3. b.checks \/ linux' \/ (b.left \ b.drop) \cap live' \subseteq b.since
    BY <1>2, <2>1, <2>2
  <2>4. ASSUME NEW d \in (IF linux' THEN Domain \ b.put ELSE b.drop), Declared(d)'
        PROVE  d \in AskedToGo(b) \cup b.since
    <3>1. d \in Domain
      BY <1>1, <1>2 DEF Run
    <3>2. CASE Declared(d)
      <4>1. d \in (IF linux THEN Domain \ a.put ELSE a.drop)
        BY <1>2
      <4>2. AskedToGo(b) = AskedToGo(a)
        BY <1>2 DEF AskedToGo
      <4>3. QED
        BY <1>2, <2>2, <3>2, <4>1, <4>2
    <3>3. CASE ~Declared(d)
      BY <2>1, <2>4, <3>1, <3>3 DEF b
    <3>4. QED
      BY <3>2, <3>3
  <2>5. QED
    BY <1>2, <2>1, <2>2, <2>3, <2>4
<1>5. b.at = "ran" => b.checks \/ b.left \cap live' \subseteq b.since
  <2>1. SUFFICES ASSUME a.at = "ran", ~a.checks
                 PROVE  a.left \cap live' \subseteq b.since
    BY <1>2
  <2>2. a.left \cap live \subseteq a.since /\ live' \ live \subseteq b.since
    BY <2>1 DEF RunOK, b
  <2>3. QED
    BY <1>2, <2>2
<1>6. b.sure \cap live' \subseteq b.since
  <2>1. a.sure \cap live \subseteq a.since
    BY DEF RunOK
  <2>2. CASE a.at = "idle"
    BY <1>2, <2>2 DEF RunOK, Idle
  <2>3. CASE a.at # "idle"
    BY <1>2, <2>1, <2>3 DEF b
  <2>4. QED
    BY <2>2, <2>3
<1>7. QED
  BY <1>3, <1>4, <1>5, <1>6 DEF RunOK, b

-----------------------------------------------------------------------------
LEMMA NotedIsRuns ==
  ASSUME TypeOK, NEW D \in SUBSET Domain
  PROVE  Noted(ask, D) \in [Project -> Run]
<1>1. ASSUME NEW q \in Project
      PROVE  (IF ask[q].at = "idle" THEN Idle ELSE [ask[q] EXCEPT !.since = @ \cup D]) \in Run
  <2>1. ask[q] \in Run
    BY AskIsRun
  <2>2. [ask[q] EXCEPT !.since = @ \cup D] \in Run
    BY <2>1 DEF Run
  <2>3. QED
    BY <2>2, IdleIsRun
<1>2. QED
  BY <1>1 DEF Noted

\* What is noted of every run meets what RunGoesOn asks of it.
LEMMA NotedGoesOn ==
  ASSUME TypeOK, NEW p \in Project, RunOK(p), NEW D \in SUBSET Domain,
         linux' = linux, ask'[p] = Noted(ask, D)[p],
         ask[p].at = "asked" => ask[p].put \ known' \subseteq strays',
         live' \ live \subseteq D,
         \A d \in Domain : Declared(d)' /\ ~Declared(d) => d \in D,
         live' \subseteq Domain
  PROVE  RunOK(p)'
<1>1. ask[p] \in Run
  BY AskIsRun
<1>2. /\ ask[p].at = "idle" => ask'[p] = ask[p]
      /\ ask[p].at # "idle" => ask'[p] = [ask[p] EXCEPT !.since = @ \cup D]
  BY NotedAdds
<1>3. ask[p].at # "idle" => D \subseteq ask'[p].since
  BY <1>1, <1>2 DEF Run
<1>4. ask[p].at # "idle" => live' \ live \subseteq ask'[p].since
  BY <1>3
<1>5. ask[p].at = "asked" => \A d \in Domain : Declared(d)' /\ ~Declared(d) => d \in ask'[p].since
  BY <1>3
<1>6. ask'[p] = ask[p] \/ (ask[p].at # "idle" /\ ask'[p] = [ask[p] EXCEPT !.since = @ \cup D])
  BY <1>2
<1>7. QED
  BY <1>4, <1>5, <1>6, RunGoesOn

\* A run of a project that nothing is noted of, in a step that installs nothing and by
\* which nothing comes to be declared.
LEMMA UntouchedGoesOn ==
  ASSUME TypeOK, NEW p \in Project, RunOK(p), linux' = linux, ask'[p] = ask[p],
         ask[p].at = "asked" => ask[p].put \ known' \subseteq strays',
         live' \subseteq live,
         \A d \in Domain : Declared(d)' => Declared(d)
  PROVE  RunOK(p)'
<1>1. live' \subseteq Domain
  BY DEF TypeOK
<1>2. QED
  BY <1>1, RunGoesOn, {} \in SUBSET Domain

-----------------------------------------------------------------------------
LEMMA InitInv == Init => Inv
<1> SUFFICES ASSUME Init PROVE Inv
  OBVIOUS
<1>1. TypeOK
  BY IdleIsRun DEF Init, TypeOK, Run
<1>2. Remembered
  BY DEF Init, Remembered
<1>3. ASSUME NEW p \in Project PROVE RunOK(p)
  BY DEF Init, RunOK, Idle
<1>4. QED
  BY <1>1, <1>2, <1>3 DEF Inv

\* RecordDomains (src/routes.go): what is dropped is in force nowhere, and what is on
\* its way is among the strays.
LEMMA RecordDomainsKeeps ==
  ASSUME Inv, NEW p \in Project, NEW want \in SUBSET Domain, RecordDomains(p, want)
  PROVE  Inv'
<1> USE DEF Inv
<1>1. TypeOK'
  <2>1. ask' \in [Project -> Run]
    BY NotedIsRuns DEF RecordDomains
  <2>2. known' \subseteq Domain
    BY DEF RecordDomains, KnownAfter, TypeOK
  <2>3. claim' \in [Domain -> SUBSET Project]
    BY DEF RecordDomains, TypeOK
  <2>4. ASSUME NEW d \in Domain \ known'
        PROVE  claim'[d] = {}
    BY DEF RecordDomains, KnownAfter, Unwanted, TypeOK
  <2>5. strays' \subseteq Domain
    BY DEF RecordDomains, Unwanted, TypeOK
  <2>6. QED
    BY <2>1, <2>2, <2>3, <2>4, <2>5 DEF RecordDomains, machine, TypeOK, Run
<1>2. Remembered'
  BY DEF RecordDomains, machine, Remembered, KnownAfter, Unwanted, Routed, OnItsWay
<1>3. ASSUME NEW q \in Project
      PROVE  RunOK(q)'
  <2>1. ask[q].at = "asked" => ask[q].put \ known' \subseteq strays'
    <3> SUFFICES ASSUME ask[q].at = "asked", NEW d \in ask[q].put \ known'
                 PROVE  d \in strays'
      OBVIOUS
    <3>1. OnItsWay(d)
      BY DEF OnItsWay, Installs
    <3>2. d \in known \/ d \in strays
      BY DEF RunOK
    <3>3. QED
      BY <3>1, <3>2 DEF RecordDomains, KnownAfter, Unwanted
  <2>2. ASSUME NEW d \in Domain, Declared(d)', ~Declared(d)
        PROVE  d \in want
    BY <2>2 DEF RecordDomains, Declared
  <2>3. live' = live /\ linux' = linux /\ ask'[q] = Noted(ask, want)[q]
    BY DEF RecordDomains, machine
  <2>4. live' \ live \subseteq want /\ live' \subseteq Domain
    BY <2>3 DEF TypeOK
  <2>5. QED
    BY <2>1, <2>2, <2>3, <2>4, NotedGoesOn
<1>4. QED
  BY <1>1, <1>2, <1>3

LEMMA ForgetProjectKeeps ==
  ASSUME Inv, NEW p \in Project, ForgetProject(p)
  PROVE  Inv'
<1> USE DEF Inv
<1>1. TypeOK'
  BY DEF ForgetProject, machine, TypeOK
<1>2. Remembered'
  BY DEF ForgetProject, machine, Remembered
<1>3. ASSUME NEW q \in Project
      PROVE  RunOK(q)'
  <2>1. ASSUME NEW d \in Domain, Declared(d)'
        PROVE  Declared(d)
    BY <2>1 DEF ForgetProject, Declared
  <2>2. ask[q].at = "asked" => ask[q].put \ known' \subseteq strays'
    BY DEF ForgetProject, RunOK
  <2>3. live' \subseteq live /\ linux' = linux /\ ask'[q] = ask[q]
    BY DEF ForgetProject, machine
  <2>4. QED
    BY <2>1, <2>2, <2>3, UntouchedGoesOn
<1>4. QED
  BY <1>1, <1>2, <1>3

LEMMA FolderKeeps ==
  ASSUME Inv, NEW p \in Project, Folder(p)
  PROVE  Inv'
<1> USE DEF Inv
<1>1. Mine(p) \in SUBSET Domain
  BY DEF Mine, TypeOK
<1>2. TypeOK'
  <2>1. ask' \in [Project -> Run]
    BY <1>1, NotedIsRuns DEF Folder, TypeOK, Run
  <2>2. QED
    BY <2>1 DEF Folder, machine, TypeOK, Run
<1>3. Remembered'
  BY DEF Folder, machine, Remembered
<1>4. ASSUME NEW q \in Project
      PROVE  RunOK(q)'
  <2>1. ask[q].at = "asked" => ask[q].put \ known' \subseteq strays'
    BY DEF Folder, RunOK
  <2>2. live' = live /\ linux' = linux /\ live' \subseteq Domain
    BY DEF Folder, machine, TypeOK
  <2>3. CASE p \in folder
    <3>1. ASSUME NEW d \in Domain, Declared(d)'
          PROVE  Declared(d)
      BY <2>3, <3>1 DEF Folder, Declared
    <3>2. ask'[q] = ask[q]
      BY <2>3 DEF Folder
    <3>3. QED
      BY <2>1, <2>2, <3>1, <3>2, UntouchedGoesOn
  <2>4. CASE p \notin folder
    <3>1. ASSUME NEW d \in Domain, Declared(d)', ~Declared(d)
          PROVE  d \in Mine(p)
      BY <2>4, <3>1 DEF Folder, Declared, Mine, TypeOK
    <3>2. ask'[q] = Noted(ask, Mine(p))[q]
      BY <2>4 DEF Folder
    <3>3. QED
      BY <1>1, <2>1, <2>2, <3>1, <3>2, NotedGoesOn
  <2>5. QED
    BY <2>3, <2>4
<1>5. QED
  BY <1>2, <1>3, <1>4

-----------------------------------------------------------------------------
LEMMA IdleIsOK ==
  ASSUME NEW p \in Project, ask'[p] = Idle
  PROVE  RunOK(p)'
BY DEF RunOK, Idle

\* A run that has been prepared, from what the program has read just now.
LEMMA PromptIsOK ==
  ASSUME TypeOK, NEW p \in Project, NEW a \in Run, ask'[p] = a, a.at = "asked", a.sure = {},
         a.put \subseteq known, a.put \cap a.left = {},
         a.checks \/ linux \/ (a.left \ a.drop) \cap live = {},
         \A d \in (IF linux THEN Domain \ a.put ELSE a.drop) : Declared(d) => d \in AskedToGo(a),
         UNCHANGED <<linux, folder, known, claim, machine, strays>>
  PROVE  RunOK(p)'
<1>1. /\ linux' = linux /\ live' = live /\ known' = known /\ strays' = strays
      /\ \A d : Declared(d)' <=> Declared(d)
  BY DEF machine, Declared
<1>2. a.put \ known' \subseteq strays'
  BY <1>1
<1>3. a.checks \/ linux' \/ (a.left \ a.drop) \cap live' \subseteq a.since
  BY <1>1
<1>4. \A d \in (IF linux' THEN Domain \ a.put ELSE a.drop) :
        Declared(d)' => d \in AskedToGo(a) \cup a.since
  BY <1>1
<1>5. QED
  BY <1>2, <1>3, <1>4 DEF RunOK

\* A prompt leaves the record and the machine alone, and every other project's run.
LEMMA PromptKeeps ==
  ASSUME Inv, NEW p \in Project, NEW a \in Run, ask' = [ask EXCEPT ![p] = a], RunOK(p)',
         UNCHANGED <<linux, folder, known, claim, machine, strays>>
  PROVE  Inv'
<1> USE DEF Inv
<1>1. TypeOK'
  BY DEF machine, TypeOK, Run
<1>2. Remembered'
  BY DEF machine, Remembered
<1>3. ASSUME NEW q \in Project
      PROVE  RunOK(q)'
  <2>1. CASE q = p
    BY <2>1
  <2>2. CASE q # p
    <3>1. ask'[q] = ask[q]
      BY <2>2 DEF TypeOK
    <3>2. ask[q].at = "asked" => ask[q].put \ known' \subseteq strays'
      BY DEF RunOK
    <3>3. live' \subseteq live /\ linux' = linux
      BY DEF machine
    <3>4. \A d \in Domain : Declared(d)' => Declared(d)
      BY DEF Declared
    <3>5. QED
      BY <3>1, <3>2, <3>3, <3>4, UntouchedGoesOn
  <2>3. QED
    BY <2>1, <2>2
<1>4. QED
  BY <1>1, <1>2, <1>3

\* Whatever a project declares is in the record.
LEMMA DeclaredIsKnown ==
  ASSUME TypeOK, NEW d \in Domain, Declared(d)
  PROVE  d \in Standing
BY DEF TypeOK, Declared, Standing

LEMMA TrustKeeps ==
  ASSUME Inv, NEW p \in Project, Trust(p)
  PROVE  Inv'
<1> USE DEF Inv
<1> DEFINE missing == {d \in Mine(p) \ foreign : ~Routed(d)}
           keep    == RouteSet(Mine(p), Stale)
           a == Script(keep, missing, Stale, Stale, TRUE)
<1>1. /\ missing \in SUBSET Domain /\ keep \in SUBSET Domain /\ Stale \in SUBSET Domain
      /\ missing \subseteq known /\ keep \subseteq known
  BY DEF Mine, RouteSet, Standing, Stale, TypeOK
<1>2. missing \cap Stale = {} /\ keep \cap Stale = {}
  BY DEF Stale, RouteSet
<1>3. \A d \in Stale : ~Declared(d)
  BY DEF Stale
<1>4. \A d \in Domain \ keep : ~Declared(d)
  <2>1. SUFFICES ASSUME NEW d \in Domain, Declared(d)
                 PROVE  d \in keep
    OBVIOUS
  <2>2. d \in Standing
    BY <2>1, DeclaredIsKnown
  <2>3. QED
    BY <2>1, <2>2, <1>3 DEF RouteSet
<1>5. /\ ask' = [ask EXCEPT ![p] = a]
      /\ UNCHANGED <<linux, folder, known, claim, machine, strays>>
  BY DEF Trust
<1>6. ask'[p] = a
  BY <1>5 DEF TypeOK
<1> HIDE DEF missing, keep
<1>7. /\ a \in Run /\ a.at = "asked" /\ a.left = Stale /\ a.checks = TRUE
      /\ a.put = (IF linux THEN keep ELSE missing)
      /\ a.drop = (IF linux THEN {} ELSE Stale) /\ a.sure = {}
  <2> HIDE DEF Stale
  <2>1. CASE linux
    BY <1>1, <2>1 DEF Script, Run
  <2>2. CASE ~linux
    BY <1>1, <2>2 DEF Script, Run
  <2>3. QED
    BY <2>1, <2>2
<1> HIDE DEF a
<1>8. RunOK(p)'
  <2>1. a.put \subseteq known /\ a.put \cap a.left = {}
    BY <1>1, <1>2, <1>7
  <2>2. \A d \in (IF linux THEN Domain \ a.put ELSE a.drop) : Declared(d) => d \in AskedToGo(a)
    BY <1>3, <1>4, <1>7
  <2>3. QED
    BY <1>5, <1>6, <1>7, <2>1, <2>2, PromptIsOK
<1>9. QED
  BY <1>5, <1>7, <1>8, PromptKeeps

LEMMA UntrustKeeps ==
  ASSUME Inv, NEW p \in Project, NEW removing \in SUBSET Domain, Untrust(p, removing)
  PROVE  Inv'
<1> USE DEF Inv
<1> DEFINE keep == RouteSet({}, removing)
           drop == removing \ foreign
           write == {}
           no == FALSE
           a == Script(keep, write, drop, removing, no)
<1>1. /\ keep \in SUBSET Domain /\ keep \subseteq known /\ keep \cap removing = {}
      /\ write \in SUBSET Domain /\ write = {} /\ drop \in SUBSET Domain /\ no \in BOOLEAN
  BY DEF RouteSet, Standing, TypeOK
<1>2. write \cap removing = {}
  BY <1>1
<1>3. \A d \in Domain \ keep : Declared(d) => d \in removing
  BY DeclaredIsKnown DEF RouteSet
<1>4. /\ ask' = [ask EXCEPT ![p] = a]
      /\ UNCHANGED <<linux, folder, known, claim, machine, strays>>
  BY DEF Untrust
<1>5. ask'[p] = a
  BY <1>4 DEF TypeOK
<1>6. linux \/ (removing \ drop) \cap live = {}
  BY DEF TypeOK
<1> HIDE DEF keep, drop, write, no
<1>7. /\ a \in Run /\ a.at = "asked" /\ a.left = removing /\ a.checks = no
      /\ a.put = (IF linux THEN keep ELSE write)
      /\ a.drop = (IF linux THEN {} ELSE drop) /\ a.sure = {}
  <2>1. CASE linux
    BY <1>1, <2>1 DEF Script, Run
  <2>2. CASE ~linux
    BY <1>1, <2>2 DEF Script, Run
  <2>3. QED
    BY <2>1, <2>2
<1> HIDE DEF a
<1>8. RunOK(p)'
  <2>1. a.put \subseteq known /\ a.put \cap a.left = {}
    BY <1>1, <1>2, <1>7
  <2>2. \A d \in (IF linux THEN Domain \ a.put ELSE a.drop) : Declared(d) => d \in AskedToGo(a)
    <3>1. drop \subseteq removing
      BY DEF drop
    <3>2. AskedToGo(a) = removing
      BY <1>7 DEF AskedToGo, no
    <3>3. QED
      BY <1>3, <1>7, <3>1, <3>2
  <2>3. linux \/ (a.left \ a.drop) \cap live = {}
    BY <1>6, <1>7
  <2>4. QED
    BY <1>4, <1>5, <1>7, <2>1, <2>2, <2>3, PromptIsOK
<1>9. QED
  BY <1>4, <1>7, <1>8, PromptKeeps

-----------------------------------------------------------------------------
\* The script runs: what it installs is remembered, what it takes nobody it could know
\* of declares, and what is to be forgotten is gone or has come back since.
LEMMA RunScriptKeeps ==
  ASSUME Inv, NEW p \in Project, RunScript(p)
  PROVE  Inv'
<1> USE DEF Inv
<1> DEFINE a == ask[p]
           done == [a EXCEPT !.at = "ran", !.put = {}, !.drop = {}]
<1>1. a \in Run /\ a.at = "asked" /\ Installs(a) = a.put /\ a.put \in SUBSET Domain
  <2>1. a \in Run
    BY AskIsRun
  <2>2. QED
    BY <2>1 DEF RunScript, Installs, Run
<1>2. /\ done \in Run /\ done.at = "ran" /\ done.left = a.left /\ done.sure = a.sure
      /\ done.checks = a.checks /\ done.since = a.since
  BY <1>1 DEF Run
<1> HIDE DEF done
<1>3. Noted(ask, a.put) \in [Project -> Run]
  BY <1>1, NotedIsRuns
<1>4. /\ ask' = [Noted(ask, a.put) EXCEPT ![p] = Rest(done)]
      /\ linux' = linux /\ folder' = folder /\ known' = known /\ claim' = claim
      /\ link' = link /\ strays' = strays
  BY <1>1 DEF RunScript, done
<1>5. ASSUME linux
      PROVE  /\ TypeOK' /\ Remembered' /\ live' \ live \subseteq a.put
             /\ a.checks \/ a.left \cap live' \subseteq a.since
  <2>1. boot' = a.put /\ foreign' = foreign /\ live' = (IF link THEN a.put ELSE live)
    BY <1>5 DEF RunScript
  <2>2. TypeOK'
    BY <1>1, <1>2, <1>3, <1>4, <1>5, <2>1, RestIsRun DEF TypeOK, Run
  <2>3. Remembered'
    BY <1>1, <1>4, <2>1 DEF Remembered, RunOK
  <2>4. a.left \cap live' = {}
    BY <1>1, <1>5, <2>1 DEF RunOK, TypeOK
  <2>5. live' \ live \subseteq a.put
    BY <2>1
  <2>6. QED
    BY <2>2, <2>3, <2>4, <2>5
<1>6. ASSUME ~linux
      PROVE  /\ TypeOK' /\ Remembered' /\ live' \ live \subseteq a.put
             /\ a.checks \/ a.left \cap live' \subseteq a.since
  <2>1. /\ live' = (live \cup a.put) \ a.drop /\ boot' = boot
        /\ foreign' = foreign \ (a.put \cup a.drop)
    BY <1>6 DEF RunScript
  <2>2. TypeOK'
    BY <1>1, <1>2, <1>3, <1>4, <1>6, <2>1, RestIsRun DEF TypeOK, Run
  <2>3. Remembered'
    BY <1>1, <1>4, <2>1 DEF Remembered, RunOK
  <2>4. a.checks \/ a.left \cap live' \subseteq a.since
    BY <1>1, <1>6, <2>1 DEF RunOK
  <2>5. live' \ live \subseteq a.put
    BY <2>1
  <2>6. QED
    BY <2>2, <2>3, <2>4, <2>5
<1>7. /\ TypeOK' /\ Remembered' /\ live' \ live \subseteq a.put
      /\ a.checks \/ a.left \cap live' \subseteq a.since
  BY <1>5, <1>6
<1>8. ASSUME NEW q \in Project
      PROVE  RunOK(q)'
  <2>1. CASE q = p
    <3>1. ask'[p] = done \/ ask'[p] = Idle
      BY <1>2, <1>3, <1>4, RestIsRun
    <3>2. CASE ask'[p] = done
      BY <1>1, <1>2, <1>7, <2>1, <3>2 DEF RunOK
    <3>3. QED
      BY <2>1, <3>1, <3>2, IdleIsOK
  <2>2. CASE q # p
    <3>1. ask'[q] = Noted(ask, a.put)[q]
      BY <1>3, <1>4, <2>2
    <3>2. ask[q].at = "asked" => ask[q].put \ known' \subseteq strays'
      BY <1>4 DEF RunOK
    <3>3. \A d \in Domain : Declared(d)' => Declared(d)
      BY <1>4 DEF Declared
    <3>4. live' \subseteq Domain
      BY <1>7 DEF TypeOK
    <3>5. QED
      BY <1>1, <1>4, <1>7, <3>1, <3>2, <3>3, <3>4, NotedGoesOn
  <2>3. QED
    BY <2>1, <2>2
<1>9. QED
  BY <1>7, <1>8

LEMMA GiveUpKeeps ==
  ASSUME Inv, NEW p \in Project, GiveUp(p)
  PROVE  Inv'
<1> USE DEF Inv
<1>1. /\ ask' = [ask EXCEPT ![p] = Idle]
      /\ UNCHANGED <<linux, folder, known, claim, machine, strays>>
  BY DEF GiveUp
<1>2. ask'[p] = Idle
  BY <1>1 DEF TypeOK
<1>3. QED
  BY <1>1, <1>2, IdleIsRun, IdleIsOK, PromptKeeps

\* What is looked for once more is not there; what is not looked for is gone or back.
LEMMA CheckGoneKeeps ==
  ASSUME Inv, NEW p \in Project, NEW d \in Domain, CheckGone(p, d)
  PROVE  Inv'
<1> USE DEF Inv
<1> DEFINE a == ask[p]
           sure == IF a.checks /\ Routed(d) THEN {} ELSE {d}
           b == [a EXCEPT !.left = @ \ {d}, !.sure = sure]
<1>1. a \in Run /\ a.at = "ran" /\ d \in a.left
  BY AskIsRun DEF CheckGone
<1>2. /\ b \in Run /\ b.at = "ran" /\ b.left \subseteq a.left /\ b.sure = sure
      /\ b.checks = a.checks /\ b.since = a.since
  BY <1>1 DEF Run
<1> HIDE DEF b
<1>3. /\ ask' = [ask EXCEPT ![p] = Rest(b)]
      /\ UNCHANGED <<linux, folder, known, claim, machine, strays>>
  BY DEF CheckGone, b
<1>4. ask'[p] = Rest(b)
  BY <1>3 DEF TypeOK
<1>5. RunOK(p)'
  <2>1. live' = live
    BY <1>3 DEF machine
  <2>2. a.checks \/ a.left \cap live \subseteq a.since
    BY <1>1 DEF RunOK
  <2>3. sure \cap live \subseteq a.since
    BY <1>1, <2>2 DEF Routed
  <2>4. CASE Rest(b) = b
    BY <1>2, <1>4, <2>1, <2>2, <2>3, <2>4 DEF RunOK
  <2>5. QED
    BY <1>2, <1>4, <2>4, RestIsRun, IdleIsOK
<1>6. QED
  BY <1>2, <1>3, <1>5, RestIsRun, PromptKeeps

\* RouteRemoved (src/routes.go): what is dropped from the record is in force nowhere,
\* or has come back since the run began and is among the strays.
LEMMA RouteRemovedKeeps ==
  ASSUME Inv, NEW p \in Project, NEW d \in Domain, RouteRemoved(p, d)
  PROVE  Inv'
<1> USE DEF Inv
<1> DEFINE a == ask[p]
           b == [a EXCEPT !.sure = {}]
<1>1. a \in Run /\ d \in a.sure /\ a.at = "ran"
  <2>1. a \in Run /\ d \in a.sure
    BY AskIsRun DEF RouteRemoved
  <2>2. a.at # "idle" /\ a.at # "asked"
    BY <2>1 DEF RunOK, Idle
  <2>3. QED
    BY <2>1, <2>2 DEF Run
<1>2. /\ b \in Run /\ b.at = "ran" /\ b.left = a.left /\ b.sure = {}
      /\ b.checks = a.checks /\ b.since = a.since
  BY <1>1 DEF Run
<1> HIDE DEF b
<1>3. /\ ask' = [ask EXCEPT ![p] = Rest(b)]
      /\ linux' = linux /\ folder' = folder /\ live' = live /\ boot' = boot
      /\ link' = link /\ foreign' = foreign
  BY DEF RouteRemoved, machine, b
<1>4. /\ known' \subseteq known /\ known \ {d} \subseteq known' /\ strays \subseteq strays'
      /\ strays' \subseteq strays \cup {d}
      /\ d \notin known' /\ d \in known /\ (OnItsWay(d) \/ d \in a.since) => d \in strays'
  <2>1. CASE Removable(d)
    BY <2>1 DEF RouteRemoved
  <2>2. CASE ~Removable(d)
    BY <2>2 DEF RouteRemoved
  <2>3. QED
    BY <2>1, <2>2
<1>5. /\ claim' \in [Domain -> SUBSET Project]
      /\ \A x \in Domain : claim'[x] \subseteq claim[x] /\ (x \notin known' => claim'[x] = {})
  <2>1. CASE Removable(d)
    BY <2>1 DEF RouteRemoved, TypeOK
  <2>2. CASE ~Removable(d)
    BY <2>2 DEF RouteRemoved, TypeOK
  <2>3. QED
    BY <2>1, <2>2
<1>6. TypeOK'
  <2>1. ask' \in [Project -> Run]
    BY <1>2, <1>3, RestIsRun DEF TypeOK, Run
  <2>2. QED
    BY <1>3, <1>4, <1>5, <2>1 DEF TypeOK, Run
<1>7. Remembered'
  <2>1. SUFFICES ASSUME NEW x \in (live \cup boot) \ known'
                 PROVE  x \in strays'
    BY <1>3 DEF Remembered
  <2>2. CASE x \notin known
    BY <1>4, <2>2 DEF Remembered
  <2>3. CASE x \in known
    <3>1. x = d
      BY <1>4, <2>3
    <3>2. CASE d \in live
      BY <1>1, <1>4, <2>3, <3>1, <3>2 DEF RunOK
    <3>3. CASE d \in boot
      BY <1>4, <2>3, <3>1, <3>3 DEF OnItsWay
    <3>4. QED
      BY <3>1, <3>2, <3>3
  <2>4. QED
    BY <2>2, <2>3
<1>8. ASSUME NEW q \in Project
      PROVE  RunOK(q)'
  <2>1. CASE q = p
    <3>1. ask'[p] = Rest(b)
      BY <1>3 DEF TypeOK
    <3>2. a.checks \/ a.left \cap live \subseteq a.since
      BY <1>1 DEF RunOK
    <3>3. CASE Rest(b) = b
      BY <1>2, <1>3, <2>1, <3>1, <3>2, <3>3 DEF RunOK
    <3>4. QED
      BY <1>2, <2>1, <3>1, <3>3, RestIsRun, IdleIsOK
  <2>2. CASE q # p
    <3>1. ask'[q] = ask[q]
      BY <1>3, <2>2 DEF TypeOK
    <3>2. ask[q].at = "asked" => ask[q].put \ known' \subseteq strays'
      <4> SUFFICES ASSUME ask[q].at = "asked", NEW x \in ask[q].put \ known'
                   PROVE  x \in strays'
        OBVIOUS
      <4>1. CASE x \notin known
        BY <1>4, <4>1 DEF RunOK
      <4>2. CASE x \in known
        <5>1. x = d
          BY <1>4, <4>2
        <5>2. OnItsWay(x)
          BY DEF OnItsWay, Installs
        <5>3. QED
          BY <1>4, <4>2, <5>1, <5>2
      <4>3. QED
        BY <4>1, <4>2
    <3>3. \A x \in Domain : Declared(x)' => Declared(x)
      BY <1>3, <1>5 DEF Declared
    <3>4. QED
      BY <1>3, <3>1, <3>2, <3>3, UntouchedGoesOn
  <2>3. QED
    BY <2>1, <2>2
<1>9. QED
  BY <1>6, <1>7, <1>8

-----------------------------------------------------------------------------
LEMMA LinkDownKeeps ==
  ASSUME Inv, LinkDown
  PROVE  Inv'
<1> USE DEF Inv
<1>1. TypeOK' /\ Remembered'
  BY DEF LinkDown, TypeOK, Remembered
<1>2. ASSUME NEW q \in Project
      PROVE  RunOK(q)'
  <2>1. /\ ask[q].at = "asked" => ask[q].put \ known' \subseteq strays'
        /\ live' \subseteq live /\ linux' = linux /\ ask'[q] = ask[q]
    BY DEF LinkDown, RunOK
  <2>2. \A d \in Domain : Declared(d)' => Declared(d)
    BY DEF LinkDown, Declared
  <2>3. QED
    BY <2>1, <2>2, UntouchedGoesOn
<1>3. QED
  BY <1>1, <1>2

LEMMA LinkUpKeeps ==
  ASSUME Inv, LinkUp
  PROVE  Inv'
<1> USE DEF Inv
<1>1. boot \in SUBSET Domain
  BY DEF TypeOK
<1>2. TypeOK'
  <2>1. ask' \in [Project -> Run]
    BY <1>1, NotedIsRuns DEF LinkUp
  <2>2. QED
    BY <2>1 DEF LinkUp, TypeOK, Run
<1>3. Remembered'
  BY DEF LinkUp, Remembered
<1>4. ASSUME NEW q \in Project
      PROVE  RunOK(q)'
  <2>1. /\ ask[q].at = "asked" => ask[q].put \ known' \subseteq strays'
        /\ live' = boot /\ linux' = linux /\ ask'[q] = Noted(ask, boot)[q]
    BY DEF LinkUp, RunOK
  <2>2. \A d \in Domain : Declared(d)' => Declared(d)
    BY DEF LinkUp, Declared
  <2>3. QED
    BY <1>1, <2>1, <2>2, NotedGoesOn
<1>5. QED
  BY <1>2, <1>3, <1>4

LEMMA StrangerKeeps ==
  ASSUME Inv, NEW d \in Domain, Stranger(d)
  PROVE  Inv'
<1> USE DEF Inv
<1>1. live' \subseteq live
  BY DEF Stranger
<1>2. TypeOK' /\ Remembered'
  BY DEF Stranger, TypeOK, Remembered
<1>3. ASSUME NEW q \in Project
      PROVE  RunOK(q)'
  <2>1. /\ ask[q].at = "asked" => ask[q].put \ known' \subseteq strays'
        /\ linux' = linux /\ ask'[q] = ask[q]
    BY DEF Stranger, RunOK
  <2>2. \A x \in Domain : Declared(x)' => Declared(x)
    BY DEF Stranger, Declared
  <2>3. QED
    BY <1>1, <2>1, <2>2, UntouchedGoesOn
<1>4. QED
  BY <1>2, <1>3

\* Nothing that the invariant speaks of changes.
LEMMA StutterKeeps ==
  ASSUME Inv, UNCHANGED vars
  PROVE  Inv'
BY DEF Inv, vars, TypeOK, Remembered, RunOK, Declared

LEMMA NextKeeps == Inv /\ [Next]_vars => Inv'
<1> SUFFICES ASSUME Inv, [Next]_vars PROVE Inv'
  OBVIOUS
<1>1. ASSUME NEW p \in Project, NEW want \in SUBSET Domain, RecordDomains(p, want)
      PROVE  Inv'
  BY <1>1, RecordDomainsKeeps
<1>2. ASSUME NEW p \in Project, NEW want \in SUBSET Domain, Untrust(p, want)
      PROVE  Inv'
  BY <1>2, UntrustKeeps
<1>3. ASSUME NEW p \in Project,
             ForgetProject(p) \/ Folder(p) \/ Trust(p) \/ RunScript(p) \/ GiveUp(p)
      PROVE  Inv'
  BY <1>3, ForgetProjectKeeps, FolderKeeps, TrustKeeps, RunScriptKeeps, GiveUpKeeps
<1>4. ASSUME NEW p \in Project, NEW d \in Domain, CheckGone(p, d) \/ RouteRemoved(p, d)
      PROVE  Inv'
  BY <1>4, CheckGoneKeeps, RouteRemovedKeeps
<1>5. ASSUME LinkDown \/ LinkUp
      PROVE  Inv'
  BY <1>5, LinkDownKeeps, LinkUpKeeps
<1>6. ASSUME NEW d \in Domain, Stranger(d)
      PROVE  Inv'
  BY <1>6, StrangerKeeps
<1>7. QED
  BY <1>1, <1>2, <1>3, <1>4, <1>5, <1>6, StutterKeeps DEF Next

LEMMA InvHolds == Spec => []Inv
<1>1. QED
  BY InitInv, NextKeeps, PTL DEF Spec

-----------------------------------------------------------------------------
\* A route in force, or due at the next boot, is in the record, unless the record
\* dropped it while it was on its way (RecordDomains and RouteRemoved, src/routes.go).
THEOREM RememberedHolds == Spec => []Remembered
<1>1. Inv => Remembered
  BY DEF Inv
<1>2. QED
  BY <1>1, InvHolds, PTL

\* No script, however long its prompt waited, takes a route that a project declares,
\* from the machine or from its next boot, but for those its own caller named to
\* Untrust and those declared or installed since it was made (routeSet, src/trust.go).
THEOREM RouteKeptHolds == Spec => RouteKept
<1> DEFINE Step ==
      \A p \in Project : RunScript(p) =>
        \A d \in (live \ live') \cup (boot \ boot') :
          Declared(d) => d \in AskedToGo(ask[p]) \cup ask[p].since
<1>1. Inv => Step
  <2>1. SUFFICES ASSUME Inv, NEW p \in Project, RunScript(p),
                        NEW d \in (live \ live') \cup (boot \ boot'), Declared(d)
                 PROVE  d \in AskedToGo(ask[p]) \cup ask[p].since
    OBVIOUS
  <2>2. ask[p].at = "asked" /\ RunOK(p)
    BY <2>1 DEF Inv, RunScript
  <2>3. CASE linux
    <3>1. d \in Domain \ ask[p].put
      BY <2>1, <2>3 DEF RunScript, Inv, TypeOK
    <3>2. QED
      BY <2>1, <2>2, <2>3, <3>1 DEF RunOK
  <2>4. CASE ~linux
    <3>1. d \in ask[p].drop
      BY <2>1, <2>4 DEF RunScript
    <3>2. QED
      BY <2>1, <2>2, <2>4, <3>1 DEF RunOK
  <2>5. QED
    BY <2>3, <2>4
<1>2. []Inv => [][Step]_vars
  BY <1>1, PTL
<1>3. QED
  BY <1>2, InvHolds DEF RouteKept

\* A project whose folder stands loses its claim to a domain by its own hand only
\* (RouteRemoved, src/routes.go, forgets what nobody declares).
THEOREM ClaimKeptHolds == Spec => ClaimKept
<1> DEFINE Step ==
      \A p \in Project, d \in Domain :
        (p \in claim[d] \cap folder /\ p \notin claim'[d]) =>
          (\E want \in SUBSET Domain : RecordDomains(p, want)) \/ ForgetProject(p)
<1>1. Inv /\ [Next]_vars => [Step]_vars
  <2>1. SUFFICES ASSUME Inv, Next, NEW p \in Project, NEW d \in Domain,
                        p \in claim[d] \cap folder, p \notin claim'[d]
                 PROVE  (\E want \in SUBSET Domain : RecordDomains(p, want)) \/ ForgetProject(p)
    OBVIOUS
  <2>2. claim \in [Domain -> SUBSET Project]
    BY <2>1 DEF Inv, TypeOK
  <2>3. ASSUME NEW q \in Project, NEW want \in SUBSET Domain, RecordDomains(q, want)
        PROVE  q = p
    BY <2>1, <2>2, <2>3 DEF RecordDomains
  <2>4. ASSUME NEW q \in Project, ForgetProject(q)
        PROVE  q = p
    BY <2>1, <2>2, <2>4 DEF ForgetProject
  <2>5. ASSUME NEW q \in Project, NEW x \in Domain, RouteRemoved(q, x)
        PROVE  FALSE
    BY <2>1, <2>2, <2>5 DEF RouteRemoved, Removable, Declared
  <2>6. claim' # claim
    BY <2>1
  <2>7. ASSUME NEW q \in Project
        PROVE  /\ \A want \in SUBSET Domain : ~Untrust(q, want)
               /\ ~Folder(q) /\ ~Trust(q) /\ ~RunScript(q) /\ ~GiveUp(q)
               /\ \A x \in Domain : ~CheckGone(q, x)
    BY <2>6 DEF Untrust, Folder, Trust, RunScript, GiveUp, CheckGone
  <2>8. ~LinkDown /\ ~LinkUp /\ \A x \in Domain : ~Stranger(x)
    BY <2>6 DEF LinkDown, LinkUp, Stranger
  <2>9. QED
    BY <2>1, <2>3, <2>4, <2>5, <2>7, <2>8 DEF Next
<1>2. QED
  BY <1>1, InvHolds, PTL DEF Spec, ClaimKept

=============================================================================
