--------------------------- MODULE ProcessTreeProofs ---------------------------
(***************************************************************************)
(* What holds of the controller among processes, for any processes, pids   *)
(* and step sequences: it behaves as StopSignalController says, so that    *)
(* its theorems hold here too, and what it signals is below its root.      *)
(***************************************************************************)
EXTENDS ProcessTree, StopSignalProofs

(* The terminal or the wrapper that n names will not be born after it: the     *)
(* terminal lives and has this pid, or it is gone, or the wrapper was born.     *)
Settled(n) ==
    \/ life[Terminal] = "dead"
    \/ Terminal \in Alive /\ pidOf[Terminal] = n
    \/ life[Wrapper] # "unborn"

TableOK ==
    /\ life \in [Procs -> {"unborn", "alive", "dead"}]
    /\ pidOf \in [Procs -> Pids \cup {None}]
    /\ parent \in [Procs -> Procs \cup {System}]

PidsApart == \A p, q \in Alive : pidOf[p] = pidOf[q] => p = q

FamiliesOK ==
    /\ \A p \in Procs : parent[p] \in Alive \cup {System}
    /\ \A p \in Procs \ Alive : parent[p] = System
    /\ parent[Terminal] = System
    /\ parent[Wrapper] \in {Terminal, System}
    /\ \A o \in Others : parent[o] \in Others \cup {System}

(* Who was there when a step began was born, and so were its parents. *)
EarlyOK ==
    /\ DOMAIN early = walks
    /\ \A w \in walks : \A p \in early[w] :
            /\ p \in Procs /\ life[p] # "unborn"
            /\ p \in Alive => parent[p] \in early[w] \cup {System}

RootsAreSettled ==
    /\ owner \in {Terminal, Wrapper, None}
    /\ life[Wrapper] # "unborn" => life[Terminal] # "unborn"
    /\ pid # None => Settled(pid)
    /\ \A w \in walks : Settled(w[3])

(* What a walk has listed, as long as its root lives. *)
ListingsOK ==
    /\ DOMAIN listed \subseteq walks
    /\ \A w \in DOMAIN listed : \A r \in Alive \cap {Terminal, Wrapper} : pidOf[r] = w[3] =>
            /\ Hit(w) \cap Others = {}
            /\ listed[w] # {} =>
                    \A p \in Alive \cap early[w] : parent[p] \in Hit(w) \cup {r} => p \in Hit(w)

TreeInv ==
    /\ TableOK /\ PidsApart /\ FamiliesOK /\ EarlyOK
    /\ RootsAreSettled /\ HostIsSpared /\ ListingsOK

-----------------------------------------------------------------------------
(* Every step of the composition is one of the controller, or none. *)

LEMMA StepOfController == TreeNext => [Next]_vars
  <1> SUFFICES ASSUME TreeNext
               PROVE  Next \/ UNCHANGED vars
    OBVIOUS
  <1>1. CASE TerminalStarts \/ WrapperStarts \/ ProgramStarts
    BY <1>1 DEF TerminalStarts, WrapperStarts, ProgramStarts, Unobserved
  <1>2. CASE \E k \in Kids, father \in {Program} \cup Kids : Forks(k, father)
    BY <1>2 DEF Forks, Unobserved
  <1>3. CASE \E o \in Others, father \in Others \cup {System} : OtherStarts(o, father)
    BY <1>3 DEF OtherStarts, Unobserved
  <1>4. CASE \E p \in Procs : Exits(p)
    BY <1>4 DEF Exits, Unobserved
  <1>5. CASE Request \/ Response \/ Exited \/ Elsewhere(AdapterExits)
    BY <1>5 DEF Request, Response, Exited, Elsewhere, OfController, Next, Message
  <1>6. CASE Elsewhere(Tick)
    BY <1>6 DEF Elsewhere, OfController, Next, Completion
  <1>7. CASE \E s \in Stops : Elsewhere(Disconnect(s)) \/ LookupEnds(s)
    BY <1>7 DEF Elsewhere, OfController, LookupEnds, Next, Message, Completion
  <1>8. CASE \E t \in DOMAIN armed : Elsewhere(TimerFires(t[1], t[2]))
    BY <1>8 DEF Elsewhere, OfController, Next, Completion
  <1>9. CASE \E walk \in walks : WalkLists(walk)
    BY <1>9 DEF WalkLists
  <1>10. CASE \E walk \in walks : WalkSignals(walk)
    BY <1>10 DEF WalkSignals, Next, Completion
  <1>11. QED
    BY <1>1, <1>2, <1>3, <1>4, <1>5, <1>6, <1>7, <1>8, <1>9, <1>10 DEF TreeNext

(* The composition only chooses among the controller's behaviours: every        *)
(* theorem about StopSignalController holds among processes that exit, fork and *)
(* reuse pids.                                                                  *)
THEOREM ImplementsController == TreeSpec => Spec
  <1>1. TreeInit => Init
    BY DEF TreeInit
  <1>2. [TreeNext]_allVars => [Next]_vars
    BY StepOfController DEF allVars
  <1>3. QED BY <1>1, <1>2, PTL DEF TreeSpec, Spec

-----------------------------------------------------------------------------
(* The tree below a pid. *)

LEMMA BelowIsTree ==
  ASSUME NEW n, NEW p \in Alive, pidOf[p] = n \/ parent[p] \in Below(n)
  PROVE  p \in Below(n)
  BY DEF Below

LEMMA BelowIsLeast ==
  ASSUME NEW n, NEW procs \in SUBSET Alive,
         \A p \in Alive : pidOf[p] = n => p \in procs,
         \A p \in Alive : parent[p] \in procs => p \in procs
  PROVE  Below(n) \subseteq procs
  BY DEF Below

-----------------------------------------------------------------------------
(* What births and deaths do to the table. *)

LEMMA SpawnEffect ==
  ASSUME TableOK, NEW p \in Procs, NEW father, Spawn(p, father)
  PROVE  /\ TableOK'
         /\ life[p] = "unborn" /\ p \notin Alive
         /\ Alive' = Alive \cup {p}
         /\ \A q \in Procs \ {p} : /\ life'[q] = life[q]
                                    /\ pidOf'[q] = pidOf[q]
                                    /\ parent'[q] = parent[q]
         /\ life'[p] = "alive"
         /\ pidOf'[p] \notin TakenPids
         /\ parent'[p] = father /\ father \in Alive \cup {System}
  <1>1. PidsFor[p] \subseteq Pids
    BY ProcsAssumption
  <1>2. father \in Procs \cup {System}
    BY DEF Spawn, Alive
  <1>3. PICK n \in PidsFor[p] \ TakenPids : pidOf' = [pidOf EXCEPT ![p] = n]
    BY DEF Spawn
  <1>4. TableOK'
    BY <1>1, <1>2, <1>3 DEF Spawn, TableOK
  <1>5. life[p] = "unborn" /\ p \notin Alive /\ Alive' = Alive \cup {p}
    BY DEF Spawn, TableOK, Alive
  <1>6. QED
    BY <1>3, <1>4, <1>5 DEF Spawn, TableOK

LEMMA BuryEffect ==
  ASSUME TableOK, NEW dead, Bury(dead)
  PROVE  /\ TableOK'
         /\ Alive' = Alive \ dead
         /\ \A q \in Procs : /\ life'[q] = IF q \in dead THEN "dead" ELSE life[q]
                             /\ q \notin dead => pidOf'[q] = pidOf[q]
                             /\ parent'[q] = IF q \in dead \/ parent[q] \in dead
                                             THEN System ELSE parent[q]
  <1>1. TableOK'
    BY DEF Bury, TableOK
  <1>2. Alive' = Alive \ dead
    BY DEF Bury, TableOK, Alive
  <1>3. QED
    BY <1>1, <1>2 DEF Bury

-----------------------------------------------------------------------------
(* Each kind of step keeps the invariant. *)

LEMMA BirthKeeps ==
  ASSUME TreeInv, NEW p \in Procs, NEW father, Spawn(p, father), Unobserved,
         p = Terminal => father = System,
         p = Wrapper => father = Terminal,
         p \in Others => father \in Others \cup {System}
  PROVE  TreeInv'
  <1>1. TableOK
    BY DEF TreeInv
  <1>2. /\ TableOK'
        /\ life[p] = "unborn" /\ p \notin Alive
        /\ Alive' = Alive \cup {p}
        /\ \A q \in Procs \ {p} : /\ life'[q] = life[q]
                                   /\ pidOf'[q] = pidOf[q]
                                   /\ parent'[q] = parent[q]
        /\ life'[p] = "alive"
        /\ pidOf'[p] \notin TakenPids
        /\ parent'[p] = father /\ father \in Alive \cup {System}
    BY <1>1, SpawnEffect
  <1>3. UNCHANGED <<pid, walks, listed, early, owner>>
    BY DEF Unobserved, vars, fields
  <1>4. Alive \subseteq Procs \ {p}
    BY <1>2 DEF Alive
  <1>5. /\ Terminal \in Procs /\ Wrapper \in Procs /\ Others \subseteq Procs
        /\ Wrapper # Terminal /\ Terminal \notin Others /\ Wrapper \notin Others
        /\ System \notin Procs
    BY ProcsAssumption DEF Procs, Job
  <1>6. /\ \A q \in Alive : pidOf[q] # pidOf'[p]
        /\ \A w \in DOMAIN listed : pidOf'[p] \notin listed[w]
    BY <1>2 DEF TakenPids
  <1>7. PidsApart'
    BY <1>2, <1>4, <1>6 DEF TreeInv, PidsApart
  <1>8. FamiliesOK'
    <2>1. FamiliesOK
      BY DEF TreeInv
    <2>2. \A q \in Procs' : parent'[q] \in Alive' \cup {System}
      BY <2>1, <1>2 DEF FamiliesOK, Procs, Job
    <2>3. \A q \in Procs' \ Alive' : parent'[q] = System
      BY <2>1, <1>2 DEF FamiliesOK, Procs, Job
    <2>4. parent'[Terminal] = System /\ parent'[Wrapper] \in {Terminal, System}
      BY <2>1, <1>2, <1>5 DEF FamiliesOK
    <2>5. \A o \in Others : parent'[o] \in Others \cup {System}
      BY <2>1, <1>2, <1>5 DEF FamiliesOK
    <2>6. QED BY <2>2, <2>3, <2>4, <2>5 DEF FamiliesOK
  <1>9. EarlyOK'
    <2>1. EarlyOK
      BY DEF TreeInv
    <2>2. \A w \in walks : p \notin early[w]
      BY <2>1, <1>2 DEF EarlyOK
    <2>3. \A w \in walks : \A q \in early[w] : q \in Procs \ {p}
      BY <2>1, <2>2 DEF EarlyOK
    <2>4. QED
      BY <2>1, <2>3, <1>2, <1>3 DEF EarlyOK, Procs, Job
  <1>10. RootsAreSettled'
    <2>1. RootsAreSettled
      BY DEF TreeInv
    <2>2. \A n : Settled(n) => Settled(n)'
      BY <2>1, <1>1, <1>2, <1>4, <1>5 DEF Settled, RootsAreSettled
    <2>3. life'[Wrapper] # "unborn" => life'[Terminal] # "unborn"
      <3>1. CASE p = Wrapper
        <4>1. Terminal \in Alive
          BY <3>1, <1>2, <1>5
        <4>2. QED BY <4>1, <3>1, <1>2, <1>5 DEF Alive
      <3>2. CASE p = Terminal
        BY <3>2, <1>2
      <3>3. CASE p \notin {Wrapper, Terminal}
        BY <3>3, <2>1, <1>2, <1>5 DEF RootsAreSettled
      <3>4. QED BY <3>1, <3>2, <3>3
    <2>4. pid' # None => Settled(pid)'
      BY <2>1, <2>2, <1>3 DEF RootsAreSettled, Settled
    <2>5. \A w \in walks' : Settled(w[3])'
      BY <2>1, <2>2, <1>3 DEF RootsAreSettled, Settled
    <2>6. QED
      BY <2>1, <2>3, <2>4, <2>5, <1>3 DEF RootsAreSettled
  <1>11. \A w \in DOMAIN listed : Hit(w)' = Hit(w)
    BY <1>2, <1>3, <1>4, <1>6 DEF Hit
  <1>12. HostIsSpared'
    BY <1>3, <1>11 DEF TreeInv, HostIsSpared
  <1>13. ListingsOK'
    <2>1. ListingsOK /\ RootsAreSettled /\ EarlyOK
      BY DEF TreeInv
    <2>2. ASSUME NEW w \in DOMAIN listed, p \in {Terminal, Wrapper}
          PROVE  pidOf'[p] # w[3]
      <3>1. Settled(w[3])
        BY <2>1 DEF ListingsOK, RootsAreSettled
      <3>2. CASE p = Terminal
        BY <3>1, <3>2, <2>1, <1>2 DEF Settled, RootsAreSettled
      <3>3. CASE p = Wrapper
        <4>1. Terminal \in Alive
          BY <3>3, <1>2, <1>5
        <4>2. pidOf[Terminal] = w[3]
          BY <4>1, <3>1, <3>3, <1>2 DEF Settled, Alive
        <4>3. QED BY <4>1, <4>2, <1>6
      <3>4. QED BY <2>2, <3>2, <3>3
    <2>3. \A w \in DOMAIN listed : p \notin early[w]
      BY <2>1, <1>2 DEF EarlyOK, ListingsOK
    <2>4. ASSUME NEW w \in DOMAIN listed', NEW r \in Alive' \cap {Terminal, Wrapper},
                 pidOf'[r] = w[3]
          PROVE  /\ Hit(w)' \cap Others = {}
                 /\ listed'[w] # {} =>
                        \A q \in Alive' \cap early'[w] :
                            parent'[q] \in Hit(w)' \cup {r} => q \in Hit(w)'
      <3>1. w \in DOMAIN listed
        BY <1>3
      <3>2. r \in Alive
        BY <3>1, <2>2, <2>4, <1>2
      <3>3. pidOf[r] = w[3]
        BY <3>2, <2>4, <1>2, <1>4
      <3>4. /\ Hit(w) \cap Others = {}
            /\ listed[w] # {} =>
                    \A q \in Alive \cap early[w] : parent[q] \in Hit(w) \cup {r} => q \in Hit(w)
        BY <3>1, <3>2, <3>3, <2>1, <2>4 DEF ListingsOK
      <3>5. \A q \in Alive' \cap early'[w] : q \in Alive \cap early[w] /\ parent'[q] = parent[q]
        BY <3>1, <2>3, <1>2, <1>3, <1>4
      <3>6. QED BY <3>1, <3>4, <3>5, <1>3, <1>11
    <2>5. DOMAIN listed' \subseteq walks'
      BY <2>1, <1>3 DEF ListingsOK
    <2>6. QED BY <2>4, <2>5 DEF ListingsOK
  <1>14. QED
    BY <1>2, <1>7, <1>8, <1>9, <1>10, <1>12, <1>13 DEF TreeInv

(* Deaths, and walks that end, whether they kill or not. *)
LEMMA DeathKeeps ==
  ASSUME TreeInv, NEW dead \in SUBSET Alive,
         Bury(dead) \/ (dead = {} /\ UNCHANGED <<life, pidOf, parent>>),
         walks' \subseteq walks, UNCHANGED <<pid, owner>>,
         DOMAIN early' = walks', \A w \in walks' : early'[w] = early[w],
         DOMAIN listed' \subseteq DOMAIN listed \cap walks',
         \A w \in DOMAIN listed' : listed'[w] = listed[w]
  PROVE  TreeInv'
  <1>1. TableOK
    BY DEF TreeInv
  <1>2. /\ TableOK'
        /\ Alive' = Alive \ dead
        /\ \A q \in Procs : /\ life'[q] = IF q \in dead THEN "dead" ELSE life[q]
                            /\ q \notin dead => pidOf'[q] = pidOf[q]
                            /\ parent'[q] = IF q \in dead \/ parent[q] \in dead
                                            THEN System ELSE parent[q]
    <2>1. CASE Bury(dead)
      BY <2>1, <1>1, BuryEffect
    <2>2. CASE dead = {} /\ UNCHANGED <<life, pidOf, parent>>
      BY <2>2, <1>1 DEF TableOK, Alive
    <2>3. QED BY <2>1, <2>2
  <1>3. Alive \subseteq Procs /\ dead \subseteq Procs
    BY DEF Alive
  <1>4. /\ Terminal \in Procs /\ Wrapper \in Procs /\ Others \subseteq Procs
        /\ System \notin Procs
    BY ProcsAssumption DEF Procs, Job
  <1>5. PidsApart'
    BY <1>2, <1>3 DEF TreeInv, PidsApart
  <1>6. FamiliesOK'
    <2>1. FamiliesOK
      BY DEF TreeInv
    <2>2. /\ \A q \in Procs' : parent'[q] \in Alive' \cup {System}
          /\ \A q \in Procs' \ Alive' : parent'[q] = System
      BY <2>1, <1>2, <1>3 DEF FamiliesOK, Procs, Job
    <2>3. /\ parent'[Terminal] = System /\ parent'[Wrapper] \in {Terminal, System}
          /\ \A o \in Others : parent'[o] \in Others \cup {System}
      BY <2>1, <1>2, <1>4 DEF FamiliesOK
    <2>4. QED BY <2>2, <2>3 DEF FamiliesOK
  <1>7. EarlyOK'
    <2>1. ASSUME NEW w \in walks', NEW p \in early'[w]
          PROVE  /\ p \in Procs' /\ life'[p] # "unborn"
                 /\ p \in Alive' => parent'[p] \in early'[w] \cup {System}
      <3>1. /\ p \in Procs /\ life[p] # "unborn"
            /\ p \in Alive => parent[p] \in early[w] \cup {System}
        BY <2>1 DEF TreeInv, EarlyOK
      <3>2. QED BY <3>1, <1>2 DEF Procs, Job
    <2>2. QED BY <2>1 DEF EarlyOK
  <1>8. RootsAreSettled'
    <2>1. RootsAreSettled
      BY DEF TreeInv
    <2>2. \A n : Settled(n) => Settled(n)'
      BY <1>2, <1>4 DEF Settled
    <2>3. \A p \in {Terminal, Wrapper} : life'[p] = "unborn" <=> life[p] = "unborn"
      BY <1>2, <1>4 DEF Alive
    <2>4. pid' # None => Settled(pid)'
      BY <2>1, <2>2 DEF RootsAreSettled, Settled
    <2>5. \A w \in walks' : Settled(w[3])'
      BY <2>1, <2>2 DEF RootsAreSettled, Settled
    <2>6. QED
      BY <2>1, <2>3, <2>4, <2>5 DEF RootsAreSettled
  <1>9. \A w \in DOMAIN listed' : Hit(w)' = Hit(w) \ dead
    BY <1>2, <1>3 DEF Hit
  <1>10. HostIsSpared'
    BY <1>9 DEF TreeInv, HostIsSpared
  <1>11. ListingsOK'
    <2>1. ListingsOK
      BY DEF TreeInv
    <2>2. ASSUME NEW w \in DOMAIN listed', NEW r \in Alive' \cap {Terminal, Wrapper},
                 pidOf'[r] = w[3]
          PROVE  /\ Hit(w)' \cap Others = {}
                 /\ listed'[w] # {} =>
                        \A q \in Alive' \cap early'[w] :
                            parent'[q] \in Hit(w)' \cup {r} => q \in Hit(w)'
      <3>1. /\ w \in DOMAIN listed /\ w \in walks'
            /\ r \in Alive /\ pidOf[r] = w[3]
        BY <2>2, <1>2, <1>3
      <3>2. /\ Hit(w) \cap Others = {}
            /\ listed[w] # {} =>
                    \A q \in Alive \cap early[w] : parent[q] \in Hit(w) \cup {r} => q \in Hit(w)
        BY <3>1, <2>1, <2>2 DEF ListingsOK
      <3>3. Hit(w) \subseteq Procs /\ r \in Procs
        BY <3>1, <1>3 DEF Hit
      <3>4. ASSUME NEW q \in Alive' \cap early'[w], parent'[q] \in Hit(w)' \cup {r}
            PROVE  q \in Alive \cap early[w] /\ parent[q] \in Hit(w) \cup {r}
        <4>1. q \in Alive \cap early[w] /\ q \in Procs
          BY <3>1, <1>2, <1>3
        <4>2. parent'[q] # System
          BY <3>1, <3>3, <3>4, <1>4, <1>9
        <4>3. parent'[q] = parent[q]
          BY <4>1, <4>2, <1>2
        <4>4. QED BY <4>1, <4>3, <3>4, <1>9
      <3>5. \A q \in Alive' \cap Hit(w) : q \in Hit(w)'
        BY <1>2, <1>9
      <3>6. QED BY <3>2, <3>4, <3>5, <1>9
    <2>3. DOMAIN listed' \subseteq walks'
      OBVIOUS
    <2>4. QED BY <2>2, <2>3 DEF ListingsOK
  <1>12. QED
    BY <1>2, <1>5, <1>6, <1>7, <1>8, <1>10, <1>11 DEF TreeInv

(* A turn of the controller that may begin walks from a settled root. *)
LEMMA TurnKeeps ==
  ASSUME TreeInv, Remember, UNCHANGED <<os, listed>>,
         walks \subseteq walks', \A w \in walks' : w \in walks \/ Settled(w[3]),
         pid' # None => Settled(pid'),
         owner' \in {Terminal, Wrapper, None}
  PROVE  TreeInv'
  <1>1. UNCHANGED <<life, pidOf, parent, listed>> /\ Alive' = Alive
    BY DEF os, Alive
  <1>2. DOMAIN early' = walks' /\ \A w \in walks' : early'[w] = IF w \in walks THEN early[w] ELSE Alive
    BY DEF Remember
  <1>3. TableOK' /\ PidsApart' /\ FamiliesOK'
    BY <1>1 DEF TreeInv, TableOK, PidsApart, FamiliesOK, Procs, Job
  <1>4. EarlyOK'
    <2>1. ASSUME NEW w \in walks', NEW p \in early'[w]
          PROVE  /\ p \in Procs' /\ life'[p] # "unborn"
                 /\ p \in Alive' => parent'[p] \in early'[w] \cup {System}
      <3>1. CASE w \in walks
        BY <3>1, <1>1, <1>2 DEF TreeInv, EarlyOK, Procs, Job
      <3>2. CASE w \notin walks
        BY <3>2, <1>1, <1>2 DEF TreeInv, FamiliesOK, Alive, Procs, Job
      <3>3. QED BY <3>1, <3>2
    <2>2. QED BY <2>1, <1>2 DEF EarlyOK
  <1>5. RootsAreSettled'
    BY <1>1 DEF TreeInv, RootsAreSettled, Settled
  <1>6. \A w \in DOMAIN listed : Hit(w)' = Hit(w)
    BY <1>1 DEF Hit
  <1>7. HostIsSpared'
    BY <1>1, <1>6 DEF TreeInv, HostIsSpared
  <1>8. ListingsOK'
    <2>1. \A w \in DOMAIN listed : early'[w] = early[w] /\ w \in walks'
      BY <1>2 DEF TreeInv, ListingsOK
    <2>2. QED BY <2>1, <1>1, <1>6 DEF TreeInv, ListingsOK
  <1>9. QED
    BY <1>3, <1>4, <1>5, <1>7, <1>8 DEF TreeInv

LEMMA ListingKeeps ==
  ASSUME TreeInv, NEW walk \in walks, WalkLists(walk)
  PROVE  TreeInv'
  <1>1. /\ walk \notin DOMAIN listed
        /\ UNCHANGED <<pid, walks, life, pidOf, parent, early, owner>>
        /\ Alive' = Alive
    BY DEF WalkLists, vars, fields, os, Alive
  <1>2. PICK pids \in {Targets(walk[3]), {}} :
            listed' = [w \in DOMAIN listed \cup {walk} |-> IF w = walk THEN pids ELSE listed[w]]
    BY DEF WalkLists
  <1>3. DOMAIN listed' = DOMAIN listed \cup {walk} /\ DOMAIN listed' \subseteq walks'
    BY <1>1, <1>2 DEF TreeInv, ListingsOK
  <1>4. listed'[walk] = pids /\ \A w \in DOMAIN listed : listed'[w] = listed[w]
    BY <1>1, <1>2
  <1>5. \A w \in DOMAIN listed : Hit(w)' = Hit(w)
    BY <1>1, <1>4 DEF Hit
  <1>6. TableOK' /\ PidsApart' /\ FamiliesOK' /\ EarlyOK' /\ RootsAreSettled'
    BY <1>1 DEF TreeInv, TableOK, PidsApart, FamiliesOK, EarlyOK, RootsAreSettled, Settled,
                Procs, Job
  <1>7. /\ Terminal \in Procs /\ Wrapper \in Procs /\ Others \subseteq Procs
        /\ Wrapper # Terminal /\ Terminal \notin Others /\ Wrapper \notin Others
        /\ System \notin Procs /\ Alive \subseteq Procs
    BY ProcsAssumption DEF Procs, Job, Alive
  <1>8. \A p \in Hit(walk)' : p \in Below(walk[3]) /\ pidOf[p] # walk[3]
    <2> SUFFICES ASSUME NEW p \in Hit(walk)'
                 PROVE  p \in Below(walk[3]) /\ pidOf[p] # walk[3]
      OBVIOUS
    <2>1. p \in Alive /\ pidOf[p] \in pids
      BY <1>1, <1>4 DEF Hit
    <2>2. pidOf[p] \in PidsOf(Below(walk[3])) /\ pidOf[p] # walk[3]
      BY <2>1, <1>2 DEF Targets
    <2>3. PICK q \in Below(walk[3]) : pidOf[q] = pidOf[p]
      BY <2>2 DEF PidsOf
    <2>4. q \in Alive
      BY <2>3 DEF Below
    <2>5. QED BY <2>1, <2>2, <2>3, <2>4 DEF TreeInv, PidsApart
  <1>9. \A p \in Below(walk[3]) : p \in Alive
    BY DEF Below
  <1>10. pidOf[Terminal] # walk[3] => Terminal \notin Below(walk[3])
    <2> DEFINE rest == {p \in Alive : p # Terminal}
    <2> SUFFICES ASSUME pidOf[Terminal] # walk[3]
                 PROVE  Below(walk[3]) \subseteq rest
      OBVIOUS
    <2>1. \A p \in Alive : parent[p] \in rest => p \in rest
      BY <1>7 DEF TreeInv, FamiliesOK
    <2>2. \A p \in Alive : pidOf[p] = walk[3] => p \in rest
      OBVIOUS
    <2>3. rest \in SUBSET Alive
      OBVIOUS
    <2> HIDE DEF rest
    <2>4. QED BY <2>1, <2>2, <2>3, BelowIsLeast
  <1>11. Terminal \notin Hit(walk)'
    BY <1>8, <1>10
  <1>12. HostIsSpared'
    BY <1>3, <1>5, <1>11 DEF TreeInv, HostIsSpared
  <1>13. ASSUME NEW r \in Alive \cap {Terminal, Wrapper}, pidOf[r] = walk[3]
         PROVE  /\ Hit(walk)' \cap Others = {}
                /\ pids # {} =>
                        \A p \in Alive \cap early[walk] :
                            parent[p] \in Hit(walk)' \cup {r} => p \in Hit(walk)'
    <2>1. \A p \in Alive : pidOf[p] = walk[3] => p = r
      BY <1>13 DEF TreeInv, PidsApart
    <2>2. Hit(walk)' \cap Others = {}
      <3>1. \A p \in Alive : parent[p] \in Alive \ Others => p \in Alive \ Others
        BY <1>7 DEF TreeInv, FamiliesOK
      <3>2. \A p \in Alive : pidOf[p] = walk[3] => p \in Alive \ Others
        BY <2>1, <1>7
      <3>3. Below(walk[3]) \subseteq Alive \ Others
        BY <3>1, <3>2, BelowIsLeast
      <3>4. QED BY <3>3, <1>8
    <2>3. ASSUME pids # {}, NEW p \in Alive, parent[p] \in Hit(walk)' \cup {r}
          PROVE  p \in Hit(walk)'
      <3>1. r \in Below(walk[3])
        BY <1>13, BelowIsTree
      <3>2. parent[p] \in Below(walk[3])
        BY <2>3, <3>1, <1>8
      <3>3. p \in Below(walk[3])
        BY <3>2, BelowIsTree
      <3>4. p # r
        <4>1. parent[p] \in Alive /\ parent[p] # System
          BY <3>2, <1>7, <1>9
        <4>2. p # Terminal
          BY <4>1 DEF TreeInv, FamiliesOK
        <4>3. p = Wrapper => parent[p] = Terminal
          BY <4>1 DEF TreeInv, FamiliesOK
        <4>4. QED BY <4>2, <4>3, <2>3, <1>7, <1>11
      <3>5. pidOf[p] # walk[3]
        BY <2>1, <3>4
      <3>6. pidOf[p] \in Targets(walk[3])
        BY <3>3, <3>5 DEF Targets, PidsOf
      <3>7. QED BY <3>6, <2>3, <1>1, <1>2, <1>4 DEF Hit
    <2>4. QED BY <2>2, <2>3
  <1>14. ListingsOK'
    <2>1. ASSUME NEW w \in DOMAIN listed', NEW r \in Alive' \cap {Terminal, Wrapper},
                 pidOf'[r] = w[3]
          PROVE  /\ Hit(w)' \cap Others = {}
                 /\ listed'[w] # {} =>
                        \A q \in Alive' \cap early'[w] :
                            parent'[q] \in Hit(w)' \cup {r} => q \in Hit(w)'
      <3>1. CASE w = walk
        BY <3>1, <2>1, <1>1, <1>4, <1>13
      <3>2. CASE w \in DOMAIN listed
        BY <3>2, <2>1, <1>1, <1>4, <1>5 DEF TreeInv, ListingsOK
      <3>3. QED BY <3>1, <3>2, <1>3
    <2>2. QED BY <2>1, <1>3 DEF ListingsOK
  <1>15. QED
    BY <1>6, <1>12, <1>14 DEF TreeInv

-----------------------------------------------------------------------------
(* The turns of the controller begin walks only from roots that are settled. *)

(* The walks a call of BeginSteps adds start at its root. *)
LEMMA BegunWalks ==
  ASSUME NEW s, NEW first, NEW next, NEW root, NEW timers, NEW handle,
         BeginSteps(s, first, next, root, timers, handle)
  PROVE  walks \subseteq walks' /\ \A w \in walks' : w \in walks \/ w[3] = root
  BY DEF BeginSteps

LEMMA DispatchedWalks ==
  ASSUME NEW s, NEW root, Dispatch(s, root)
  PROVE  walks \subseteq walks' /\ \A w \in walks' : w \in walks \/ w[3] = root
  BY BegunWalks DEF Dispatch

(* A turn that changes neither pid nor owner, and whose walks start at pid. *)
LEMMA PlainTurnKeeps ==
  ASSUME TreeInv, Remember, UNCHANGED <<os, listed>>, pid' = pid, owner' = owner,
         walks \subseteq walks', \A w \in walks' : w \in walks \/ w[3] = pid,
         pid = None => walks' = walks
  PROVE  TreeInv'
  <1>1. RootsAreSettled
    BY DEF TreeInv
  <1>2. \A w \in walks' : w \in walks \/ Settled(w[3])
    BY <1>1 DEF RootsAreSettled
  <1>3. pid' # None => Settled(pid')
    BY <1>1 DEF RootsAreSettled
  <1>4. owner' \in {Terminal, Wrapper, None}
    BY <1>1 DEF RootsAreSettled
  <1>5. QED BY <1>2, <1>3, <1>4, TurnKeeps

LEMMA ResponseKeepsTree == TreeInv /\ Response => TreeInv'
  <1> SUFFICES ASSUME TreeInv, Response
               PROVE  TreeInv'
    OBVIOUS
  <1>1. Remember /\ UNCHANGED <<os, listed>> /\ walks' = walks
    BY DEF Response, OfController, RunInTerminalResponse
  <1>2. RootsAreSettled
    BY DEF TreeInv
  <1>3. CASE pid' = pid /\ owner' = owner
    <2>1. walks \subseteq walks' /\ \A w \in walks' : w \in walks
      BY <1>1
    <2>2. QED BY <1>1, <1>3, <2>1, PlainTurnKeeps
  <1>4. CASE Terminal \in Alive /\ pid' = pidOf[Terminal] /\ owner' = Terminal
    <2>1. Settled(pid')
      BY <1>4 DEF Settled
    <2>2. QED BY <1>1, <1>4, <2>1, TurnKeeps
  <1>5. CASE Wrapper \in Alive /\ pid' = pidOf[Wrapper] /\ owner' = Wrapper
    <2>1. Settled(pid')
      BY <1>5 DEF Settled, Alive
    <2>2. QED BY <1>1, <1>5, <2>1, TurnKeeps
  <1>6. QED BY <1>3, <1>4, <1>5 DEF Response

LEMMA LookupKeepsTree ==
  ASSUME IInv, TreeInv, NEW s \in Stops, LookupEnds(s)
  PROVE  TreeInv'
  <1>1. Remember /\ UNCHANGED <<os, listed>>
    BY DEF LookupEnds, OfController
  <1>2. RootsAreSettled
    BY DEF TreeInv
  <1>3. phase \in [Stops -> {"none", "lookup", "dispatched", "lost"}]
    BY DEF IInv, TypeOK
  <1>4. CASE phase'[s] = "lost" /\ owner' = owner
    <2>1. pid' = pid /\ walks' = walks
      <3>1. \A root : ~Dispatch(s, root)
        BY <1>3, <1>4 DEF Dispatch
      <3>2. QED BY <3>1 DEF LookupEnds, OfController, LookupReturns
    <2>2. walks \subseteq walks' /\ \A w \in walks' : w \in walks
      BY <2>1
    <2>3. QED BY <1>1, <1>4, <2>1, <2>2, PlainTurnKeeps
  <1>5. CASE phase'[s] = "dispatched" /\ owner' \in Matching /\ pid' = pidOf[owner']
    <2>1. PICK found \in Pids : pid' = found /\ Dispatch(s, found)
      BY <1>3, <1>5 DEF LookupEnds, OfController, LookupReturns
    <2>2. owner' \in {Terminal, Wrapper} /\ owner' \in Alive
      BY <1>5 DEF Matching
    <2>3. Settled(pid')
      BY <1>5, <2>2 DEF Settled, Alive
    <2>4. walks \subseteq walks' /\ \A w \in walks' : w \in walks \/ w[3] = pid'
      BY <2>1, DispatchedWalks
    <2>5. QED BY <1>1, <2>2, <2>3, <2>4, TurnKeeps
  <1>6. QED BY <1>4, <1>5 DEF LookupEnds

LEMMA DisconnectKeepsTree ==
  ASSUME TreeInv, NEW s \in Stops, Elsewhere(Disconnect(s))
  PROVE  TreeInv'
  <1>1. Remember /\ UNCHANGED <<os, listed>> /\ pid' = pid /\ owner' = owner
    BY DEF Elsewhere, OfController, Disconnect
  <1>2. /\ walks \subseteq walks' /\ \A w \in walks' : w \in walks \/ w[3] = pid
        /\ pid = None => walks' = walks
    <2>1. CASE HasPid /\ Dispatch(s, pid)
      BY <2>1, DispatchedWalks DEF HasPid
    <2>2. CASE UNCHANGED walks
      BY <2>2
    <2>3. QED BY <2>1, <2>2 DEF Elsewhere, OfController, Disconnect
  <1>3. QED BY <1>1, <1>2, PlainTurnKeeps

LEMMA TimerKeepsTree ==
  ASSUME IInv, TreeInv, NEW t \in DOMAIN armed, Elsewhere(TimerFires(t[1], t[2]))
  PROVE  TreeInv'
  <1>1. Remember /\ UNCHANGED <<os, listed>> /\ pid' = pid /\ owner' = owner
    BY DEF Elsewhere, OfController, TimerFires
  <1>2. pid # None
    <2>1. t \in Timers
      BY DEF IInv, TypeOK
    <2>2. t[1] \in Stops
      BY <2>1 DEF Timers
    <2>3. phase[t[1]] = "dispatched"
      BY DEF IInv, TimersOK
    <2>4. QED BY <2>2, <2>3, ConstantsAssumption DEF IInv, RunningOK
  <1>3. walks \subseteq walks' /\ \A w \in walks' : w \in walks \/ w[3] = pid
    <2>1. CASE \E next \in t[2] + 1..Last + 1 :
                   BeginSteps(t[1], t[2], next, pid, Disarm(armed, <<t[1], t[2]>>),
                              HandleAfterFiring(pendingKillTimer))
      BY <2>1, BegunWalks
    <2>2. CASE UNCHANGED walks
      BY <2>2
    <2>3. QED BY <2>1, <2>2 DEF Elsewhere, OfController, TimerFires
  <1>4. QED BY <1>1, <1>2, <1>3, PlainTurnKeeps

LEMMA WalkSignalsKeeps ==
  ASSUME TreeInv, NEW walk \in walks, WalkSignals(walk)
  PROVE  TreeInv'
  <1>1. /\ walk \in DOMAIN listed /\ walks' = walks \ {walk}
        /\ UNCHANGED <<pid, owner>> /\ Remember
        /\ DOMAIN listed' = DOMAIN listed \ {walk}
        /\ \A w \in DOMAIN listed' : listed'[w] = listed[w]
    BY DEF WalkSignals, WalkReturns, fields
  <1>2. PICK dead \in SUBSET Alive :
            Bury(dead) \/ (dead = {} /\ UNCHANGED <<life, pidOf, parent>>)
    <2>1. CASE Bury(Hit(walk))
      BY <2>1 DEF Hit
    <2>2. CASE UNCHANGED <<life, pidOf, parent>>
      BY <2>2
    <2>3. QED BY <2>1, <2>2 DEF WalkSignals
  <1>3. DOMAIN early' = walks' /\ \A w \in walks' : early'[w] = early[w]
    BY <1>1 DEF Remember
  <1>4. DOMAIN listed' \subseteq DOMAIN listed \cap walks'
    BY <1>1 DEF TreeInv, ListingsOK
  <1>5. walks' \subseteq walks
    BY <1>1
  <1>6. QED BY <1>1, <1>2, <1>3, <1>4, <1>5, DeathKeeps

LEMMA TreeInitEstablishes == TreeInit => TreeInv
  <1> SUFFICES ASSUME TreeInit
               PROVE  TreeInv
    OBVIOUS
  <1>1. /\ Terminal \in Procs /\ Wrapper \in Procs /\ Others \subseteq Procs
    BY DEF Procs, Job
  <1>2. Alive = {} /\ walks = {} /\ pid = None
    BY DEF TreeInit, Init, Alive
  <1>3. DOMAIN listed = {} /\ DOMAIN early = {}
    BY DEF TreeInit
  <1>4. TableOK /\ PidsApart
    BY <1>2 DEF TreeInit, TableOK, PidsApart
  <1>5. FamiliesOK /\ EarlyOK
    BY <1>1, <1>2, <1>3 DEF TreeInit, FamiliesOK, EarlyOK
  <1>6. RootsAreSettled
    BY <1>1, <1>2 DEF TreeInit, RootsAreSettled
  <1>7. HostIsSpared /\ ListingsOK
    BY <1>2, <1>3 DEF HostIsSpared, ListingsOK
  <1>8. QED BY <1>4, <1>5, <1>6, <1>7 DEF TreeInv

LEMMA TreeNextKeeps == IInv /\ TreeInv /\ [TreeNext]_allVars => TreeInv'
  <1> SUFFICES ASSUME IInv, TreeInv, [TreeNext]_allVars
               PROVE  TreeInv'
    OBVIOUS
  <1>1. /\ {Terminal, Wrapper, Program} \subseteq Procs
        /\ Kids \subseteq Procs /\ Others \subseteq Procs
        /\ Terminal \notin {Wrapper, Program} \cup Kids \cup Others
        /\ ({Wrapper, Program} \cup Kids) \cap Others = {}
        /\ Wrapper \notin {Program} \cup Kids
    BY ProcsAssumption DEF Procs, Job
  <1>2. CASE TerminalStarts
    BY <1>1, <1>2, BirthKeeps DEF TerminalStarts
  <1>3. CASE WrapperStarts
    BY <1>1, <1>3, BirthKeeps DEF WrapperStarts
  <1>4. CASE ProgramStarts
    BY <1>1, <1>4, BirthKeeps DEF ProgramStarts
  <1>5. CASE \E k \in Kids, father \in {Program} \cup Kids : Forks(k, father)
    BY <1>1, <1>5, BirthKeeps DEF Forks
  <1>6. CASE \E o \in Others, father \in Others \cup {System} : OtherStarts(o, father)
    BY <1>1, <1>6, BirthKeeps DEF OtherStarts
  <1>7. ASSUME NEW p \in Procs, Exits(p)
        PROVE  TreeInv'
    <2>1. {p} \in SUBSET Alive /\ Bury({p})
      BY <1>7 DEF Exits
    <2>2. /\ UNCHANGED <<pid, owner>>
          /\ walks' = walks /\ early' = early /\ listed' = listed
      BY <1>7 DEF Exits, Unobserved, vars, fields
    <2>3. DOMAIN early = walks /\ DOMAIN listed \subseteq walks
      BY DEF TreeInv, EarlyOK, ListingsOK
    <2>4. /\ walks' \subseteq walks
          /\ DOMAIN early' = walks' /\ \A w \in walks' : early'[w] = early[w]
          /\ DOMAIN listed' \subseteq DOMAIN listed \cap walks'
          /\ \A w \in DOMAIN listed' : listed'[w] = listed[w]
      BY <2>2, <2>3
    <2>5. QED BY <2>1, <2>2, <2>4, DeathKeeps
  <1>8. CASE Request \/ Exited \/ Elsewhere(AdapterExits) \/ Elsewhere(Tick)
    <2>1. Remember /\ UNCHANGED <<os, listed>> /\ pid' = pid /\ owner' = owner /\ walks' = walks
      BY <1>8 DEF Request, Exited, Elsewhere, OfController, RunInTerminalRequest, ExitedEvent,
                  AdapterExits, Tick, fields
    <2>2. walks \subseteq walks' /\ \A w \in walks' : w \in walks
      BY <2>1
    <2>3. QED BY <2>1, <2>2, PlainTurnKeeps
  <1>9. CASE Response
    BY <1>9, ResponseKeepsTree
  <1>10. CASE \E s \in Stops : Elsewhere(Disconnect(s)) \/ LookupEnds(s)
    BY <1>10, DisconnectKeepsTree, LookupKeepsTree
  <1>11. CASE \E t \in DOMAIN armed : Elsewhere(TimerFires(t[1], t[2]))
    BY <1>11, TimerKeepsTree
  <1>12. CASE \E walk \in walks : WalkLists(walk) \/ WalkSignals(walk)
    BY <1>12, ListingKeeps, WalkSignalsKeeps
  <1>13. CASE UNCHANGED allVars
    BY <1>13 DEF allVars, vars, fields, tree, os, TreeInv, TableOK, PidsApart, FamiliesOK,
                 EarlyOK, RootsAreSettled, HostIsSpared, ListingsOK, Settled, Hit, Alive, Procs, Job
  <1>14. QED
    BY <1>2, <1>3, <1>4, <1>5, <1>6, <1>7, <1>8, <1>9, <1>10, <1>11, <1>12, <1>13 DEF TreeNext

THEOREM TreeInvariance == TreeSpec => []TreeInv
  <1>1. TreeSpec => []IInv
    BY ImplementsController, Invariance, PTL
  <1>2. QED BY <1>1, TreeInitEstablishes, TreeNextKeeps, PTL DEF TreeSpec

-----------------------------------------------------------------------------
(* The process that hosts the terminal is never signalled, whatever forks,     *)
(* exits and takes a free pid between a listing and its signals.               *)
THEOREM HostIsAlwaysSpared == TreeSpec => []HostIsSpared
  <1>1. TreeInv => HostIsSpared
    BY DEF TreeInv
  <1>2. QED BY <1>1, TreeInvariance, PTL

(* While the root lives only processes of the launch are signalled.  That a     *)
(* root was settled before any walk began is what makes it inductive: a free    *)
(* pid that a walk still names as its root goes to no later terminal or wrapper. *)
THEOREM OutsidersAreAlwaysSpared == TreeSpec => []OutsidersAreSpared
  <1>1. TreeInv => OutsidersAreSpared
    <2> SUFFICES ASSUME TreeInv, NEW walk \in DOMAIN listed, RootLives(walk)
                 PROVE  Hit(walk) \cap Others = {}
      BY DEF OutsidersAreSpared
    <2>1. owner \in Alive \cap {Terminal, Wrapper} /\ pidOf[owner] = walk[3]
      BY ProcsAssumption DEF RootLives, TreeInv, RootsAreSettled, Alive
    <2>2. QED BY <2>1 DEF TreeInv, ListingsOK
  <1>2. QED BY <1>1, TreeInvariance, PTL

(* A process that was there when a step began and still hangs below the root    *)
(* gets the signal, unless pidtree fails.                                       *)
THEOREM DescendantsAreAlwaysSignalled == TreeSpec => []DescendantsAreSignalled
  <1>1. TreeInv => DescendantsAreSignalled
    <2> SUFFICES ASSUME TreeInv, NEW walk \in DOMAIN listed, RootLives(walk), listed[walk] # {}
                 PROVE  (early[walk] \cap Below(walk[3])) \ {owner} \subseteq Hit(walk)
      BY DEF DescendantsAreSignalled
    <2> DEFINE reached ==
            {p \in Alive : p = owner \/ p \in Hit(walk) \/ p \notin early[walk]}
    <2>1. owner \in Alive \cap {Terminal, Wrapper} /\ pidOf[owner] = walk[3]
      BY ProcsAssumption DEF RootLives, TreeInv, RootsAreSettled, Alive
    <2>2. \A p \in Alive \cap early[walk] : parent[p] \in Hit(walk) \cup {owner} => p \in Hit(walk)
      BY <2>1 DEF TreeInv, ListingsOK
    <2>3. ASSUME NEW p \in Alive, parent[p] \in reached
          PROVE  p \in reached
      <3>1. CASE p \notin early[walk]
        BY <3>1
      <3>2. CASE p \in early[walk]
        <4>1. walk \in walks
          BY DEF TreeInv, ListingsOK
        <4>2. parent[p] \in early[walk] \cup {System}
          BY <3>2, <4>1 DEF TreeInv, EarlyOK
        <4>3. parent[p] # System
          BY <2>3, ProcsAssumption DEF Alive
        <4>4. parent[p] \in Hit(walk) \cup {owner}
          BY <2>3, <4>2, <4>3
        <4>5. QED BY <2>2, <3>2, <4>4
      <3>3. QED BY <3>1, <3>2
    <2>4. \A p \in Alive : pidOf[p] = walk[3] => p \in reached
      BY <2>1 DEF TreeInv, PidsApart
    <2>5. reached \in SUBSET Alive
      OBVIOUS
    <2>6. Below(walk[3]) \subseteq reached
      <3> HIDE DEF reached
      <3>1. QED BY <2>3, <2>4, <2>5, BelowIsLeast
    <2>7. QED BY <2>6
  <1>2. QED BY <1>1, TreeInvariance, PTL

=============================================================================
