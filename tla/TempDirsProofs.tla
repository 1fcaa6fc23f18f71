---------------------------- MODULE TempDirsProofs ----------------------------
(***************************************************************************)
(* What the temp directories guarantee for any hosts, sessions, pids and   *)
(* directories: a sweep takes nothing from a live host and misses nothing  *)
(* it could recognise, an env file that a terminal was given names its     *)
(* owner until its removal begins, and whatever a host has on disk is      *)
(* known to one of its clean-ups and, if it holds an env, to a session.    *)
(*                                                                         *)
(* The invariant is a conjunction over the hosts, and the proof relies on  *)
(* what the hosts leave each other alone: Spares(h) is what every action   *)
(* of host h guarantees to all the others, and with it what is true of     *)
(* another host stays true.  What an action does to its own host is shown  *)
(* action by action.                                                       *)
(***************************************************************************)
EXTENDS TempDirs, TLAPS

Entry == [files: SUBSET Files, pid: Pids \cup {None}]

(* Names are used once, and .pid says nothing or names the host that made    *)
(* the directory.                                                            *)
DirInv(d) ==
    /\ disk[d] # None => owner[d] # None
    /\ owner[d] # None => host[owner[d]] # "down"
    /\ disk[d] # None => disk[d].pid \in {None, pid[owner[d]]}
    /\ d \in handed => owner[d] # None
    /\ d \in (handed \cap OnDisk) \ removing => disk[d].pid = pid[owner[d]]

SessionInv(s) ==
    /\ session[s].phase = "none" <=> session[s].host = None
    /\ session[s].phase = "none" => session[s].dirs = {}
    /\ \A d \in session[s].dirs : owner[d] = session[s].host

GlobalInv ==
    /\ TypeOK
    /\ disk \in [Dirs -> Entry \cup {None}]
    /\ \A d \in Dirs : DirInv(d)
    /\ \A s \in Sessions : SessionInv(s)

(* A host that is not up holds nothing. *)
LifeOK(h) ==
    /\ host[h] = "down" => pid[h] = None /\ due[h] = {}
    /\ host[h] # "down" => pid[h] \in Pids
    /\ host[h] # "up" => task[h] = Idle /\ registry[h] = {} /\ templates[h] = {}

(* What a sweep has read stays the pid of the owner, which is dead once the   *)
(* pid is found to be nobody's.  A host that sweeps owns nothing yet.         *)
SweepOK(h) ==
    /\ task[h].stage \in {"scan", "judge", "remove"}
    /\ task[h].stage # "scan" => task[h].dir \in Dirs /\ owner[task[h].dir] # None
    /\ task[h].stage = "judge" => task[h].read = pid[owner[task[h].dir]]
    /\ task[h].stage = "remove" => host[owner[task[h].dir]] = "dead"
    /\ \A d \in Dirs : owner[d] # h

(* A rewrite has its directory to itself, and its session has not ended. *)
RewriteOK(h) ==
    /\ task[h].stage \in {"made", "env", "pid"}
    /\ task[h].dir \in OnDisk /\ owner[task[h].dir] = h
    /\ task[h].session \in Sessions
    /\ session[task[h].session].host = h /\ session[task[h].session].phase # "exited"

(* Any other task removes what its own host has made. *)
CleanOK(h) ==
    /\ task[h].stage \in {"scan", "remove"}
    /\ task[h].stage = "remove" => task[h].dir \in Dirs /\ owner[task[h].dir] = h
    /\ task[h].kind = "idle" => task[h].stage = "scan"
    /\ task[h].kind = "undo" => task[h].stage = "remove"
    /\ task[h].kind = "clean" =>
        task[h].session \in Sessions /\ session[task[h].session].host = h
    /\ task[h].kind \in {"drain", "exit"} => \A d \in task[h].todo : owner[d] = h

TaskOK(h) ==
    /\ task[h].kind = "sweep" => SweepOK(h)
    /\ task[h].kind = "rewrite" => RewriteOK(h)
    /\ task[h].kind \notin {"sweep", "rewrite"} => CleanOK(h)
    /\ task[h].stage = "scan" => task[h].dir = None
    /\ task[h].stage = "remove" => task[h].dir \in removing \/ task[h].dir \notin OnDisk

OwnDirs(h) == \A d \in registry[h] \cup templates[h] : owner[d] = h

(* What the task of a host has in hand. *)
InHand(h, d) ==
    \/ task[h].kind # "sweep" /\ d = task[h].dir
    \/ task[h].kind \in {"drain", "exit"} /\ d \in task[h].todo

(* CleanupFindsAll, for a host that is busy. *)
Found(h) ==
    host[h] = "up" =>
        \A d \in OnDisk : owner[d] = h =>
            d \in registry[h] \cup templates[h] \cup stuck \/ InHand(h, d)

(* The session that will clean d up, or is just doing so. *)
HeldBy(h, d, s) ==
    /\ d \in session[s].dirs
    /\ \/ session[s].phase # "exited"
       \/ task[h].kind = "clean" /\ task[h].session = s

(* NothingOutlivesItsSession, for a host that is busy. *)
Held(h) ==
    host[h] = "up" =>
        \A d \in OnDisk \ stuck : owner[d] = h /\ "env" \in disk[d].files =>
            (\E s \in Sessions : HeldBy(h, d, s)) \/ InHand(h, d)

Swept(d) == d \notin OnDisk \/ d \in stuck \/ disk[d].pid = None \/ PidUsedAgain(d)

(* A sweep has a leftover still before it or in hand. *)
Pending(h, d) ==
    /\ task[h].kind = "sweep"
    /\ d \in task[h].todo \/ (task[h].stage \in {"judge", "remove"} /\ d = task[h].dir)

(* SweepIsComplete, for a sweep that is not through. *)
DueOK(h) ==
    \A d \in due[h] :
        /\ owner[d] # None /\ host[owner[d]] = "dead"
        /\ host[h] = "up" => Swept(d) \/ Pending(h, d)

HostInv(h) ==
    LifeOK(h) /\ TaskOK(h) /\ OwnDirs(h) /\ Found(h) /\ Held(h) /\ DueOK(h)

IInv == GlobalInv /\ \A h \in Hosts : HostInv(h)

-----------------------------------------------------------------------------
(***************************************************************************)
(* What an action of host h guarantees to the other hosts.                 *)
(***************************************************************************)

SparesHost(g) ==
    /\ host'[g] = host[g] /\ pid'[g] = pid[g] /\ task'[g] = task[g]
    /\ registry'[g] = registry[g] /\ templates'[g] = templates[g] /\ due'[g] = due[g]

(* A directory does not come back, is not forgotten while it is on disk, is   *)
(* named by nobody but its owner, and is its owner's alone while that is up.  *)
SparesDir(h, d) ==
    /\ owner'[d] = owner[d] \/ (owner[d] = None /\ owner'[d] = h)
    /\ owner[d] # None /\ disk'[d] # None =>
        /\ disk[d] # None
        /\ d \in stuck => d \in stuck'
        /\ d \in removing => d \in removing'
        /\ owner[d] # h /\ disk[d].pid = None => disk'[d].pid = None
    /\ owner[d] \in Hosts \ {h} /\ host[owner[d]] = "up" => disk'[d] = disk[d]

Spares(h) ==
    /\ \A g \in Hosts \ {h} : SparesHost(g)
    /\ host[h] # "dead" /\ host'[h] \in {"up", "dead"}
    /\ host[h] # "down" => pid'[h] = pid[h]
    /\ \A d \in Dirs : SparesDir(h, d)
    /\ \A s \in Sessions : session[s].host \in Hosts \ {h} => session'[s] = session[s]

(* None is no pid, no host and no entry of a directory. *)
LEMMA NoneIsNothing ==
    /\ None \notin Hosts /\ None \notin Sessions /\ None \notin Pids /\ None \notin Dirs
    /\ None \notin Entry
BY ConstantsAssumption DEF Dirs, Entry

(* A host that has not started owns nothing, and whoever owns a directory    *)
(* has a pid for good.                                                       *)
LEMMA OwnersStay ==
  ASSUME IInv, NEW h \in Hosts, Spares(h), NEW d \in Dirs, owner[d] # None
  PROVE  /\ owner'[d] = owner[d] /\ owner[d] \in Hosts
         /\ pid'[owner[d]] = pid[owner[d]] /\ pid[owner[d]] \in Pids
         /\ host'[owner[d]] # "down"
         /\ host[owner[d]] = "dead" => owner[d] # h /\ host'[owner[d]] = "dead"
  BY DEF IInv, GlobalInv, TypeOK, DirInv, HostInv, LifeOK, Spares, SparesHost, SparesDir

(* A pid that is used again is never again the dead owner's alone. *)
LEMMA UseStays ==
  ASSUME IInv, NEW h \in Hosts, Spares(h), NEW d \in Dirs, owner[d] # None, PidUsedAgain(d)
  PROVE  PidUsedAgain(d)'
  <1>1. PICK g \in Hosts \ {owner[d]} : pid[g] = pid[owner[d]]
    BY DEF PidUsedAgain
  <1>2. pid[owner[d]] \in Pids /\ owner'[d] = owner[d] /\ pid'[owner[d]] = pid[owner[d]]
    BY OwnersStay
  <1>3. host[g] # "down"
    BY <1>1, <1>2, NoneIsNothing DEF IInv, HostInv, LifeOK
  <1>4. pid'[g] = pid[g]
    BY <1>3 DEF Spares, SparesHost
  <1>q. QED BY <1>1, <1>2, <1>4 DEF PidUsedAgain

LEMMA SweptStays ==
  ASSUME IInv, NEW h \in Hosts, Spares(h), NEW d \in Dirs, owner[d] \in Hosts \ {h}, Swept(d)
  PROVE  Swept(d)'
  <1>1. owner[d] # None
    BY NoneIsNothing
  <1>2. CASE PidUsedAgain(d)
    BY <1>1, <1>2, UseStays DEF Swept
  <1>3. CASE d \notin OnDisk \/ d \in stuck \/ disk[d].pid = None
    BY <1>1, <1>3 DEF Swept, OnDisk, Spares, SparesDir
  <1>q. QED BY <1>2, <1>3 DEF Swept

(* What is true of a host stays true under the actions of the others. *)
LEMMA OthersKeep ==
  ASSUME IInv, NEW h \in Hosts, Spares(h), NEW g \in Hosts \ {h}
  PROVE  HostInv(g)'
  <1> USE NoneIsNothing
  <1>1. HostInv(g) /\ SparesHost(g)
    BY DEF IInv, Spares
  <1>2. LifeOK(g)'
    BY <1>1 DEF HostInv, SparesHost, LifeOK, Idle
  <1>3. /\ task[g] \in Tasks /\ registry[g] \subseteq Dirs
        /\ templates[g] \subseteq Dirs /\ due[g] \subseteq Dirs
    BY DEF IInv, GlobalInv, TypeOK
  <1>4. ASSUME NEW d \in Dirs, owner[d] # None
        PROVE  /\ owner'[d] = owner[d] /\ pid'[owner[d]] = pid[owner[d]]
               /\ host[owner[d]] = "dead" => host'[owner[d]] = "dead"
    BY <1>4, OwnersStay
  <1>5. TaskOK(g)'
    <2>1. task[g].kind = "sweep" => SweepOK(g)'
      BY <1>1, <1>3, <1>4 DEF HostInv, TaskOK, SweepOK, SparesHost, Spares, SparesDir, Tasks
    <2>2. task[g].kind = "rewrite" => RewriteOK(g)'
      BY <1>1, <1>3, <1>4 DEF HostInv, TaskOK, RewriteOK, SparesHost, Spares, SparesDir,
         Tasks, OnDisk, LifeOK, Idle
    <2>3. task[g].kind \notin {"sweep", "rewrite"} => CleanOK(g)'
      BY <1>1, <1>3, <1>4 DEF HostInv, TaskOK, CleanOK, SparesHost, Spares, SparesDir, Tasks
    <2>4. task[g].stage = "remove" => task[g].dir \in removing' \/ task[g].dir \notin OnDisk'
      <3>1. SUFFICES ASSUME task[g].stage = "remove", task[g].dir \in OnDisk'
                     PROVE  task[g].dir \in removing'
        OBVIOUS
      <3>2. task[g].dir \in Dirs /\ owner[task[g].dir] # None
        BY <1>1, <3>1 DEF HostInv, TaskOK, SweepOK, RewriteOK, CleanOK, OnDisk
      <3>q. QED BY <1>1, <3>1, <3>2 DEF HostInv, TaskOK, Spares, SparesDir, OnDisk
    <2>q. QED BY <1>1, <2>1, <2>2, <2>3, <2>4 DEF HostInv, TaskOK, SparesHost
  <1>6. OwnDirs(g)'
    BY <1>1, <1>3, <1>4 DEF HostInv, OwnDirs, SparesHost
  <1>7. ASSUME NEW d \in OnDisk', owner'[d] = g, host[g] = "up"
        PROVE  d \in OnDisk /\ owner[d] = g /\ disk'[d] = disk[d] /\ (d \in stuck => d \in stuck')
    BY <1>7 DEF Spares, SparesDir, OnDisk
  <1>8. Found(g)'
    BY <1>1, <1>7 DEF HostInv, Found, InHand, SparesHost
  <1>9. Held(g)'
    <2>1. SUFFICES ASSUME host[g] = "up", NEW d \in OnDisk', d \notin stuck', owner'[d] = g,
                          "env" \in disk'[d].files
                   PROVE  (\E s \in Sessions : HeldBy(g, d, s)') \/ InHand(g, d)'
      BY <1>1 DEF Held, SparesHost
    <2>2. (\E s \in Sessions : HeldBy(g, d, s)) \/ InHand(g, d)
      BY <1>1, <1>7, <2>1 DEF HostInv, Held
    <2>3. CASE InHand(g, d)
      BY <1>1, <2>3 DEF InHand, SparesHost
    <2>4. ASSUME NEW s \in Sessions, HeldBy(g, d, s)
          PROVE  HeldBy(g, d, s)'
      <3>1. session[s].host = g
        BY <1>7, <2>1, <2>4 DEF HeldBy, IInv, GlobalInv, SessionInv
      <3>2. session'[s] = session[s]
        BY <3>1 DEF Spares
      <3>q. QED BY <1>1, <2>4, <3>2 DEF HeldBy, SparesHost
    <2>q. QED BY <2>2, <2>3, <2>4
  <1>10. DueOK(g)'
    <2>1. SUFFICES ASSUME NEW d \in due[g]
                   PROVE  /\ owner'[d] # None /\ host'[owner'[d]] = "dead"
                          /\ host[g] = "up" => Swept(d)' \/ Pending(g, d)'
      BY <1>1 DEF DueOK, SparesHost
    <2>2. d \in Dirs /\ owner[d] # None /\ host[owner[d]] = "dead"
      BY <1>1, <1>3, <2>1 DEF HostInv, DueOK
    <2>3. owner[d] \in Hosts \ {h}
      BY <2>2, OwnersStay
    <2>4. Pending(g, d) => Pending(g, d)'
      BY <1>1 DEF Pending, SparesHost
    <2>q. QED BY <1>1, <1>4, <2>1, <2>2, <2>3, <2>4, SweptStays DEF HostInv, DueOK
  <1>q. QED BY <1>2, <1>5, <1>6, <1>8, <1>9, <1>10 DEF HostInv

(* So an action keeps the invariant that spares the other hosts and keeps    *)
(* what is true of its own.                                                  *)
LEMMA ActionKeeps ==
  ASSUME IInv, NEW h \in Hosts, Spares(h), GlobalInv', HostInv(h)'
  PROVE  IInv'
  BY OthersKeep DEF IInv

-----------------------------------------------------------------------------
(***************************************************************************)
(* What an action has to show.  Most of them keep their host up and change *)
(* nothing but its own objects, and one directory or none.                 *)
(***************************************************************************)

SessionRecords ==
    [host: Hosts \cup {None}, dirs: SUBSET Dirs, phase: {"none", "live", "stopped", "exited"}]

(* A step of a host that is up and stays up, in its own objects. *)
OwnObjects(h) ==
    /\ host[h] = "up" /\ UNCHANGED <<host, pid>> /\ active' \subseteq active
    /\ due' = due \/ (due' = [due EXCEPT ![h] = due'[h]] /\ due'[h] \subseteq due[h])
    /\ task' = [task EXCEPT ![h] = task'[h]] /\ task'[h] \in Tasks
    /\ registry' = [registry EXCEPT ![h] = registry'[h]] /\ registry'[h] \subseteq Dirs
    /\ templates' = [templates EXCEPT ![h] = templates'[h]] /\ templates'[h] \subseteq Dirs
    /\ session' \in [Sessions -> SessionRecords]
    /\ \A s \in Sessions : session[s].host \in Hosts \ {h} => session'[s] = session[s]

(* What the host knew of d it still knows, or has in hand. *)
Remembers(h, d) ==
    /\ InHand(h, d) => InHand(h, d)'
    /\ d \in registry[h] => d \in registry'[h] \/ InHand(h, d)'
    /\ d \in templates[h] => d \in templates'[h]
    /\ \A s \in Sessions : HeldBy(h, d, s) => HeldBy(h, d, s)' \/ InHand(h, d)'

(* A sweep drops no leftover that is due and not swept. *)
SweepsOn(h) ==
    \A d \in due[h] :
        Pending(h, d) => Swept(d) \/ Swept(d)' \/ Pending(h, d)' \/ d \notin due'[h]

SessionsOK == \A s \in Sessions : SessionInv(s)

QuietDisk == UNCHANGED <<disk, owner, stuck, handed>> /\ removing \subseteq removing'

OneDir(d) ==
    /\ disk' = [disk EXCEPT ![d] = disk'[d]] /\ disk'[d] \in Entry \cup {None}
    /\ owner' = [owner EXCEPT ![d] = owner'[d]] /\ owner'[d] \in Hosts \cup {None}
    /\ stuck' \ {d} = stuck \ {d} /\ removing' \ {d} = removing \ {d}
    /\ handed' \ {d} = handed \ {d}

(* If d is its own, the host knows it, and if it holds an env, so does a session. *)
Accounted(h, d) ==
    owner[d] = h /\ d \in OnDisk \ stuck =>
        /\ d \in registry[h] \cup templates[h] \/ InHand(h, d)
        /\ "env" \in disk[d].files => (\E s \in Sessions : HeldBy(h, d, s)) \/ InHand(h, d)

RemembersAllBut(h, dirs) == \A d \in OnDisk \ dirs : owner[d] = h => Remembers(h, d)

(* What a sweep had found, and the directory in hand apart, stays swept. *)
LEMMA DueKeeps ==
  ASSUME IInv, NEW h \in Hosts, Spares(h), host[h] = "up", due'[h] \subseteq due[h],
         SweepsOn(h)
  PROVE  DueOK(h)'
  <1>1. SUFFICES ASSUME NEW d \in due'[h]
                 PROVE  /\ owner'[d] # None /\ host'[owner'[d]] = "dead"
                        /\ Swept(d)' \/ Pending(h, d)'
    BY DEF DueOK
  <1>2. /\ d \in due[h] /\ d \in Dirs /\ owner[d] # None /\ host[owner[d]] = "dead"
        /\ Swept(d) \/ Pending(h, d)
    BY DEF IInv, GlobalInv, TypeOK, HostInv, DueOK
  <1>3. /\ owner'[d] = owner[d] /\ owner[d] \in Hosts \ {h} /\ host'[owner[d]] = "dead"
    BY <1>2, OwnersStay
  <1>4. Swept(d) => Swept(d)'
    BY <1>2, <1>3, SweptStays
  <1>q. QED BY <1>2, <1>3, <1>4, NoneIsNothing DEF SweepsOn

LEMMA WorkKeeps ==
  ASSUME IInv, NEW h \in Hosts, OwnObjects(h), GlobalInv', \A d \in Dirs : SparesDir(h, d),
         TaskOK(h)', OwnDirs(h)', Found(h)', Held(h)', SweepsOn(h)
  PROVE  IInv'
  <1>1. task \in [Hosts -> Tasks] /\ registry \in [Hosts -> SUBSET Dirs]
        /\ templates \in [Hosts -> SUBSET Dirs] /\ due \in [Hosts -> SUBSET Dirs]
    BY DEF IInv, GlobalInv, TypeOK
  <1>2. \A g \in Hosts \ {h} : SparesHost(g)
    BY <1>1 DEF OwnObjects, SparesHost
  <1>3. Spares(h)
    BY <1>2 DEF Spares, OwnObjects
  <1>4. LifeOK(h)'
    BY DEF OwnObjects, IInv, HostInv, LifeOK
  <1>5. DueOK(h)'
    BY <1>3, DueKeeps DEF OwnObjects
  <1>q. QED BY <1>3, <1>4, <1>5, ActionKeeps DEF HostInv

(* An action that leaves the disk as it is. *)
LEMMA QuietKeeps ==
  ASSUME IInv, NEW h \in Hosts, OwnObjects(h), QuietDisk, removing' \subseteq Dirs,
         SessionsOK', TaskOK(h)', OwnDirs(h)', RemembersAllBut(h, {}), SweepsOn(h)
  PROVE  IInv'
  <1>1. TypeOK'
    BY DEF IInv, GlobalInv, TypeOK, OwnObjects, QuietDisk, SessionRecords
  <1>2. \A d \in Dirs : DirInv(d)'
    BY DEF IInv, GlobalInv, DirInv, OwnObjects, QuietDisk, OnDisk
  <1>3. GlobalInv'
    BY <1>1, <1>2 DEF IInv, GlobalInv, QuietDisk, SessionsOK
  <1>4. \A d \in Dirs : SparesDir(h, d)
    BY DEF SparesDir, QuietDisk
  <1>5. Found(h) /\ Held(h) /\ OnDisk' = OnDisk
    BY DEF IInv, HostInv, QuietDisk, OnDisk
  <1>6. Found(h)'
    BY <1>5 DEF Found, RemembersAllBut, Remembers, OwnObjects, QuietDisk
  <1>7. Held(h)'
    <2>1. SUFFICES ASSUME NEW d \in OnDisk, d \notin stuck, owner[d] = h,
                          "env" \in disk[d].files
                   PROVE  (\E s \in Sessions : HeldBy(h, d, s)') \/ InHand(h, d)'
      BY <1>5 DEF Held, QuietDisk
    <2>2. (\E s \in Sessions : HeldBy(h, d, s)) \/ InHand(h, d)
      BY <1>5, <2>1 DEF Held, OwnObjects
    <2>q. QED BY <2>1, <2>2 DEF RemembersAllBut, Remembers
  <1>q. QED BY <1>3, <1>4, <1>6, <1>7, WorkKeeps

(* An action on the directory d. *)
LEMMA OneDirKeeps ==
  ASSUME IInv, NEW h \in Hosts, OwnObjects(h), NEW d \in Dirs, OneDir(d),
         SessionsOK', SparesDir(h, d), DirInv(d)', TaskOK(h)', OwnDirs(h)',
         RemembersAllBut(h, {d}), Accounted(h, d)', SweepsOn(h)
  PROVE  IInv'
  <1>1. /\ disk \in [Dirs -> Entry \cup {None}] /\ owner \in [Dirs -> Hosts \cup {None}]
        /\ handed \subseteq Dirs /\ removing \subseteq Dirs /\ stuck \subseteq Dirs
    BY DEF IInv, GlobalInv, TypeOK
  <1>2. disk' \in [Dirs -> Entry \cup {None}] /\ owner' \in [Dirs -> Hosts \cup {None}]
    BY <1>1 DEF OneDir
  <1>3. handed' \subseteq Dirs /\ removing' \subseteq Dirs /\ stuck' \subseteq Dirs
    BY <1>1 DEF OneDir
  <1>4. /\ active' \subseteq Hosts /\ task' \in [Hosts -> Tasks]
        /\ registry' \in [Hosts -> SUBSET Dirs] /\ templates' \in [Hosts -> SUBSET Dirs]
    BY DEF OwnObjects, IInv, GlobalInv, TypeOK
  <1>5. TypeOK'
    BY <1>2, <1>3, <1>4 DEF IInv, GlobalInv, TypeOK, OwnObjects, Entry, SessionRecords
  <1>6. ASSUME NEW x \in Dirs \ {d}
        PROVE  /\ disk'[x] = disk[x] /\ owner'[x] = owner[x]
               /\ x \in stuck' <=> x \in stuck
               /\ x \in removing' <=> x \in removing
               /\ x \in handed' <=> x \in handed
               /\ x \in OnDisk' <=> x \in OnDisk
    BY <1>1 DEF OneDir, OnDisk
  <1>7. ASSUME NEW x \in Dirs \ {d} PROVE DirInv(x)' /\ SparesDir(h, x)
    <2>1. DirInv(x)
      BY DEF IInv, GlobalInv
    <2>q. QED BY <1>6, <2>1 DEF DirInv, SparesDir, OwnObjects
  <1>8. GlobalInv'
    BY <1>2, <1>5, <1>7 DEF GlobalInv, SessionsOK
  <1>9. Found(h)'
    <2>1. SUFFICES ASSUME NEW x \in OnDisk', owner'[x] = h
                   PROVE  x \in registry'[h] \cup templates'[h] \cup stuck' \/ InHand(h, x)'
      BY DEF Found
    <2>2. CASE x = d
      BY <2>1, <2>2 DEF Accounted
    <2>3. CASE x # d
      <3>1. x \in OnDisk /\ owner[x] = h /\ (x \in stuck => x \in stuck')
        BY <1>6, <2>1, <2>3 DEF OnDisk
      <3>2. x \in registry[h] \cup templates[h] \cup stuck \/ InHand(h, x)
        BY <3>1 DEF IInv, HostInv, Found, OwnObjects
      <3>q. QED BY <2>3, <3>1, <3>2 DEF RemembersAllBut, Remembers
    <2>q. QED BY <2>2, <2>3
  <1>10. Held(h)'
    <2>1. SUFFICES ASSUME NEW x \in OnDisk', x \notin stuck', owner'[x] = h,
                          "env" \in disk'[x].files
                   PROVE  (\E s \in Sessions : HeldBy(h, x, s)') \/ InHand(h, x)'
      BY DEF Held
    <2>2. CASE x = d
      BY <2>1, <2>2 DEF Accounted
    <2>3. CASE x # d
      <3>1. /\ x \in OnDisk /\ x \notin stuck /\ owner[x] = h /\ "env" \in disk[x].files
        BY <1>6, <2>1, <2>3 DEF OnDisk
      <3>2. (\E s \in Sessions : HeldBy(h, x, s)) \/ InHand(h, x)
        BY <3>1 DEF IInv, HostInv, Held, OwnObjects
      <3>q. QED BY <2>3, <3>1, <3>2 DEF RemembersAllBut, Remembers
    <2>q. QED BY <2>2, <2>3
  <1>q. QED BY <1>7, <1>8, <1>9, <1>10, WorkKeeps

-----------------------------------------------------------------------------
(***************************************************************************)
(* Action by action.                                                       *)
(***************************************************************************)

(* What is known of the directory that a task is removing. *)
LEMMA InRemoval ==
  ASSUME IInv, NEW h \in Hosts, host[h] = "up", task[h].stage = "remove"
  PROVE  /\ task[h].dir \in Dirs /\ owner[task[h].dir] # None
         /\ task[h].dir \in removing \/ task[h].dir \notin OnDisk
         /\ task[h].kind = "sweep" =>
                host[owner[task[h].dir]] = "dead" /\ owner[task[h].dir] # h
         /\ task[h].kind # "sweep" => owner[task[h].dir] = h
         /\ task[h].kind # "rewrite"
  BY NoneIsNothing DEF IInv, HostInv, TaskOK, SweepOK, RewriteOK, CleanOK

(* A host between two events holds nothing in hand. *)
LEMMA ReadyIsEmptyHanded ==
  ASSUME IInv, NEW h \in Hosts, Ready(h)
  PROVE  /\ host[h] = "up" /\ task[h].kind = "idle" /\ task[h].dir = None
         /\ pid[h] \in Pids
         /\ \A d \in Dirs : ~InHand(h, d) /\ ~Pending(h, d)
  BY NoneIsNothing DEF Ready, IInv, HostInv, LifeOK, TaskOK, CleanOK, InHand, Pending

(* The types that the actions' updates rest on. *)
LEMMA Types ==
  ASSUME IInv, NEW h \in Hosts
  PROVE  /\ task \in [Hosts -> Tasks] /\ task[h] \in Tasks
         /\ registry \in [Hosts -> SUBSET Dirs] /\ registry[h] \subseteq Dirs
         /\ templates \in [Hosts -> SUBSET Dirs] /\ templates[h] \subseteq Dirs
         /\ session \in [Sessions -> SessionRecords]
         /\ disk \in [Dirs -> Entry \cup {None}]
         /\ owner \in [Dirs -> Hosts \cup {None}]
         /\ handed \subseteq Dirs /\ removing \subseteq Dirs /\ stuck \subseteq Dirs
  BY DEF IInv, GlobalInv, TypeOK, SessionRecords

(* A task that turns to the removal of d. *)
LEMMA RemovalTask ==
  ASSUME NEW t \in Tasks, NEW d \in Dirs
  PROVE  /\ RemovalOf(t, d) \in Tasks
         /\ RemovalOf(t, d).kind = t.kind /\ RemovalOf(t, d).stage = "remove"
         /\ RemovalOf(t, d).session = t.session /\ RemovalOf(t, d).todo = t.todo
         /\ RemovalOf(t, d).dir = d
  BY DEF RemovalOf, Tasks

LEMMA UnlinkKeeps ==
  ASSUME IInv, NEW h \in Hosts, Unlink(h)
  PROVE  IInv'
  <1>p. PICK d : d = task[h].dir
    OBVIOUS
  <1>t. /\ task \in [Hosts -> Tasks] /\ registry \in [Hosts -> SUBSET Dirs]
        /\ templates \in [Hosts -> SUBSET Dirs] /\ session \in [Sessions -> SessionRecords]
        /\ disk \in [Dirs -> Entry \cup {None}] /\ owner \in [Dirs -> Hosts \cup {None}]
    BY Types
  <1>u. /\ host[h] = "up" /\ task[h].stage = "remove" /\ d \in OnDisk
        /\ UNCHANGED <<host, pid, active, task, registry, templates, session, owner, handed,
                       removing, stuck, due>>
    BY <1>p DEF Unlink
  <1>r. /\ d = task[h].dir /\ d \in Dirs /\ owner[d] # None /\ d \in removing /\ disk[d] \in Entry
        /\ owner[d] = h => task[h].kind # "sweep"
        /\ owner[d] # h => host[owner[d]] = "dead"
    BY <1>p, <1>t, <1>u, InRemoval DEF OnDisk
  <1>b. /\ disk' = [disk EXCEPT ![d] = disk'[d]] /\ disk'[d] \in Entry
        /\ disk'[d].pid \in {None, disk[d].pid}
    <2>1. PICK f \in disk[d].files :
            disk' = [disk EXCEPT ![d].files = @ \ {f}, ![d].pid = IF f = ".pid" THEN None ELSE @]
      BY <1>p DEF Unlink
    <2>2. disk' = [disk EXCEPT ![d] = disk'[d]]
      BY <1>t, <1>r, <2>1
    <2>3. disk'[d] = [disk[d] EXCEPT !.files = @ \ {f}, !.pid = IF f = ".pid" THEN None ELSE @]
      BY <1>t, <1>r, <2>1
    <2>4. disk'[d] \in Entry /\ disk'[d].pid \in {None, disk[d].pid}
      <3>1. disk[d] \in Entry
        BY <1>r
      <3>q. QED BY <2>3, <3>1 DEF Entry
    <2>q. QED BY <2>2, <2>4
  <1>1. OwnObjects(h)
    BY <1>t, <1>u DEF OwnObjects
  <1>2. OneDir(d)
    BY <1>t, <1>u, <1>r, <1>b DEF OneDir
  <1>3. SessionsOK'
    BY <1>u DEF IInv, GlobalInv, SessionsOK, SessionInv
  <1>4. SparesDir(h, d)
    BY <1>u, <1>r, <1>b DEF SparesDir, OnDisk
  <1>5. DirInv(d)'
    BY <1>u, <1>r, <1>b, NoneIsNothing DEF IInv, GlobalInv, DirInv, OnDisk
  <1>6. TaskOK(h)'
    BY <1>u, <1>r DEF IInv, HostInv, TaskOK, SweepOK, RewriteOK, CleanOK
  <1>7. OwnDirs(h)'
    BY <1>u DEF IInv, HostInv, OwnDirs
  <1>8. RemembersAllBut(h, {d})
    BY <1>u DEF RemembersAllBut, Remembers, InHand, HeldBy
  <1>9. SweepsOn(h)
    BY <1>u DEF SweepsOn, Pending
  <1>10. Accounted(h, d)'
    BY <1>u, <1>r DEF Accounted, InHand
  <1>q. QED BY <1>r, <1>1, <1>2, <1>3, <1>4, <1>5, <1>6, <1>7, <1>8, <1>9, <1>10, OneDirKeeps

LEMMA RemovalEndsKeeps ==
  ASSUME IInv, NEW h \in Hosts, RemovalEnds(h)
  PROVE  IInv'
  <1>p. PICK d : d = task[h].dir
    OBVIOUS
  <1>t. /\ task \in [Hosts -> Tasks] /\ task[h] \in Tasks
        /\ registry \in [Hosts -> SUBSET Dirs] /\ templates \in [Hosts -> SUBSET Dirs]
        /\ session \in [Sessions -> SessionRecords]
        /\ disk \in [Dirs -> Entry \cup {None}] /\ owner \in [Dirs -> Hosts \cup {None}]
    BY Types
  <1>u. /\ host[h] = "up" /\ task[h].stage = "remove"
        /\ UNCHANGED <<host, pid, active, templates, session, owner, due>>
    BY DEF RemovalEnds
  <1>r. /\ d = task[h].dir /\ d \in Dirs /\ owner[d] # None /\ task[h].kind # "rewrite"
        /\ owner[d] = h => task[h].kind # "sweep"
        /\ owner[d] # h => host[owner[d]] = "dead"
    BY <1>p, <1>u, InRemoval
  <1>a. /\ task' = [task EXCEPT ![h] = task'[h]] /\ task'[h] \in Tasks
        /\ task'[h].stage = "scan" /\ task'[h].dir = None
        /\ task[h].kind = "undo" => task'[h] = Idle
        /\ task[h].kind # "undo" =>
            /\ task'[h].kind = task[h].kind /\ task'[h].session = task[h].session
            /\ task'[h].todo = task[h].todo
    <2>1. /\ task' = [task EXCEPT ![h] = task'[h]]
          /\ task'[h] = IF task[h].kind = "undo" THEN Idle
                        ELSE [task[h] EXCEPT !.stage = "scan", !.dir = None, !.read = None]
      BY <1>t DEF RemovalEnds
    <2>2. CASE task[h].kind = "undo"
      BY <1>t, <2>1, <2>2 DEF Tasks, Idle
    <2>3. CASE task[h].kind # "undo"
      <3>1. task[h] \in Tasks
        BY <1>t
      <3>2. task'[h] = [task[h] EXCEPT !.stage = "scan", !.dir = None, !.read = None]
        BY <2>1, <2>3
      <3>3. task'[h] \in Tasks
        BY <3>1, <3>2 DEF Tasks
      <3>q. QED BY <2>1, <2>3, <3>1, <3>2, <3>3 DEF Tasks
    <2>q. QED BY <2>2, <2>3
  <1>b. /\ registry' = [registry EXCEPT ![h] = registry'[h]]
        /\ registry[h] \ {d} \subseteq registry'[h] /\ registry'[h] \subseteq registry[h]
    BY <1>p, <1>t DEF RemovalEnds, Unregistered
  <1>c. /\ disk' = [disk EXCEPT ![d] = disk'[d]] /\ disk'[d] \in {None, disk[d]}
        /\ stuck' \ {d} = stuck \ {d} /\ removing' \ {d} = removing \ {d}
        /\ handed' \ {d} = handed \ {d}
        /\ disk'[d] # None =>
            d \in stuck' /\ removing' = removing /\ handed' = handed /\ stuck \subseteq stuck'
        /\ d \in handed' => d \in handed
    <2>1. CASE d \in OnDisk /\ disk[d].files = {} /\ Gone(d)
      BY <1>t, <1>r, <2>1 DEF Gone
    <2>2. CASE d \in OnDisk /\ stuck' = stuck \cup {d} /\ UNCHANGED <<disk, removing, handed>>
      BY <1>t, <2>2
    <2>3. CASE d \notin OnDisk /\ UNCHANGED <<disk, removing, handed, stuck>>
      BY <1>t, <1>r, <2>3 DEF OnDisk
    <2>q. QED BY <1>p, <2>1, <2>2, <2>3 DEF RemovalEnds
  <1>1. OwnObjects(h)
    BY <1>t, <1>u, <1>a, <1>b DEF OwnObjects
  <1>2. OneDir(d)
    BY <1>t, <1>u, <1>r, <1>c DEF OneDir
  <1>3. SessionsOK'
    BY <1>u DEF IInv, GlobalInv, SessionsOK, SessionInv
  <1>4. SparesDir(h, d)
    BY <1>u, <1>r, <1>c DEF SparesDir
  <1>5. DirInv(d)'
    <2>1. DirInv(d)
      BY <1>r DEF IInv, GlobalInv
    <2>2. CASE disk'[d] = None
      BY <1>u, <1>r, <2>1, <2>2 DEF DirInv, OnDisk
    <2>3. CASE disk'[d] # None
      BY <1>u, <1>r, <1>c, <2>1, <2>3 DEF DirInv, OnDisk
    <2>q. QED BY <2>2, <2>3
  <1>6. TaskOK(h)'
    <2>1. CASE task[h].kind = "undo"
      BY <1>a, <2>1, NoneIsNothing DEF Idle, TaskOK, CleanOK
    <2>2. CASE task[h].kind # "undo"
      <3>1. /\ task[h].kind = "sweep" => SweepOK(h)
            /\ task[h].kind # "sweep" => CleanOK(h)
        BY <1>r DEF IInv, HostInv, TaskOK
      <3>q. QED BY <1>u, <1>r, <1>a, <2>2, <3>1 DEF TaskOK, SweepOK, CleanOK
    <2>q. QED BY <2>1, <2>2
  <1>7. OwnDirs(h)'
    BY <1>u, <1>b DEF IInv, HostInv, OwnDirs
  <1>8. RemembersAllBut(h, {d})
    BY <1>u, <1>r, <1>a, <1>b DEF RemembersAllBut, Remembers, InHand, HeldBy
  <1>9. SweepsOn(h)
    BY <1>a, <1>c, <1>r DEF SweepsOn, Pending, Swept, OnDisk
  <1>10. Accounted(h, d)'
    BY <1>c DEF Accounted, OnDisk
  <1>q. QED BY <1>r, <1>1, <1>2, <1>3, <1>4, <1>5, <1>6, <1>7, <1>8, <1>9, <1>10, OneDirKeeps

LEMMA ActivateKeeps ==
  ASSUME IInv, NEW h \in Hosts, NEW p \in Pids, Activate(h, p)
  PROVE  IInv'
  <1>t. /\ task \in [Hosts -> Tasks] /\ host \in [Hosts -> {"down", "up", "dead"}]
        /\ pid \in [Hosts -> Pids \cup {None}] /\ due \in [Hosts -> SUBSET Dirs]
    BY DEF IInv, GlobalInv, TypeOK
  <1>u. /\ host[h] = "down" /\ host' = [host EXCEPT ![h] = "up"]
        /\ pid' = [pid EXCEPT ![h] = p] /\ active' = active \cup {h}
        /\ UNCHANGED <<registry, templates, session, disk, owner, removing, stuck, handed>>
    BY DEF Activate, disks
  <1>d. task[h] = Idle /\ due[h] = {} /\ registry[h] = {} /\ templates[h] = {}
    BY <1>u DEF IInv, HostInv, LifeOK
  <1>o. \A d \in Dirs : owner[d] # h
    BY <1>u, NoneIsNothing DEF IInv, GlobalInv, DirInv
  <1>a. /\ task' = [task EXCEPT ![h] = task'[h]] /\ task'[h] \in Tasks
        /\ due' = [due EXCEPT ![h] = due'[h]] /\ due'[h] \subseteq Dirs
        /\ task'[h].kind \in {"idle", "sweep"} /\ task'[h].stage = "scan" /\ task'[h].dir = None
        /\ \/ task'[h].kind = "sweep" /\ task'[h].todo = OnDisk /\ due'[h] = Leftovers
           \/ task'[h].kind = "idle" /\ due'[h] = {}
    <2>1. CASE /\ task' = [task EXCEPT ![h] = [Idle EXCEPT !.kind = "sweep", !.todo = OnDisk]]
               /\ due' = [due EXCEPT ![h] = Leftovers]
      <3>1. /\ task' = [task EXCEPT ![h] = task'[h]] /\ due' = [due EXCEPT ![h] = due'[h]]
            /\ task'[h] = [Idle EXCEPT !.kind = "sweep", !.todo = OnDisk] /\ due'[h] = Leftovers
        BY <1>t, <2>1
      <3>2. OnDisk \subseteq Dirs /\ Leftovers \subseteq Dirs
        BY DEF OnDisk, Leftovers
      <3>3. /\ task'[h] \in Tasks /\ task'[h].kind = "sweep" /\ task'[h].stage = "scan"
            /\ task'[h].dir = None /\ task'[h].todo = OnDisk
        BY <3>1, <3>2 DEF Tasks, Idle
      <3>q. QED BY <3>1, <3>2, <3>3
    <2>2. CASE UNCHANGED <<task, due>>
      BY <1>t, <1>d, <2>2 DEF Idle, Tasks
    <2>q. QED BY <2>1, <2>2 DEF Activate
  <1>1. TypeOK'
    BY <1>t, <1>u, <1>a DEF IInv, GlobalInv, TypeOK
  <1>2. \A d \in Dirs : DirInv(d)'
    BY <1>t, <1>u, <1>o DEF IInv, GlobalInv, DirInv, OnDisk
  <1>3. GlobalInv'
    BY <1>u, <1>1, <1>2 DEF IInv, GlobalInv, SessionInv
  <1>4. Spares(h)
    <2>1. \A g \in Hosts \ {h} : SparesHost(g)
      BY <1>t, <1>u, <1>a DEF SparesHost
    <2>2. \A d \in Dirs : SparesDir(h, d)
      BY <1>u DEF SparesDir
    <2>q. QED BY <1>t, <1>u, <2>1, <2>2 DEF Spares
  <1>5. LifeOK(h)'
    BY <1>t, <1>u, NoneIsNothing DEF LifeOK
  <1>6. TaskOK(h)'
    BY <1>u, <1>o, <1>a DEF TaskOK, SweepOK, CleanOK
  <1>7. OwnDirs(h)' /\ Found(h)' /\ Held(h)'
    BY <1>u, <1>d, <1>o DEF OwnDirs, Found, Held, OnDisk
  <1>8. DueOK(h)'
    <2>1. SUFFICES ASSUME NEW d \in due'[h]
                   PROVE  owner'[d] # None /\ host'[owner'[d]] = "dead" /\ Pending(h, d)'
      BY DEF DueOK
    <2>2. /\ d \in OnDisk /\ host[owner[d]] = "dead"
          /\ task'[h].kind = "sweep" /\ task'[h].todo = OnDisk
      BY <1>a, <2>1 DEF Leftovers
    <2>3. owner[d] # None
      BY <2>2 DEF OnDisk, IInv, GlobalInv, DirInv
    <2>4. d \in Dirs /\ owner'[d] = owner[d] /\ host'[owner[d]] = "dead"
      BY <1>4, <2>2, <2>3, OwnersStay DEF OnDisk
    <2>q. QED BY <2>2, <2>3, <2>4 DEF Pending
  <1>q. QED BY <1>3, <1>4, <1>5, <1>6, <1>7, <1>8, ActionKeeps DEF HostInv

LEMMA ReadPidKeeps ==
  ASSUME IInv, NEW h \in Hosts, ReadPid(h)
  PROVE  IInv'
  <1>t. /\ task \in [Hosts -> Tasks] /\ task[h] \in Tasks
        /\ registry \in [Hosts -> SUBSET Dirs] /\ templates \in [Hosts -> SUBSET Dirs]
        /\ session \in [Sessions -> SessionRecords]
        /\ disk \in [Dirs -> Entry \cup {None}] /\ removing \subseteq Dirs
        /\ due \in [Hosts -> SUBSET Dirs]
    BY Types DEF IInv, GlobalInv, TypeOK
  <1>u. /\ host[h] = "up" /\ task[h].kind = "sweep" /\ task[h].stage = "scan"
        /\ UNCHANGED <<host, pid, active, registry, templates, session, disk, owner, removing,
                       stuck, handed>>
    BY DEF ReadPid, Busy, disks
  <1>a. PICK d \in task[h].todo :
            /\ task' = [task EXCEPT ![h] = task'[h]] /\ task'[h] \in Tasks
            /\ task'[h].kind = "sweep" /\ task'[h].todo = task[h].todo \ {d}
            /\ \/ /\ SaysOwner(d) /\ due' = due
                  /\ task'[h].stage = "judge" /\ task'[h].dir = d
                  /\ task'[h].read = disk[d].pid
               \/ /\ task'[h].stage = "scan" /\ task'[h].dir = task[h].dir
                  /\ \/ ~SaysOwner(d) /\ due' = due
                     \/ due' = [due EXCEPT ![h] = @ \ {d}]
    <2>1. PICK d \in task[h].todo :
            \/ /\ task' = [task EXCEPT ![h] =
                    IF SaysOwner(d)
                    THEN [@ EXCEPT !.stage = "judge", !.todo = Rest(task[h].todo, d), !.dir = d,
                                   !.read = IF d \in OnDisk THEN disk[d].pid ELSE None]
                    ELSE [@ EXCEPT !.todo = Rest(task[h].todo, d)]]
               /\ due' = due
            \/ /\ task' = [task EXCEPT ![h].todo = Rest(@, d)]
               /\ due' = [due EXCEPT ![h] = @ \ {d}]
      BY DEF ReadPid
    <2>2. d \in Dirs /\ (d \in OnDisk => disk[d].pid \in Pids \cup {None})
      BY <1>t DEF Tasks, OnDisk, Entry
    <2>3. task' = [task EXCEPT ![h] = task'[h]]
      BY <1>t, <2>1
    <2>4. \/ /\ SaysOwner(d) /\ due' = due
             /\ task'[h] = [task[h] EXCEPT !.stage = "judge", !.todo = Rest(task[h].todo, d),
                                           !.dir = d,
                                           !.read = IF d \in OnDisk THEN disk[d].pid ELSE None]
          \/ /\ task'[h] = [task[h] EXCEPT !.todo = Rest(task[h].todo, d)]
             /\ \/ ~SaysOwner(d) /\ due' = due
                \/ due' = [due EXCEPT ![h] = @ \ {d}]
      BY <1>t, <2>1
    <2>5. CASE /\ SaysOwner(d) /\ due' = due
               /\ task'[h] = [task[h] EXCEPT !.stage = "judge", !.todo = Rest(task[h].todo, d),
                                             !.dir = d,
                                             !.read = IF d \in OnDisk THEN disk[d].pid ELSE None]
      <3>1. d \in OnDisk /\ disk[d].pid \in Pids \cup {None}
        BY <2>2, <2>5 DEF SaysOwner
      <3>2. task'[h] = [task[h] EXCEPT !.stage = "judge", !.todo = task[h].todo \ {d}, !.dir = d,
                                       !.read = disk[d].pid]
        BY <2>5, <3>1 DEF Rest
      <3>3. task[h] \in Tasks /\ task[h].kind = "sweep"
        BY <1>t, <1>u
      <3>4. task'[h] \in Tasks
        BY <2>2, <3>1, <3>2, <3>3 DEF Tasks
      <3>5. /\ task'[h].kind = "sweep" /\ task'[h].stage = "judge" /\ task'[h].dir = d
            /\ task'[h].todo = task[h].todo \ {d} /\ task'[h].read = disk[d].pid
        BY <3>2, <3>3 DEF Tasks
      <3>q. QED BY <2>3, <2>5, <3>4, <3>5
    <2>6. CASE /\ task'[h] = [task[h] EXCEPT !.todo = Rest(task[h].todo, d)]
               /\ \/ ~SaysOwner(d) /\ due' = due
                  \/ due' = [due EXCEPT ![h] = @ \ {d}]
      <3>1. /\ task'[h] \in Tasks /\ task'[h].kind = "sweep" /\ task'[h].stage = "scan"
            /\ task'[h].todo = task[h].todo \ {d} /\ task'[h].dir = task[h].dir
        BY <1>t, <1>u, <2>2, <2>6 DEF Tasks, Rest
      <3>q. QED BY <2>3, <2>6, <3>1
    <2>q. QED BY <2>4, <2>5, <2>6
  <1>d. d \in Dirs /\ (SaysOwner(d) <=> disk[d] # None /\ disk[d].pid # None)
    BY <1>t DEF Tasks, SaysOwner, OnDisk
  <1>e. /\ \/ due' = due
           \/ due' = [due EXCEPT ![h] = due'[h]] /\ due'[h] = due[h] \ {d}
        /\ SaysOwner(d) => d \notin due'[h] \/ (task'[h].stage = "judge" /\ task'[h].dir = d)
    BY <1>t, <1>a
  <1>1. OwnObjects(h) /\ QuietDisk
    BY <1>t, <1>u, <1>a, <1>e DEF OwnObjects, QuietDisk
  <1>2. SessionsOK' /\ OwnDirs(h)'
    BY <1>u DEF IInv, GlobalInv, SessionsOK, SessionInv, HostInv, OwnDirs
  <1>3. TaskOK(h)'
    <2>1. SweepOK(h) /\ task[h].dir = None
      BY <1>u DEF IInv, HostInv, TaskOK
    <2>2. SaysOwner(d) => owner[d] # None /\ disk[d].pid = pid[owner[d]]
      BY <1>d DEF IInv, GlobalInv, DirInv
    <2>q. QED BY <1>u, <1>a, <1>d, <2>1, <2>2 DEF TaskOK, SweepOK
  <1>4. RemembersAllBut(h, {})
    BY <1>u, <1>a DEF RemembersAllBut, Remembers, InHand, HeldBy
  <1>5. SweepsOn(h)
    BY <1>u, <1>a, <1>d, <1>e DEF SweepsOn, Pending, Swept, OnDisk
  <1>q. QED BY <1>t, <1>u, <1>1, <1>2, <1>3, <1>4, <1>5, QuietKeeps

LEMMA JudgeKeeps ==
  ASSUME IInv, NEW h \in Hosts, Judge(h)
  PROVE  IInv'
  <1>t. /\ task \in [Hosts -> Tasks] /\ task[h] \in Tasks
        /\ registry \in [Hosts -> SUBSET Dirs] /\ templates \in [Hosts -> SUBSET Dirs]
        /\ session \in [Sessions -> SessionRecords] /\ removing \subseteq Dirs
    BY Types
  <1>u. /\ host[h] = "up" /\ task[h].kind = "sweep" /\ task[h].stage = "judge"
        /\ UNCHANGED <<host, pid, active, registry, templates, session, disk, owner, stuck,
                       handed, due>>
    BY DEF Judge, Busy
  <1>p. PICK d : d = task[h].dir
    OBVIOUS
  <1>a. /\ task' = [task EXCEPT ![h] = task'[h]] /\ task'[h] \in Tasks
        /\ task'[h].kind = "sweep" /\ task'[h].todo = task[h].todo
        /\ \/ /\ IsPidAlive(task[h].read) /\ removing' = removing
              /\ task'[h].stage = "scan" /\ task'[h].dir = None
           \/ /\ ~IsPidAlive(task[h].read) /\ removing' = removing \cup {d}
              /\ task'[h].stage = "remove" /\ task'[h].dir = d
    <2>1. CASE IsPidAlive(task[h].read)
      <3>1. /\ task' = [task EXCEPT ![h] = task'[h]] /\ removing' = removing
            /\ task'[h] = [task[h] EXCEPT !.stage = "scan", !.dir = None, !.read = None]
        BY <1>t, <2>1 DEF Judge
      <3>q. QED BY <1>t, <1>u, <2>1, <3>1 DEF Tasks
    <2>2. CASE ~IsPidAlive(task[h].read)
      <3>1. /\ task' = [task EXCEPT ![h] = task'[h]] /\ removing' = removing \cup {d}
            /\ task'[h] = [task[h] EXCEPT !.stage = "remove"]
        BY <1>t, <1>p, <2>2 DEF Judge
      <3>q. QED BY <1>t, <1>u, <1>p, <2>2, <3>1 DEF Tasks
    <2>q. QED BY <2>1, <2>2
  <1>s. SweepOK(h)
    BY <1>u DEF IInv, HostInv, TaskOK
  <1>b. /\ d \in Dirs /\ owner[d] \in Hosts /\ task[h].read = pid[owner[d]]
        /\ host[owner[d]] \in {"up", "dead"}
    BY <1>u, <1>p, <1>s DEF SweepOK, IInv, GlobalInv, TypeOK, DirInv
  <1>c. ~IsPidAlive(task[h].read) => host[owner[d]] = "dead"
    BY <1>b DEF IsPidAlive
  <1>d. IsPidAlive(task[h].read) /\ host[owner[d]] = "dead" => PidUsedAgain(d)
    BY <1>b DEF IsPidAlive, PidUsedAgain
  <1>1. OwnObjects(h) /\ QuietDisk
    BY <1>t, <1>u, <1>a DEF OwnObjects, QuietDisk
  <1>2. SessionsOK' /\ OwnDirs(h)'
    BY <1>u DEF IInv, GlobalInv, SessionsOK, SessionInv, HostInv, OwnDirs
  <1>3. TaskOK(h)'
    BY <1>u, <1>s, <1>a, <1>b, <1>c, NoneIsNothing DEF TaskOK, SweepOK
  <1>4. RemembersAllBut(h, {})
    BY <1>u, <1>a DEF RemembersAllBut, Remembers, InHand, HeldBy
  <1>5. SweepsOn(h)
    <2>1. SUFFICES ASSUME NEW x \in due[h], Pending(h, x), ~Swept(x)
                   PROVE  Pending(h, x)'
      BY DEF SweepsOn
    <2>2. host[owner[x]] = "dead"
      BY DEF IInv, HostInv, DueOK
    <2>q. QED BY <1>p, <1>u, <1>a, <1>d, <2>1, <2>2 DEF Pending, Swept
  <1>6. removing' \subseteq Dirs
    BY <1>t, <1>a, <1>b
  <1>q. QED BY <1>1, <1>2, <1>3, <1>4, <1>5, <1>6, QuietKeeps

LEMMA SweepEndsKeeps ==
  ASSUME IInv, NEW h \in Hosts, SweepEnds(h)
  PROVE  IInv'
  <1>t. /\ task \in [Hosts -> Tasks]
        /\ registry \in [Hosts -> SUBSET Dirs] /\ templates \in [Hosts -> SUBSET Dirs]
        /\ session \in [Sessions -> SessionRecords] /\ removing \subseteq Dirs
    BY Types
  <1>u. /\ host[h] = "up" /\ task[h].kind = "sweep" /\ task[h].stage = "scan"
        /\ task[h].todo = {} /\ task' = [task EXCEPT ![h] = Idle] /\ Idle \in Tasks
        /\ UNCHANGED <<host, pid, active, registry, templates, session, disk, owner, removing,
                       stuck, handed, due>>
    BY DEF SweepEnds, Busy, disks, Idle, Tasks
  <1>1. OwnObjects(h) /\ QuietDisk
    BY <1>t, <1>u DEF OwnObjects, QuietDisk
  <1>2. SessionsOK' /\ OwnDirs(h)'
    BY <1>u DEF IInv, GlobalInv, SessionsOK, SessionInv, HostInv, OwnDirs
  <1>3. TaskOK(h)'
    BY <1>t, <1>u DEF TaskOK, CleanOK, Idle
  <1>4. RemembersAllBut(h, {})
    BY <1>u DEF RemembersAllBut, Remembers, InHand, HeldBy
  <1>5. SweepsOn(h)
    BY <1>u DEF SweepsOn, Pending
  <1>q. QED BY <1>t, <1>u, <1>1, <1>2, <1>3, <1>4, <1>5, QuietKeeps

LEMMA OpenSessionKeeps ==
  ASSUME IInv, NEW h \in Hosts, NEW s \in Sessions, OpenSession(h, s)
  PROVE  IInv'
  <1>t. /\ task \in [Hosts -> Tasks] /\ task[h] \in Tasks
        /\ registry \in [Hosts -> SUBSET Dirs] /\ templates \in [Hosts -> SUBSET Dirs]
        /\ session \in [Sessions -> SessionRecords] /\ removing \subseteq Dirs
    BY Types
  <1>u. /\ session[s].phase = "none"
        /\ session' = [session EXCEPT ![s] = [host |-> h, phase |-> "live", dirs |-> {}]]
        /\ UNCHANGED <<host, pid, active, task, registry, templates, disk, owner, removing,
                       stuck, handed, due>>
    BY DEF OpenSession, disks
  <1>r. /\ host[h] = "up" /\ task[h].kind = "idle"
        /\ \A d \in Dirs : ~InHand(h, d) /\ ~Pending(h, d)
    BY ReadyIsEmptyHanded DEF OpenSession
  <1>a. session[s].host = None /\ session[s].dirs = {}
    BY <1>u DEF IInv, GlobalInv, SessionInv
  <1>1. OwnObjects(h) /\ QuietDisk
    BY <1>t, <1>u, <1>r, <1>a, NoneIsNothing DEF OwnObjects, QuietDisk, SessionRecords
  <1>2. SessionsOK'
    BY <1>t, <1>u, NoneIsNothing DEF IInv, GlobalInv, SessionsOK, SessionInv
  <1>3. TaskOK(h)' /\ OwnDirs(h)'
    BY <1>u, <1>r, <1>a, NoneIsNothing DEF IInv, HostInv, TaskOK, CleanOK, OwnDirs
  <1>4. RemembersAllBut(h, {})
    BY <1>t, <1>u, <1>r, <1>a DEF RemembersAllBut, Remembers, HeldBy, OnDisk
  <1>5. SweepsOn(h)
    BY <1>r DEF SweepsOn, Pending
  <1>q. QED BY <1>t, <1>u, <1>1, <1>2, <1>3, <1>4, <1>5, QuietKeeps

LEMMA MakeDirKeeps ==
  ASSUME IInv, NEW h \in Hosts, NEW s \in Sessions, MakeDir(h, s)
  PROVE  IInv'
  <1>t. /\ task \in [Hosts -> Tasks]
        /\ registry \in [Hosts -> SUBSET Dirs] /\ templates \in [Hosts -> SUBSET Dirs]
        /\ session \in [Sessions -> SessionRecords]
        /\ disk \in [Dirs -> Entry \cup {None}] /\ owner \in [Dirs -> Hosts \cup {None}]
    BY Types
  <1>u. /\ session[s].host = h /\ session[s].phase # "exited"
        /\ UNCHANGED <<host, pid, active, registry, templates, session, handed, removing,
                       stuck, due>>
    BY DEF MakeDir
  <1>r. /\ host[h] = "up" /\ task[h].kind = "idle"
        /\ \A x \in Dirs : ~InHand(h, x) /\ ~Pending(h, x)
    BY ReadyIsEmptyHanded DEF MakeDir
  <1>a. PICK d \in Dirs :
            /\ owner[d] = None /\ owner' = [owner EXCEPT ![d] = h]
            /\ disk' = [disk EXCEPT ![d] = [files |-> {}, pid |-> None]]
            /\ task' = [task EXCEPT ![h] = task'[h]] /\ task'[h] \in Tasks
            /\ task'[h].kind = "rewrite" /\ task'[h].stage = "made"
            /\ task'[h].session = s /\ task'[h].dir = d
    <2>1. PICK d \in Dirs :
            /\ Create(h, d, {})
            /\ task' = [task EXCEPT ![h] =
                [Idle EXCEPT !.kind = "rewrite", !.stage = "made", !.session = s, !.dir = d]]
      BY DEF MakeDir
    <2>2. task'[h] = [Idle EXCEPT !.kind = "rewrite", !.stage = "made", !.session = s, !.dir = d]
      BY <1>t, <2>1
    <2>3. task' = [task EXCEPT ![h] = task'[h]]
      BY <2>1, <2>2
    <2>4. /\ task'[h] \in Tasks /\ task'[h].kind = "rewrite" /\ task'[h].stage = "made"
          /\ task'[h].session = s /\ task'[h].dir = d
      BY <2>2 DEF Idle, Tasks
    <2>q. QED BY <2>1, <2>3, <2>4 DEF Create, Fresh
  <1>b. /\ disk' = [disk EXCEPT ![d] = disk'[d]] /\ disk'[d] \in Entry
        /\ disk'[d].files = {} /\ disk'[d].pid = None
    BY <1>t, <1>a DEF Entry
  <1>c. owner' = [owner EXCEPT ![d] = owner'[d]] /\ owner'[d] = h
    BY <1>t, <1>a
  <1>d. d \notin handed /\ host'[h] # "down" /\ \A x \in Sessions : d \notin session[x].dirs
    BY <1>u, <1>a, <1>r, NoneIsNothing DEF IInv, GlobalInv, DirInv, SessionInv
  <1>e. d \notin registry[h] \cup templates[h]
    BY <1>a, NoneIsNothing DEF IInv, HostInv, OwnDirs
  <1>1. OwnObjects(h)
    BY <1>t, <1>u, <1>r, <1>a DEF OwnObjects
  <1>2. OneDir(d)
    BY <1>u, <1>b, <1>c DEF OneDir
  <1>3. SessionsOK'
    <2>1. ASSUME NEW x \in Sessions, NEW e \in session[x].dirs
          PROVE  owner'[e] = session[x].host
      <3>1. e \in Dirs /\ e # d /\ owner[e] = session[x].host
        BY <1>t, <1>d, <2>1 DEF IInv, GlobalInv, SessionInv, SessionRecords
      <3>q. QED BY <1>t, <1>c, <3>1
    <2>q. QED BY <1>u, <2>1 DEF IInv, GlobalInv, SessionsOK, SessionInv
  <1>4. SparesDir(h, d)
    BY <1>a, <1>c, NoneIsNothing DEF SparesDir
  <1>5. DirInv(d)'
    BY <1>u, <1>b, <1>c, <1>d, NoneIsNothing DEF DirInv, OnDisk
  <1>6. TaskOK(h)'
    BY <1>u, <1>a, <1>b, <1>c, NoneIsNothing DEF TaskOK, RewriteOK, OnDisk
  <1>7. OwnDirs(h)'
    <2>1. ASSUME NEW x \in registry[h] \cup templates[h]
          PROVE  owner'[x] = h
      <3>1. x \in Dirs /\ x # d /\ owner[x] = h
        BY <1>t, <1>e DEF IInv, HostInv, OwnDirs
      <3>q. QED BY <1>t, <1>c, <3>1
    <2>q. QED BY <1>u, <2>1 DEF OwnDirs
  <1>8. RemembersAllBut(h, {d})
    BY <1>u, <1>r DEF RemembersAllBut, Remembers, HeldBy, OnDisk
  <1>9. SweepsOn(h)
    BY <1>r DEF SweepsOn, Pending
  <1>10. Accounted(h, d)'
    BY <1>a, <1>b DEF Accounted, InHand
  <1>q. QED BY <1>1, <1>2, <1>3, <1>4, <1>5, <1>6, <1>7, <1>8, <1>9, <1>10, OneDirKeeps

(* Writing env or opening .pid adds a file to a directory that nobody else can touch. *)
LEMMA AddFileKeeps ==
  ASSUME IInv, NEW h \in Hosts, NEW f \in Files, NEW stage, NEW next \in {"env", "pid"},
         AddFile(h, stage, next, f)
  PROVE  IInv'
  <1>t. /\ task \in [Hosts -> Tasks] /\ task[h] \in Tasks
        /\ registry \in [Hosts -> SUBSET Dirs] /\ templates \in [Hosts -> SUBSET Dirs]
        /\ session \in [Sessions -> SessionRecords]
        /\ disk \in [Dirs -> Entry \cup {None}] /\ owner \in [Dirs -> Hosts \cup {None}]
    BY Types
  <1>u. /\ host[h] = "up" /\ task[h].kind = "rewrite"
        /\ UNCHANGED <<host, pid, active, registry, templates, session, owner, handed,
                       removing, stuck, due>>
    BY DEF AddFile, Busy
  <1>r. RewriteOK(h)
    BY <1>u DEF IInv, HostInv, TaskOK
  <1>p. PICK d \in Dirs : d = task[h].dir /\ d \in OnDisk /\ owner[d] = h /\ disk[d] \in Entry
    BY <1>t, <1>r DEF RewriteOK, OnDisk
  <1>b. /\ disk' = [disk EXCEPT ![d] = disk'[d]] /\ disk'[d] \in Entry
        /\ disk'[d].pid = disk[d].pid
    <2>1. disk' = [disk EXCEPT ![d] = disk'[d]]
      BY <1>t, <1>p DEF AddFile
    <2>2. disk'[d] = [disk[d] EXCEPT !.files = @ \cup {f}]
      BY <1>t, <1>p DEF AddFile
    <2>3. disk'[d] \in Entry /\ disk'[d].pid = disk[d].pid
      BY <1>p, <2>2 DEF Entry
    <2>q. QED BY <2>1, <2>3
  <1>c. /\ task' = [task EXCEPT ![h] = task'[h]] /\ task'[h] \in Tasks
        /\ task'[h].kind = "rewrite" /\ task'[h].stage = next
        /\ task'[h].session = task[h].session /\ task'[h].dir = d
    <2>1. task' = [task EXCEPT ![h] = task'[h]] /\ task'[h] = [task[h] EXCEPT !.stage = next]
      BY <1>t DEF AddFile
    <2>q. QED BY <1>t, <1>u, <1>p, <2>1 DEF Tasks
  <1>1. OwnObjects(h)
    BY <1>t, <1>u, <1>c DEF OwnObjects
  <1>2. OneDir(d)
    BY <1>t, <1>u, <1>b DEF OneDir
  <1>3. SessionsOK' /\ OwnDirs(h)'
    BY <1>u DEF IInv, GlobalInv, SessionsOK, SessionInv, HostInv, OwnDirs
  <1>4. SparesDir(h, d)
    BY <1>u, <1>p DEF SparesDir, OnDisk
  <1>5. DirInv(d)'
    BY <1>u, <1>p, <1>b, NoneIsNothing DEF IInv, GlobalInv, DirInv, OnDisk
  <1>6. TaskOK(h)'
    BY <1>u, <1>r, <1>p, <1>b, <1>c, NoneIsNothing DEF TaskOK, RewriteOK, OnDisk
  <1>7. RemembersAllBut(h, {d})
    BY <1>u, <1>p, <1>c DEF RemembersAllBut, Remembers, InHand, HeldBy
  <1>8. SweepsOn(h)
    BY <1>u DEF SweepsOn, Pending
  <1>9. Accounted(h, d)'
    BY <1>c DEF Accounted, InHand
  <1>q. QED BY <1>1, <1>2, <1>3, <1>4, <1>5, <1>6, <1>7, <1>8, <1>9, OneDirKeeps

LEMMA WriteEnvKeeps ==
  ASSUME IInv, NEW h \in Hosts, WriteEnv(h)
  PROVE  IInv'
  BY AddFileKeeps DEF WriteEnv, Files

LEMMA OpenPidKeeps ==
  ASSUME IInv, NEW h \in Hosts, OpenPid(h)
  PROVE  IInv'
  BY AddFileKeeps DEF OpenPid, Files

LEMMA WritePidKeeps ==
  ASSUME IInv, NEW h \in Hosts, WritePid(h)
  PROVE  IInv'
  <1>t. /\ task \in [Hosts -> Tasks] /\ task[h] \in Tasks
        /\ registry \in [Hosts -> SUBSET Dirs] /\ registry[h] \subseteq Dirs
        /\ templates \in [Hosts -> SUBSET Dirs] /\ session \in [Sessions -> SessionRecords]
        /\ disk \in [Dirs -> Entry \cup {None}] /\ owner \in [Dirs -> Hosts \cup {None}]
    BY Types
  <1>u. /\ host[h] = "up" /\ task[h].kind = "rewrite"
        /\ task' = [task EXCEPT ![h] = Idle] /\ Idle \in Tasks
        /\ UNCHANGED <<host, pid, active, templates, owner, removing, stuck, due>>
    BY DEF WritePid, Busy, Idle, Tasks
  <1>r. RewriteOK(h)
    BY <1>u DEF IInv, HostInv, TaskOK
  <1>p. PICK d \in Dirs : d = task[h].dir /\ d \in OnDisk /\ owner[d] = h /\ disk[d] \in Entry
    BY <1>t, <1>r DEF RewriteOK, OnDisk
  <1>s. PICK s \in Sessions :
            s = task[h].session /\ session[s].host = h /\ session[s].phase # "exited"
    BY <1>r DEF RewriteOK
  <1>b. /\ disk' = [disk EXCEPT ![d] = disk'[d]] /\ disk'[d] \in Entry
        /\ disk'[d].pid = pid[h]
    <2>1. pid[h] \in Pids
      BY <1>u DEF IInv, HostInv, LifeOK
    <2>2. disk' = [disk EXCEPT ![d] = disk'[d]] /\ disk'[d] = [disk[d] EXCEPT !.pid = pid[h]]
      BY <1>t, <1>p DEF WritePid, RecordedPid
    <2>3. disk'[d] \in Entry /\ disk'[d].pid = pid[h]
      BY <1>p, <2>1, <2>2 DEF Entry
    <2>q. QED BY <2>2, <2>3
  <1>c. /\ session' \in [Sessions -> SessionRecords]
        /\ session'[s].host = h /\ session'[s].phase = session[s].phase
        /\ session'[s].dirs = session[s].dirs \cup {d}
        /\ \A x \in Sessions \ {s} : session'[x] = session[x]
    <2>1. session' = [session EXCEPT ![s].dirs = @ \cup {d}]
      BY <1>p, <1>s, NoneIsNothing DEF WritePid, HandOver, WithDir
    <2>2. session'[s] = [session[s] EXCEPT !.dirs = session[s].dirs \cup {d}]
      BY <1>t, <2>1
    <2>3. /\ session'[s] \in SessionRecords
          /\ session'[s].host = h /\ session'[s].phase = session[s].phase
          /\ session'[s].dirs = session[s].dirs \cup {d}
      BY <1>t, <1>p, <1>s, <2>2 DEF SessionRecords
    <2>q. QED BY <1>t, <2>1, <2>3
  <1>e. /\ registry' = [registry EXCEPT ![h] = registry'[h]] /\ registry'[h] = registry[h] \cup {d}
        /\ handed' = handed \cup {d}
    BY <1>t, <1>p, NoneIsNothing DEF WritePid, HandOver, WithDir
  <1>1. OwnObjects(h)
    BY <1>t, <1>u, <1>s, <1>c, <1>e DEF OwnObjects
  <1>2. OneDir(d)
    BY <1>t, <1>u, <1>b, <1>e DEF OneDir
  <1>3. SessionsOK'
    <2>1. ASSUME NEW x \in Sessions PROVE SessionInv(x)'
      BY <1>u, <1>p, <1>s, <1>c, NoneIsNothing DEF IInv, GlobalInv, SessionInv
    <2>q. QED BY <2>1 DEF SessionsOK
  <1>4. SparesDir(h, d)
    BY <1>u, <1>p DEF SparesDir, OnDisk
  <1>5. DirInv(d)'
    BY <1>u, <1>p, <1>b, NoneIsNothing DEF DirInv, OnDisk
  <1>6. TaskOK(h)'
    BY <1>t, <1>u DEF TaskOK, CleanOK, Idle
  <1>7. OwnDirs(h)'
    BY <1>u, <1>p, <1>e DEF IInv, HostInv, OwnDirs
  <1>8. RemembersAllBut(h, {d})
    <2>1. ASSUME NEW x \in OnDisk \ {d}, NEW y \in Sessions, HeldBy(h, x, y)
          PROVE  HeldBy(h, x, y)'
      BY <1>u, <1>c, <2>1 DEF HeldBy
    <2>q. QED BY <1>u, <1>p, <1>e, <2>1 DEF RemembersAllBut, Remembers, InHand
  <1>9. SweepsOn(h)
    BY <1>u DEF SweepsOn, Pending
  <1>10. Accounted(h, d)'
    BY <1>s, <1>c, <1>e DEF Accounted, HeldBy
  <1>q. QED BY <1>1, <1>2, <1>3, <1>4, <1>5, <1>6, <1>7, <1>8, <1>9, <1>10, OneDirKeeps

LEMMA RewriteFailsKeeps ==
  ASSUME IInv, NEW h \in Hosts, RewriteFails(h)
  PROVE  IInv'
  <1>t. /\ task \in [Hosts -> Tasks] /\ task[h] \in Tasks
        /\ registry \in [Hosts -> SUBSET Dirs] /\ templates \in [Hosts -> SUBSET Dirs]
        /\ session \in [Sessions -> SessionRecords] /\ removing \subseteq Dirs
    BY Types
  <1>u. /\ host[h] = "up" /\ task[h].kind = "rewrite"
        /\ removing' = removing \cup {task[h].dir}
        /\ UNCHANGED <<host, pid, active, templates, disk, owner, stuck, handed, due>>
    BY DEF RewriteFails
  <1>r. RewriteOK(h)
    BY <1>u DEF IInv, HostInv, TaskOK
  <1>a. /\ task' = [task EXCEPT ![h] = task'[h]] /\ task'[h] \in Tasks
        /\ task'[h].kind = "undo" /\ task'[h].stage = "remove" /\ task'[h].dir = task[h].dir
    <2>1. task' = [task EXCEPT ![h] = task'[h]] /\ task'[h] = UndoneBy(task[h])
      BY <1>t DEF RewriteFails
    <2>q. QED BY <1>t, <2>1 DEF Tasks, UndoneBy, RemovalOf
  <1>b. UNCHANGED <<session, registry>>
    <2>1. PICK s \in Sessions : s = task[h].session
      BY <1>r DEF RewriteOK
    <2>2. session' = [session EXCEPT ![s].dirs = @] /\ registry' = [registry EXCEPT ![h] = @]
      BY <2>1 DEF RewriteFails, HandOver, WithDir
    <2>3. [session[s] EXCEPT !.dirs = session[s].dirs] = session[s]
      BY <1>t DEF SessionRecords
    <2>q. QED BY <1>t, <2>2, <2>3
  <1>1. OwnObjects(h) /\ QuietDisk
    BY <1>t, <1>u, <1>a, <1>b DEF OwnObjects, QuietDisk
  <1>2. SessionsOK' /\ OwnDirs(h)'
    BY <1>u, <1>b DEF IInv, GlobalInv, SessionsOK, SessionInv, HostInv, OwnDirs
  <1>3. TaskOK(h)'
    BY <1>u, <1>r, <1>a DEF TaskOK, RewriteOK, CleanOK, OnDisk
  <1>4. RemembersAllBut(h, {})
    BY <1>u, <1>a, <1>b DEF RemembersAllBut, Remembers, InHand, HeldBy
  <1>5. SweepsOn(h)
    BY <1>u DEF SweepsOn, Pending
  <1>6. removing' \subseteq Dirs
    BY <1>t, <1>u, <1>r DEF RewriteOK, OnDisk
  <1>q. QED BY <1>1, <1>2, <1>3, <1>4, <1>5, <1>6, QuietKeeps

LEMMA EndSessionKeeps ==
  ASSUME IInv, NEW h \in Hosts, NEW s \in Sessions, NEW from, NEW to \in {"stopped", "exited"},
         "none" \notin from, EndSession(h, s, from, to)
  PROVE  IInv'
  <1>t. /\ task \in [Hosts -> Tasks]
        /\ registry \in [Hosts -> SUBSET Dirs] /\ templates \in [Hosts -> SUBSET Dirs]
        /\ session \in [Sessions -> SessionRecords] /\ removing \subseteq Dirs
    BY Types
  <1>u. /\ session[s].host = h /\ session[s].phase # "none"
        /\ session' = [session EXCEPT ![s].phase = to]
        /\ UNCHANGED <<host, pid, active, registry, templates, disk, owner, removing, stuck,
                       handed, due>>
    BY DEF EndSession, disks
  <1>r. /\ host[h] = "up" /\ task[h].kind = "idle"
        /\ \A d \in Dirs : ~InHand(h, d) /\ ~Pending(h, d)
    BY ReadyIsEmptyHanded DEF EndSession
  <1>a. /\ task' = [task EXCEPT ![h] = task'[h]] /\ task'[h] \in Tasks
        /\ task'[h].kind = "clean" /\ task'[h].stage = "scan"
        /\ task'[h].session = s /\ task'[h].dir = None
    BY <1>t DEF EndSession, Tasks, Idle
  <1>b. /\ \A x \in Sessions : /\ session'[x].host = session[x].host
                              /\ session'[x].dirs = session[x].dirs
        /\ session'[s].phase = to /\ \A x \in Sessions \ {s} : session'[x] = session[x]
        /\ session' \in [Sessions -> SessionRecords]
    BY <1>t, <1>u DEF SessionRecords
  <1>1. OwnObjects(h) /\ QuietDisk
    BY <1>t, <1>u, <1>r, <1>a, <1>b DEF OwnObjects, QuietDisk
  <1>2. SessionsOK'
    BY <1>u, <1>b, NoneIsNothing DEF IInv, GlobalInv, SessionsOK, SessionInv
  <1>3. TaskOK(h)' /\ OwnDirs(h)'
    BY <1>u, <1>a, <1>b DEF IInv, HostInv, TaskOK, CleanOK, OwnDirs
  <1>4. RemembersAllBut(h, {})
    <2>1. ASSUME NEW d \in OnDisk, NEW x \in Sessions, HeldBy(h, d, x)
          PROVE  HeldBy(h, d, x)'
      BY <1>r, <1>a, <1>b, <2>1 DEF HeldBy
    <2>q. QED BY <1>u, <1>r, <2>1 DEF RemembersAllBut, Remembers, OnDisk
  <1>5. SweepsOn(h)
    BY <1>r DEF SweepsOn, Pending
  <1>q. QED BY <1>t, <1>u, <1>1, <1>2, <1>3, <1>4, <1>5, QuietKeeps

LEMMA StopSessionKeeps ==
  ASSUME IInv, NEW h \in Hosts, NEW s \in Sessions, StopSession(h, s)
  PROVE  IInv'
  BY EndSessionKeeps DEF StopSession

LEMMA AdapterExitsKeeps ==
  ASSUME IInv, NEW h \in Hosts, NEW s \in Sessions, AdapterExits(h, s)
  PROVE  IInv'
  BY EndSessionKeeps DEF AdapterExits

LEMMA CleanEndsKeeps ==
  ASSUME IInv, NEW h \in Hosts, Busy(h, "clean", "scan"),
         session[task[h].session].dirs = {}, task' = [task EXCEPT ![h] = Idle],
         UNCHANGED <<session, removing>>,
         UNCHANGED <<host, pid, active, registry, templates, disk, owner, stuck, handed, due>>
  PROVE  IInv'
  <1>t. /\ task \in [Hosts -> Tasks]
        /\ registry \in [Hosts -> SUBSET Dirs] /\ templates \in [Hosts -> SUBSET Dirs]
        /\ session \in [Sessions -> SessionRecords] /\ removing \subseteq Dirs
    BY Types
  <1>u. host[h] = "up" /\ task[h].kind = "clean" /\ task[h].dir = None /\ Idle \in Tasks
    BY DEF Busy, Idle, Tasks, IInv, HostInv, TaskOK
  <1>1. OwnObjects(h) /\ QuietDisk
    BY <1>t, <1>u DEF OwnObjects, QuietDisk
  <1>2. SessionsOK' /\ OwnDirs(h)'
    BY DEF IInv, GlobalInv, SessionsOK, SessionInv, HostInv, OwnDirs
  <1>3. TaskOK(h)'
    BY <1>t DEF TaskOK, CleanOK, Idle
  <1>4. RemembersAllBut(h, {})
    BY <1>u, NoneIsNothing DEF RemembersAllBut, Remembers, InHand, HeldBy, OnDisk
  <1>5. SweepsOn(h)
    BY <1>u DEF SweepsOn, Pending
  <1>q. QED BY <1>t, <1>1, <1>2, <1>3, <1>4, <1>5, QuietKeeps

LEMMA CleanPopsKeeps ==
  ASSUME IInv, NEW h \in Hosts, Busy(h, "clean", "scan"), NEW d \in session[task[h].session].dirs,
         session' = [session EXCEPT ![task[h].session].dirs = @ \ {d}],
         task' = [task EXCEPT ![h] = RemovalOf(@, d)], removing' = removing \cup {d},
         UNCHANGED <<host, pid, active, registry, templates, disk, owner, stuck, handed, due>>
  PROVE  IInv'
  <1>t. /\ task \in [Hosts -> Tasks] /\ task[h] \in Tasks
        /\ registry \in [Hosts -> SUBSET Dirs] /\ templates \in [Hosts -> SUBSET Dirs]
        /\ session \in [Sessions -> SessionRecords] /\ removing \subseteq Dirs
    BY Types
  <1>u. host[h] = "up" /\ task[h].kind = "clean" /\ task[h].dir = None
    BY DEF Busy, IInv, HostInv, TaskOK
  <1>s. PICK s \in Sessions : s = task[h].session /\ session[s].host = h
    BY <1>u DEF IInv, HostInv, TaskOK, CleanOK
  <1>d. d \in Dirs /\ owner[d] = h
    BY <1>t, <1>s DEF SessionRecords, IInv, GlobalInv, SessionInv
  <1>a. /\ task' = [task EXCEPT ![h] = task'[h]] /\ task'[h] \in Tasks
        /\ task'[h].kind = "clean" /\ task'[h].stage = "remove"
        /\ task'[h].session = s /\ task'[h].dir = d
    <2>1. task' = [task EXCEPT ![h] = task'[h]] /\ task'[h] = RemovalOf(task[h], d)
      BY <1>t
    <2>q. QED BY <1>t, <1>u, <1>s, <1>d, <2>1, RemovalTask
  <1>b. /\ session' \in [Sessions -> SessionRecords]
        /\ session'[s].host = h /\ session'[s].phase = session[s].phase
        /\ session'[s].dirs = session[s].dirs \ {d}
        /\ \A x \in Sessions \ {s} : session'[x] = session[x]
    <2>1. session' = [session EXCEPT ![s].dirs = @ \ {d}]
      BY <1>s
    <2>2. session'[s] = [session[s] EXCEPT !.dirs = session[s].dirs \ {d}]
      BY <1>t, <2>1
    <2>3. /\ session'[s] \in SessionRecords
          /\ session'[s].host = h /\ session'[s].phase = session[s].phase
          /\ session'[s].dirs = session[s].dirs \ {d}
      BY <1>t, <1>s, <2>2 DEF SessionRecords
    <2>q. QED BY <1>t, <2>1, <2>3
  <1>1. OwnObjects(h) /\ QuietDisk
    BY <1>t, <1>u, <1>s, <1>a, <1>b DEF OwnObjects, QuietDisk
  <1>2. SessionsOK'
    <2>1. ASSUME NEW x \in Sessions PROVE SessionInv(x)'
      BY <1>s, <1>b DEF IInv, GlobalInv, SessionInv
    <2>q. QED BY <2>1 DEF SessionsOK
  <1>3. TaskOK(h)'
    BY <1>s, <1>d, <1>a, <1>b DEF TaskOK, CleanOK
  <1>7. OwnDirs(h)'
    BY DEF IInv, HostInv, OwnDirs
  <1>4. RemembersAllBut(h, {})
    <2>1. ASSUME NEW x \in OnDisk, NEW y \in Sessions, HeldBy(h, x, y)
          PROVE  HeldBy(h, x, y)' \/ x = d
      BY <1>u, <1>s, <1>a, <1>b, <2>1 DEF HeldBy
    <2>q. QED BY <1>u, <1>a, <2>1, NoneIsNothing DEF RemembersAllBut, Remembers, InHand, OnDisk
  <1>5. SweepsOn(h)
    BY <1>u DEF SweepsOn, Pending
  <1>6. removing' \subseteq Dirs
    BY <1>t, <1>d
  <1>q. QED BY <1>1, <1>2, <1>3, <1>4, <1>5, <1>6, <1>7, QuietKeeps

LEMMA CleanNextKeeps ==
  ASSUME IInv, NEW h \in Hosts, CleanNext(h)
  PROVE  IInv'
  BY CleanEndsKeeps, CleanPopsKeeps DEF CleanNext

LEMMA InjectStartsKeeps ==
  ASSUME IInv, NEW h \in Hosts, InjectStarts(h)
  PROVE  IInv'
  <1>t. /\ task \in [Hosts -> Tasks] /\ task[h] \in Tasks
        /\ registry \in [Hosts -> SUBSET Dirs]
        /\ templates \in [Hosts -> SUBSET Dirs] /\ templates[h] \subseteq Dirs
        /\ session \in [Sessions -> SessionRecords]
        /\ disk \in [Dirs -> Entry \cup {None}] /\ owner \in [Dirs -> Hosts \cup {None}]
    BY Types
  <1>u. UNCHANGED <<host, pid, active, task, registry, session, handed, removing, stuck, due>>
    BY DEF InjectStarts
  <1>r. /\ host[h] = "up" /\ task[h].kind = "idle" /\ task[h].dir = None
        /\ \A x \in Dirs : ~InHand(h, x) /\ ~Pending(h, x)
    BY ReadyIsEmptyHanded DEF InjectStarts
  <1>a. PICK d \in Dirs :
            /\ owner[d] = None /\ owner' = [owner EXCEPT ![d] = h]
            /\ disk' = [disk EXCEPT ![d] = [files |-> {"template"}, pid |-> None]]
            /\ templates' = [templates EXCEPT ![h] = @ \cup {d}]
    BY DEF InjectStarts, Create, Fresh
  <1>b. /\ disk' = [disk EXCEPT ![d] = disk'[d]] /\ disk'[d] \in Entry
        /\ disk'[d].files = {"template"} /\ disk'[d].pid = None
    <2>1. disk' = [disk EXCEPT ![d] = disk'[d]] /\ disk'[d] = [files |-> {"template"}, pid |-> None]
      BY <1>t, <1>a
    <2>q. QED BY <2>1 DEF Entry, Files
  <1>c. /\ owner' = [owner EXCEPT ![d] = owner'[d]] /\ owner'[d] = h
        /\ templates' = [templates EXCEPT ![h] = templates'[h]]
        /\ templates'[h] = templates[h] \cup {d}
    BY <1>t, <1>a
  <1>d. d \notin handed /\ host'[h] # "down" /\ \A x \in Sessions : d \notin session[x].dirs
    BY <1>u, <1>a, <1>r, NoneIsNothing DEF IInv, GlobalInv, DirInv, SessionInv
  <1>1. OwnObjects(h)
    BY <1>t, <1>u, <1>r, <1>c DEF OwnObjects
  <1>2. OneDir(d)
    BY <1>u, <1>b, <1>c DEF OneDir
  <1>3. SessionsOK'
    <2>1. ASSUME NEW x \in Sessions, NEW e \in session[x].dirs
          PROVE  owner'[e] = session[x].host
      <3>1. e \in Dirs /\ e # d /\ owner[e] = session[x].host
        BY <1>t, <1>d, <2>1 DEF IInv, GlobalInv, SessionInv, SessionRecords
      <3>q. QED BY <1>t, <1>c, <3>1
    <2>q. QED BY <1>u, <2>1 DEF IInv, GlobalInv, SessionsOK, SessionInv
  <1>4. SparesDir(h, d)
    BY <1>a, <1>c, NoneIsNothing DEF SparesDir
  <1>5. DirInv(d)'
    BY <1>u, <1>b, <1>c, <1>d, NoneIsNothing DEF DirInv, OnDisk
  <1>6. TaskOK(h)'
    BY <1>u, <1>r DEF IInv, HostInv, TaskOK, CleanOK
  <1>7. OwnDirs(h)'
    <2>1. ASSUME NEW x \in registry[h] \cup templates[h]
          PROVE  owner'[x] = h
      <3>1. x \in Dirs /\ owner[x] = h
        BY <1>t DEF IInv, HostInv, OwnDirs
      <3>q. QED BY <1>t, <1>c, <3>1
    <2>q. QED BY <1>u, <1>c, <2>1 DEF OwnDirs
  <1>8. RemembersAllBut(h, {d})
    BY <1>u, <1>c, <1>r DEF RemembersAllBut, Remembers, HeldBy, OnDisk
  <1>9. SweepsOn(h)
    BY <1>r DEF SweepsOn, Pending
  <1>10. Accounted(h, d)'
    BY <1>b, <1>c DEF Accounted
  <1>q. QED BY <1>1, <1>2, <1>3, <1>4, <1>5, <1>6, <1>7, <1>8, <1>9, <1>10, OneDirKeeps

LEMMA InjectEndsKeeps ==
  ASSUME IInv, NEW h \in Hosts, NEW d \in Dirs, InjectEnds(h, d)
  PROVE  IInv'
  <1>t. /\ task \in [Hosts -> Tasks] /\ task[h] \in Tasks
        /\ registry \in [Hosts -> SUBSET Dirs]
        /\ templates \in [Hosts -> SUBSET Dirs] /\ templates[h] \subseteq Dirs
        /\ session \in [Sessions -> SessionRecords]
        /\ disk \in [Dirs -> Entry \cup {None}] /\ owner \in [Dirs -> Hosts \cup {None}]
    BY Types
  <1>u. d \in templates[h] /\ UNCHANGED <<host, pid, active, task, registry, session, owner, due>>
    BY DEF InjectEnds
  <1>r. /\ host[h] = "up" /\ task[h].kind = "idle" /\ task[h].dir = None
        /\ \A x \in Dirs : ~InHand(h, x) /\ ~Pending(h, x)
    BY ReadyIsEmptyHanded DEF InjectEnds
  <1>o. owner[d] = h
    BY <1>u DEF IInv, HostInv, OwnDirs
  <1>a. /\ templates' = [templates EXCEPT ![h] = templates'[h]]
        /\ templates'[h] = templates[h] \ {d}
    BY <1>t DEF InjectEnds
  <1>b. /\ disk' = [disk EXCEPT ![d] = disk'[d]] /\ disk'[d] \in {None, disk[d]}
        /\ stuck' \ {d} = stuck \ {d} /\ removing' \ {d} = removing \ {d}
        /\ handed' \ {d} = handed \ {d}
        /\ disk'[d] # None =>
            d \in stuck' /\ removing' = removing /\ handed' = handed /\ stuck \subseteq stuck'
        /\ d \in handed' => d \in handed
    <2>1. CASE Gone(d)
      BY <1>t, <2>1 DEF Gone
    <2>2. CASE stuck' = stuck \cup {d} /\ UNCHANGED <<disk, removing, handed>>
      BY <1>t, <2>2
    <2>q. QED BY <2>1, <2>2 DEF InjectEnds
  <1>1. OwnObjects(h)
    BY <1>t, <1>u, <1>r, <1>a DEF OwnObjects
  <1>2. OneDir(d)
    BY <1>t, <1>u, <1>b DEF OneDir
  <1>3. SessionsOK' /\ OwnDirs(h)'
    BY <1>u, <1>a DEF IInv, GlobalInv, SessionsOK, SessionInv, HostInv, OwnDirs
  <1>4. SparesDir(h, d)
    BY <1>u, <1>o, <1>b DEF SparesDir
  <1>5. DirInv(d)'
    <2>1. DirInv(d)
      BY DEF IInv, GlobalInv
    <2>2. CASE disk'[d] = None
      BY <1>u, <1>o, <1>b, <2>1, <2>2 DEF DirInv, OnDisk
    <2>3. CASE disk'[d] # None
      BY <1>u, <1>b, <2>1, <2>3 DEF DirInv, OnDisk
    <2>q. QED BY <2>2, <2>3
  <1>6. TaskOK(h)'
    BY <1>u, <1>r DEF IInv, HostInv, TaskOK, CleanOK
  <1>7. RemembersAllBut(h, {d})
    BY <1>u, <1>a, <1>r DEF RemembersAllBut, Remembers, HeldBy, OnDisk
  <1>8. SweepsOn(h)
    BY <1>r DEF SweepsOn, Pending
  <1>9. Accounted(h, d)'
    BY <1>b DEF Accounted, OnDisk
  <1>q. QED BY <1>1, <1>2, <1>3, <1>4, <1>5, <1>6, <1>7, <1>8, <1>9, OneDirKeeps

(* drain() moves the registered directories into the hand of the task. *)
LEMMA DrainKeeps ==
  ASSUME IInv, NEW h \in Hosts, NEW kind \in {"drain", "exit"}, Ready(h), Drain(h, kind),
         active' \subseteq active,
         UNCHANGED <<host, pid, templates, session, disks, handed, due>>
  PROVE  IInv'
  <1>t. /\ task \in [Hosts -> Tasks]
        /\ registry \in [Hosts -> SUBSET Dirs] /\ registry[h] \subseteq Dirs
        /\ templates \in [Hosts -> SUBSET Dirs]
        /\ session \in [Sessions -> SessionRecords] /\ removing \subseteq Dirs
    BY Types
  <1>u. UNCHANGED <<host, pid, templates, session, disk, owner, removing, stuck, handed, due>>
    BY DEF disks
  <1>r. /\ host[h] = "up" /\ task[h].kind = "idle"
        /\ \A d \in Dirs : ~InHand(h, d) /\ ~Pending(h, d)
    BY ReadyIsEmptyHanded
  <1>a. /\ task' = [task EXCEPT ![h] = task'[h]] /\ task'[h] \in Tasks
        /\ task'[h].kind = kind /\ task'[h].stage = "scan" /\ task'[h].dir = None
        /\ task'[h].todo = registry[h]
        /\ registry' = [registry EXCEPT ![h] = registry'[h]] /\ registry'[h] = {}
    BY <1>t DEF Drain, Tasks, Idle
  <1>1. OwnObjects(h) /\ QuietDisk
    BY <1>t, <1>u, <1>r, <1>a DEF OwnObjects, QuietDisk
  <1>2. SessionsOK'
    BY <1>u DEF IInv, GlobalInv, SessionsOK, SessionInv
  <1>3. TaskOK(h)' /\ OwnDirs(h)'
    BY <1>u, <1>a DEF IInv, HostInv, TaskOK, CleanOK, OwnDirs
  <1>4. RemembersAllBut(h, {})
    BY <1>u, <1>r, <1>a DEF RemembersAllBut, Remembers, InHand, HeldBy, OnDisk
  <1>5. SweepsOn(h)
    BY <1>r DEF SweepsOn, Pending
  <1>q. QED BY <1>t, <1>u, <1>1, <1>2, <1>3, <1>4, <1>5, QuietKeeps

LEMMA TerminationSignalKeeps ==
  ASSUME IInv, NEW h \in Hosts, TerminationSignal(h)
  PROVE  IInv'
  BY DrainKeeps DEF TerminationSignal

LEMMA DeactivateKeeps ==
  ASSUME IInv, NEW h \in Hosts, Deactivate(h)
  PROVE  IInv'
  BY DrainKeeps DEF Deactivate

(* The end of a host, wherever it comes. *)
LEMMA DiesKeeps ==
  ASSUME IInv, NEW h \in Hosts, host[h] = "up", Dies(h),
         UNCHANGED <<pid, disks, handed, due>>
  PROVE  IInv'
  <1>t. /\ task \in [Hosts -> Tasks]
        /\ registry \in [Hosts -> SUBSET Dirs] /\ templates \in [Hosts -> SUBSET Dirs]
        /\ session \in [Sessions -> SessionRecords]
    BY Types
  <1>u. /\ host' = [host EXCEPT ![h] = "dead"] /\ task' = [task EXCEPT ![h] = Idle]
        /\ registry' = [registry EXCEPT ![h] = {}] /\ templates' = [templates EXCEPT ![h] = {}]
        /\ active' = active \ {h} /\ Idle \in Tasks
        /\ UNCHANGED <<pid, disk, owner, removing, stuck, handed, due>>
    BY DEF Dies, disks, Idle, Tasks
  <1>s. \A s \in Sessions :
            session'[s] = IF session[s].host = h
                          THEN [host |-> h, phase |-> "exited", dirs |-> {}] ELSE session[s]
    BY DEF Dies
  <1>h. host \in [Hosts -> {"down", "up", "dead"}] /\ host'[h] = "dead"
    BY <1>u DEF IInv, GlobalInv, TypeOK
  <1>1. TypeOK'
    <2>1. session' \in [Sessions -> SessionRecords]
      BY <1>t DEF Dies, SessionRecords
    <2>q. QED BY <1>t, <1>u, <2>1 DEF IInv, GlobalInv, TypeOK, SessionRecords
  <1>2. \A d \in Dirs : DirInv(d)'
    BY <1>u, <1>h DEF IInv, GlobalInv, DirInv, OnDisk
  <1>3. \A s \in Sessions : SessionInv(s)'
    BY <1>u, <1>s, NoneIsNothing DEF IInv, GlobalInv, SessionInv
  <1>4. GlobalInv'
    BY <1>u, <1>1, <1>2, <1>3 DEF IInv, GlobalInv
  <1>5. Spares(h)
    <2>1. \A g \in Hosts \ {h} : SparesHost(g)
      BY <1>t, <1>u, <1>h DEF SparesHost
    <2>2. \A d \in Dirs : SparesDir(h, d)
      BY <1>u DEF SparesDir
    <2>q. QED BY <1>u, <1>s, <1>h, <2>1, <2>2 DEF Spares
  <1>6. LifeOK(h)'
    BY <1>t, <1>u, <1>h DEF IInv, HostInv, LifeOK
  <1>7. TaskOK(h)'
    BY <1>t, <1>u DEF TaskOK, CleanOK, Idle
  <1>8. OwnDirs(h)' /\ Found(h)' /\ Held(h)'
    BY <1>t, <1>u, <1>h DEF OwnDirs, Found, Held
  <1>9. DueOK(h)'
    <2>1. ASSUME NEW d \in due[h]
          PROVE  owner'[d] # None /\ host'[owner'[d]] = "dead"
      <3>1. d \in Dirs /\ owner[d] # None /\ host[owner[d]] = "dead"
        BY <2>1 DEF IInv, GlobalInv, TypeOK, HostInv, DueOK
      <3>q. QED BY <1>5, <3>1, OwnersStay
    <2>q. QED BY <1>u, <1>h, <2>1 DEF DueOK
  <1>q. QED BY <1>4, <1>5, <1>6, <1>7, <1>8, <1>9, ActionKeeps DEF HostInv

LEMMA ExitKeeps ==
  ASSUME IInv, NEW h \in Hosts, Exit(h)
  PROVE  IInv'
  BY DrainKeeps, DiesKeeps DEF Exit, Ready

LEMMA DrainNextKeeps ==
  ASSUME IInv, NEW h \in Hosts, DrainNext(h)
  PROVE  IInv'
  <1>t. /\ task \in [Hosts -> Tasks] /\ task[h] \in Tasks
        /\ registry \in [Hosts -> SUBSET Dirs] /\ templates \in [Hosts -> SUBSET Dirs]
        /\ session \in [Sessions -> SessionRecords] /\ removing \subseteq Dirs
    BY Types
  <1>u. /\ host[h] = "up" /\ task[h].kind \in {"drain", "exit"} /\ task[h].stage = "scan"
        /\ UNCHANGED <<host, pid, active, registry, templates, session, disk, owner, stuck,
                       handed, due>>
    BY DEF DrainNext
  <1>a. PICK d \in task[h].todo :
            /\ task' = [task EXCEPT ![h] = task'[h]] /\ task'[h] \in Tasks
            /\ task'[h].kind = task[h].kind /\ task'[h].stage = "remove" /\ task'[h].dir = d
            /\ task'[h].todo = task[h].todo \ {d} /\ removing' = removing \cup {d}
    <2>1. PICK d \in task[h].todo :
            /\ task' = [task EXCEPT ![h] = [RemovalOf(@, d) EXCEPT !.todo = task[h].todo \ {d}]]
            /\ removing' = removing \cup {d}
      BY DEF DrainNext
    <2>2. PICK t \in Tasks :
            /\ t = RemovalOf(task[h], d) /\ t.kind = task[h].kind /\ t.stage = "remove"
            /\ t.dir = d
      <3>1. d \in Dirs
        BY <1>t DEF Tasks
      <3>q. QED BY <1>t, <3>1, RemovalTask
    <2>3. task' = [task EXCEPT ![h] = task'[h]] /\ task'[h] = [t EXCEPT !.todo = task[h].todo \ {d}]
      BY <1>t, <2>1, <2>2
    <2>4. task[h].todo \ {d} \in SUBSET Dirs
      BY <1>t DEF Tasks
    <2>q. QED BY <2>1, <2>2, <2>3, <2>4 DEF Tasks
  <1>b. d \in Dirs /\ CleanOK(h) /\ task[h].dir = None /\ owner[d] = h
    BY <1>t, <1>u DEF Tasks, IInv, HostInv, TaskOK, CleanOK
  <1>1. OwnObjects(h) /\ QuietDisk
    BY <1>t, <1>u, <1>a DEF OwnObjects, QuietDisk
  <1>2. SessionsOK' /\ OwnDirs(h)'
    BY <1>u DEF IInv, GlobalInv, SessionsOK, SessionInv, HostInv, OwnDirs
  <1>3. TaskOK(h)'
    BY <1>u, <1>a, <1>b DEF TaskOK, CleanOK
  <1>4. RemembersAllBut(h, {})
    BY <1>u, <1>a, <1>b, NoneIsNothing DEF RemembersAllBut, Remembers, InHand, HeldBy, OnDisk
  <1>5. SweepsOn(h)
    BY <1>u DEF SweepsOn, Pending
  <1>6. removing' \subseteq Dirs
    BY <1>t, <1>a, <1>b
  <1>q. QED BY <1>1, <1>2, <1>3, <1>4, <1>5, <1>6, QuietKeeps

LEMMA DrainIdleKeeps ==
  ASSUME IInv, NEW h \in Hosts, host[h] = "up", task[h].kind = "drain",
         task[h].stage = "scan", task[h].todo = {}, task' = [task EXCEPT ![h] = Idle],
         UNCHANGED <<host, active, registry, templates, session>>,
         UNCHANGED <<pid, disks, handed, due>>
  PROVE  IInv'
  <1>t. /\ task \in [Hosts -> Tasks]
        /\ registry \in [Hosts -> SUBSET Dirs] /\ templates \in [Hosts -> SUBSET Dirs]
        /\ session \in [Sessions -> SessionRecords] /\ removing \subseteq Dirs
    BY Types
  <1>u. UNCHANGED <<disk, owner, removing, stuck>> /\ Idle \in Tasks /\ task[h].dir = None
    BY DEF disks, Idle, Tasks, IInv, HostInv, TaskOK
  <1>1. OwnObjects(h) /\ QuietDisk
    BY <1>t, <1>u DEF OwnObjects, QuietDisk
  <1>2. SessionsOK' /\ OwnDirs(h)'
    BY <1>u DEF IInv, GlobalInv, SessionsOK, SessionInv, HostInv, OwnDirs
  <1>3. TaskOK(h)'
    BY <1>t DEF TaskOK, CleanOK, Idle
  <1>4. RemembersAllBut(h, {})
    BY <1>u, NoneIsNothing DEF RemembersAllBut, Remembers, InHand, HeldBy, OnDisk
  <1>5. SweepsOn(h)
    BY DEF SweepsOn, Pending
  <1>q. QED BY <1>t, <1>u, <1>1, <1>2, <1>3, <1>4, <1>5, QuietKeeps

LEMMA DrainEndsKeeps ==
  ASSUME IInv, NEW h \in Hosts, DrainEnds(h)
  PROVE  IInv'
  BY DrainIdleKeeps, DiesKeeps DEF DrainEnds

LEMMA CrashKeeps ==
  ASSUME IInv, NEW h \in Hosts, Crash(h)
  PROVE  IInv'
  BY DiesKeeps DEF Crash

-----------------------------------------------------------------------------
LEMMA InitIInv == Init => IInv
  <1> SUFFICES ASSUME Init PROVE IInv
    OBVIOUS
  <1> USE NoneIsNothing
  <1>1. TypeOK /\ disk \in [Dirs -> Entry \cup {None}]
    BY DEF Init, TypeOK, Tasks, Idle
  <1>2. \A d \in Dirs : DirInv(d)
    BY DEF Init, DirInv
  <1>3. \A s \in Sessions : SessionInv(s)
    BY DEF Init, SessionInv
  <1>4. ASSUME NEW h \in Hosts
        PROVE  HostInv(h)
    BY DEF Init, HostInv, LifeOK, TaskOK, CleanOK, OwnDirs, Found, Held, DueOK, Idle
  <1>q. QED BY <1>1, <1>2, <1>3, <1>4 DEF IInv, GlobalInv

LEMMA TaskStepKeeps ==
  ASSUME IInv, NEW h \in Hosts, TaskStep(h)
  PROVE  IInv'
  BY UnlinkKeeps, RemovalEndsKeeps, ReadPidKeeps, JudgeKeeps, SweepEndsKeeps, WriteEnvKeeps,
     OpenPidKeeps, WritePidKeeps, RewriteFailsKeeps, CleanNextKeeps, DrainNextKeeps,
     DrainEndsKeeps
  DEF TaskStep

LEMMA SessionStepKeeps ==
  ASSUME IInv, NEW h \in Hosts, SessionStep(h)
  PROVE  IInv'
  BY OpenSessionKeeps, MakeDirKeeps, StopSessionKeeps, AdapterExitsKeeps DEF SessionStep

LEMMA HostStepKeeps ==
  ASSUME IInv, NEW h \in Hosts, HostStep(h)
  PROVE  IInv'
  BY ActivateKeeps, InjectStartsKeeps, InjectEndsKeeps, TerminationSignalKeeps, DeactivateKeeps,
     ExitKeeps, CrashKeeps
  DEF HostStep

LEMMA StepKeeps == IInv /\ [Next]_vars => IInv'
  <1> SUFFICES ASSUME IInv, [Next]_vars PROVE IInv'
    OBVIOUS
  <1>1. CASE Next
    BY <1>1, TaskStepKeeps, SessionStepKeeps, HostStepKeeps DEF Next
  <1>2. CASE UNCHANGED vars
    <2>1. GlobalInv'
      BY <1>2 DEF vars, disks, IInv, GlobalInv, TypeOK, DirInv, SessionInv, OnDisk
    <2>2. ASSUME NEW h \in Hosts PROVE HostInv(h)'
      <3>1. HostInv(h)
        BY DEF IInv
      <3>2. TaskOK(h)'
        BY <1>2, <3>1 DEF vars, disks, HostInv, TaskOK, SweepOK, RewriteOK, CleanOK, OnDisk
      <3>3. DueOK(h)'
        BY <1>2, <3>1 DEF vars, disks, HostInv, DueOK, Swept, PidUsedAgain, Pending, OnDisk
      <3>4. LifeOK(h)' /\ OwnDirs(h)' /\ Found(h)'
        BY <1>2, <3>1 DEF vars, disks, HostInv, LifeOK, OwnDirs, Found, InHand, OnDisk
      <3>5. Held(h)'
        BY <1>2, <3>1 DEF vars, disks, HostInv, Held, HeldBy, InHand, OnDisk
      <3>q. QED BY <3>2, <3>3, <3>4, <3>5 DEF HostInv
    <2>q. QED BY <2>1, <2>2 DEF IInv
  <1>q. QED BY <1>1, <1>2

(* Every reachable state satisfies the invariant. *)
THEOREM Invariance == Spec => []IInv
  <1>q. QED BY InitIInv, StepKeeps, PTL DEF Spec

(* The variables hold what the objects of the hosts and the file system hold. *)
THEOREM TypeCorrect == Spec => []TypeOK
  <1>1. IInv => TypeOK
    BY DEF IInv, GlobalInv
  <1>q. QED BY <1>1, Invariance, PTL

(* sweepStale never takes a directory away from a host that is running. *)
THEOREM SweepAlwaysSparesLive == Spec => []SweepSparesLive
  <1>1. IInv => SweepSparesLive
    BY DEF IInv, HostInv, TaskOK, SweepOK, SweepSparesLive
  <1>q. QED BY <1>1, Invariance, PTL

(* deactivate and exit know of every directory that their host has on disk. *)
THEOREM CleanupAlwaysFindsAll == Spec => []CleanupFindsAll
  <1>1. IInv => CleanupFindsAll
    <2> SUFFICES ASSUME IInv, NEW h \in Hosts, Ready(h), NEW d \in OnDisk, owner[d] = h
                 PROVE  d \in registry[h] \cup templates[h] \cup stuck
      BY DEF CleanupFindsAll
    <2>1. task[h].kind = "idle" /\ task[h].dir = None
      BY DEF Ready, IInv, HostInv, TaskOK, CleanOK
    <2>q. QED BY <2>1, NoneIsNothing DEF Ready, IInv, HostInv, Found, InHand, OnDisk
  <1>q. QED BY <1>1, Invariance, PTL

(* An env file on disk has a session that has not ended and will clean it up. *)
THEOREM NothingEverOutlivesItsSession == Spec => []NothingOutlivesItsSession
  <1>1. IInv => NothingOutlivesItsSession
    <2> SUFFICES ASSUME IInv, NEW h \in Hosts, Ready(h), NEW d \in OnDisk \ stuck, owner[d] = h,
                        "env" \in disk[d].files
                 PROVE  \E s \in Sessions : session[s].phase # "exited" /\ d \in session[s].dirs
      BY DEF NothingOutlivesItsSession
    <2>1. task[h].kind = "idle" /\ task[h].dir = None
      BY DEF Ready, IInv, HostInv, TaskOK, CleanOK
    <2>q. QED BY <2>1, NoneIsNothing DEF Ready, IInv, HostInv, Held, HeldBy, InHand, OnDisk
  <1>q. QED BY <1>1, Invariance, PTL

(* An env file that a terminal was given names its owner until its removal    *)
(* begins, so a crash leaves it to the next sweep.                            *)
THEOREM HandedLeftoversAreSweepable == Spec => []HandedLeftoverIsSweepable
  <1>1. IInv => HandedLeftoverIsSweepable
    <2> SUFFICES ASSUME IInv, NEW d \in handed, Leftover(d)
                 PROVE  Sweepable(d) \/ d \in removing
      BY DEF HandedLeftoverIsSweepable
    <2>q. QED BY DEF IInv, GlobalInv, DirInv, Leftover, Sweepable, OnDisk
  <1>q. QED BY <1>1, Invariance, PTL

(* sweepStale passes over no leftover that it could recognise. *)
THEOREM SweepIsAlwaysComplete == Spec => []SweepIsComplete
  <1>1. IInv => SweepIsComplete
    BY DEF IInv, HostInv, DueOK, Swept, Pending, SweepIsComplete
  <1>q. QED BY <1>1, Invariance, PTL
=============================================================================
