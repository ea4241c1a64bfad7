---------------------------- MODULE StartupProofs ----------------------------
(***************************************************************************)
(* Proofs about Startup, for any number of processes, configurations,      *)
(* mails and failures.                                                     *)
(***************************************************************************)
EXTENDS Startup, MailQueueProofs, WellFoundedInduction, TLAPS

LockTypes ==
  /\ phase \in [Instances -> Phases]
  /\ conf \in [Instances -> RelayConfigs \cup {NoConfig}]
  /\ held \in [LockFiles -> Instances \cup {Nobody}]

(* A process that got past Config::load has a configuration. *)
Configured == \A i \in Instances : phase[i] # "off" => conf[i] \in RelayConfigs

(* A process past the lock holds it until run_relay returns. *)
LockHeld ==
  \A i \in Instances :
    Open(i) /\ ~ unlocked(conf[i].database)
      => held[lock_path(conf[i].database)] = i

LockInv == LockTypes /\ Configured /\ LockHeld

(* Nothing runs and nothing is locked at first. *)
LEMMA LockInit == Init => LockInv
  BY DEF Init, LockInv, LockTypes, Configured, LockHeld, Open, Phases

(* Releasing the lock of a process that gives its database up disturbs no   *)
(* other.                                                                   *)
LEMMA ReleaseKeepsLocks ==
  ASSUME LockInv, NEW i \in Instances, Release(i), LockTypes', ~ Open(i)',
         phase'[i] # "off" => conf'[i] \in RelayConfigs,
         \A j \in Instances : j # i => phase'[j] = phase[j] /\ conf'[j] = conf[j]
  PROVE  LockInv'
<1>1. Configured'
  BY DEF LockInv, Configured
<1>2. LockHeld'
  <2> SUFFICES ASSUME NEW j \in Instances, Open(j)', ~ unlocked(conf'[j].database)
               PROVE  held'[lock_path(conf'[j].database)] = j
    BY DEF LockHeld, unlocked, lock_path
  <2>1. j # i
    OBVIOUS
  <2>2. Open(j) /\ conf'[j] = conf[j] /\ conf[j] \in RelayConfigs
    BY <2>1 DEF Open, LockInv, Configured
  <2>3. held[lock_path(conf[j].database)] = j
    BY <2>2 DEF LockInv, LockHeld, unlocked
  <2>4. lock_path(conf[j].database) \in LockFiles
    BY <2>2 DEF LockFiles, Databases
  <2> QED  BY <2>1, <2>2, <2>3, <2>4 DEF Release
<1> QED  BY <1>1, <1>2 DEF LockInv

(* The end of a process frees its own locks only, *)
LEMMA ExitKeepsLocks ==
  ASSUME LockInv, NEW i \in Instances, Exit(i)
  PROVE  LockInv'
<1>1. LockTypes' /\ Release(i)
  BY DEF LockInv, LockTypes, Exit, Forget, Goto, Release, Phases
<1>2. \A j \in Instances : j # i => phase'[j] = phase[j] /\ conf'[j] = conf[j]
  BY DEF LockInv, LockTypes, Exit, Forget, Goto
<1>3. phase'[i] = "off" /\ ~ Open(i)'
  BY DEF LockInv, LockTypes, Exit, Forget, Goto, Open
<1> QED  BY <1>1, <1>2, <1>3, ReleaseKeepsLocks

(* and so does the return of run_relay. *)
LEMMA StopKeepsLocks ==
  ASSUME LockInv, NEW i \in Instances, Stop(i)
  PROVE  LockInv'
<1>1. LockTypes' /\ Release(i)
  BY DEF LockInv, LockTypes, Stop, Goto, Release, Phases
<1>2. \A j \in Instances : j # i => phase'[j] = phase[j] /\ conf'[j] = conf[j]
  BY DEF LockInv, LockTypes, Stop, Goto
<1>3. ~ Open(i)' /\ conf'[i] \in RelayConfigs
  BY DEF LockInv, LockTypes, Configured, Stop, Goto, Open
<1> QED  BY <1>1, <1>2, <1>3, ReleaseKeepsLocks

(* A step that only moves one process on past the lock, or leaves the       *)
(* processes and the locks alone, keeps the lock discipline.                *)
LEMMA AdvanceKeepsLocks ==
  ASSUME LockInv, NEW i \in Instances, NEW p \in Phases,
         Open(i), Goto(i, p), UNCHANGED <<conf, held>>
  PROVE  LockInv'
<1>1. LockTypes'
  BY DEF LockInv, LockTypes, Goto
<1>2. \A j \in Instances : /\ j # i => phase'[j] = phase[j]
                           /\ Open(j)' => Open(j)
                           /\ phase'[j] # "off" => phase[j] # "off"
  BY DEF LockInv, LockTypes, Goto, Open, Phases
<1> QED  BY <1>1, <1>2 DEF LockInv, Configured, LockHeld, unlocked, lock_path

(* Every step keeps the lock discipline; one case per action. *)
LEMMA LockNext == LockInv /\ [Next]_startupVars => LockInv'
<1> SUFFICES ASSUME LockInv, [Next]_startupVars PROVE LockInv'
  OBVIOUS
<1> USE StartupAssumption
<1>1. CASE UNCHANGED <<phase, conf, held>>
  BY <1>1 DEF LockInv, LockTypes, Configured, LockHeld, Open, unlocked, lock_path
<1>2. ASSUME NEW i \in Instances, NEW c \in RelayConfigs, Launch(i, c)
      PROVE  LockInv'
  <2>1. LockTypes'
    BY <1>2 DEF LockInv, LockTypes, Launch, Goto, Phases
  <2>2. \A j \in Instances : j # i => phase'[j] = phase[j] /\ conf'[j] = conf[j]
    BY <1>2 DEF LockInv, LockTypes, Launch, Goto
  <2>3. phase'[i] = "loaded" /\ conf'[i] = c /\ held' = held
    BY <1>2 DEF LockInv, LockTypes, Launch, Goto
  <2>4. Configured'
    BY <2>2, <2>3 DEF LockInv, Configured
  <2>5. LockHeld'
    BY <2>2, <2>3 DEF LockInv, LockHeld, Open, unlocked, lock_path
  <2> QED  BY <2>1, <2>4, <2>5 DEF LockInv
<1>3. ASSUME NEW i \in Instances, acquire_instance_lock(i)
      PROVE  LockInv'
  <2> DEFINE l == lock_path(conf[i].database)
  <2>1. CASE Exit(i)
    BY <2>1, ExitKeepsLocks
  <2>2. CASE /\ Goto(i, "locked") /\ UNCHANGED conf /\ phase[i] = "loaded"
             /\ unlocked(conf[i].database) \/ held[l] = Nobody
             /\ held' = IF unlocked(conf[i].database) THEN held
                        ELSE [held EXCEPT ![l] = i]
    <3>1. conf[i] \in RelayConfigs
      BY <2>2 DEF LockInv, Configured
    <3>2. l \in LockFiles
      BY <3>1 DEF LockFiles, Databases
    <3>3. LockTypes'
      BY <2>2, <3>2 DEF LockInv, LockTypes, Goto, Phases
    <3>4. \A j \in Instances : j # i => phase'[j] = phase[j]
      BY <2>2 DEF LockInv, LockTypes, Goto
    <3>5. Configured'
      BY <2>2, <3>1, <3>4 DEF LockInv, Configured
    <3>6. ASSUME NEW j \in Instances, Open(j)', ~ unlocked(conf[j].database)
          PROVE  held'[lock_path(conf[j].database)] = j
      <4>1. CASE j = i
        BY <4>1, <2>2, <3>2, <3>6 DEF LockInv, LockTypes
      <4>2. CASE j # i
        <5>1. Open(j) /\ held[lock_path(conf[j].database)] = j
          BY <4>2, <3>4, <3>6 DEF Open, LockInv, LockHeld
        <5>2. CASE unlocked(conf[i].database)
          BY <5>1, <5>2, <2>2
        <5>3. CASE ~ unlocked(conf[i].database)
          <6>1. held[l] = Nobody /\ held' = [held EXCEPT ![l] = i]
            BY <5>3, <2>2
          <6>2. lock_path(conf[j].database) # l
            BY <5>1, <6>1
          <6>3. lock_path(conf[j].database) \in LockFiles
            <7>1. conf[j] \in RelayConfigs
              BY <5>1 DEF LockInv, Configured, Open
            <7> QED  BY <7>1 DEF LockFiles, Databases
          <6> HIDE DEF l
          <6> QED  BY <5>1, <6>1, <6>2, <6>3 DEF LockInv, LockTypes
        <5> QED  BY <5>2, <5>3
      <4> QED  BY <4>1, <4>2
    <3>7. LockHeld'
      BY <3>6, <2>2 DEF LockHeld, unlocked, lock_path
    <3> QED  BY <3>3, <3>5, <3>7 DEF LockInv
  <2> QED  BY <2>1, <2>2, <1>3 DEF acquire_instance_lock
<1>4. ASSUME NEW i \in Instances, connect(i) PROVE LockInv'
  <2>1. CASE Exit(i)
    BY <2>1, ExitKeepsLocks
  <2>2. CASE Goto(i, "connected") /\ UNCHANGED <<conf, held>>
    BY <2>2, <1>4, AdvanceKeepsLocks DEF connect, Open, Phases
  <2> QED  BY <2>1, <2>2, <1>4 DEF connect
<1>5. ASSUME NEW i \in Instances, BuildTransports(i) PROVE LockInv'
  BY <1>5, AdvanceKeepsLocks DEF BuildTransports, Open, Phases
<1>6. ASSUME NEW i \in Instances, recover(i) PROVE LockInv'
  BY <1>6, AdvanceKeepsLocks DEF recover, Open, Phases
<1>7. ASSUME NEW i \in Instances, NEW m \in MailIds,
             Submit(i, m) \/ Claim(i, m) \/ Settle(i, m)
      PROVE  UNCHANGED <<phase, conf, held>>
  BY <1>7 DEF Submit, Claim, Settle
<1>8. ASSUME NEW i \in Instances, Stop(i) \/ Finish(i) \/ Crash(i) PROVE LockInv'
  BY <1>8, ExitKeepsLocks, StopKeepsLocks DEF Finish, Crash
<1>9. ASSUME NEW i \in Instances, Reclaim(i) PROVE UNCHANGED <<phase, conf, held>>
  BY <1>9 DEF Reclaim
<1> QED  BY <1>1, <1>2, <1>3, <1>4, <1>5, <1>6, <1>7, <1>8, <1>9 DEF Next, startupVars

(* If all configurations that name a file get the same lock, no two         *)
(* processes are ever between the lock and the return of run_relay on the   *)
(* same database, however they start, stop and crash.                       *)
THEOREM SingleRelay ==
  ASSUME OneLock
  PROVE  Spec => []OneRelayPerDatabase
<1>1. LockInv => OneRelayPerDatabase
  <2> SUFFICES ASSUME LockInv, NEW i \in Instances, NEW j \in Instances,
                      Open(i), Open(j), Store(i) = Store(j)
               PROVE  i = j
    BY DEF OneRelayPerDatabase
  <2>1. conf[i] \in RelayConfigs /\ conf[j] \in RelayConfigs
    BY DEF LockInv, Configured, Open
  <2>2. CASE in_memory(conf[i].database) \/ in_memory(conf[j].database)
    BY <2>1, <2>2, StartupAssumption DEF Store, sqlite_url
  <2>3. CASE ~ in_memory(conf[i].database) /\ ~ in_memory(conf[j].database)
    <3>1. conf[i].database = conf[j].database /\ ~ unlocked(conf[i].database)
      BY <2>1, <2>3, OneLock DEF OneLock, Store
    <3> QED  BY <3>1 DEF LockInv, LockHeld
  <2> QED  BY <2>2, <2>3
<1> QED  BY <1>1, LockInit, LockNext, PTL DEF Spec
-----------------------------------------------------------------------------
StoreTypes ==
  /\ tables \in [Stores -> Table]
  /\ working \in [Instances -> SUBSET MailIds]

(* Only a running dispatcher has deliveries. *)
OnlyRunningWorks == \A i \in Instances : working[i] # {} => phase[i] = "running"

(* The row of a mail that is being delivered is claimed. *)
RowsClaimed ==
  \A i \in Instances : \A m \in working[i] : tables[Store(i)][m].status = "sending"

DeliveryInv == LockInv /\ OneRelayPerDatabase /\ StoreTypes /\ OnlyRunningWorks /\ RowsClaimed

(* A process that has loaded its configuration has a database. *)
LEMMA StoreExists ==
  ASSUME LockInv, NEW i \in Instances, phase[i] # "off"
  PROVE  Store(i) \in Stores
<1>1. conf[i] \in RelayConfigs
  BY DEF LockInv, Configured
<1> QED  BY <1>1 DEF Store, Stores, Databases

(* A table that process i leaves in its database, with its own deliveries   *)
(* claimed, disturbs no delivery: the others work elsewhere.                *)
LEMMA OwnTableOnly ==
  ASSUME DeliveryInv, NEW i \in Instances, Open(i), NEW t \in Table,
         tables' = [tables EXCEPT ![Store(i)] = t] \/ (tables' = tables /\ t = tables[Store(i)]),
         UNCHANGED conf,
         working' \in [Instances -> SUBSET MailIds],
         \A j \in Instances : j # i => working'[j] = working[j],
         \A m \in working'[i] : t[m].status = "sending"
  PROVE  StoreTypes' /\ RowsClaimed'
<1>1. Store(i) \in Stores
  BY StoreExists DEF DeliveryInv, Open
<1>2. tables \in [Stores -> Table]
  BY DEF DeliveryInv, StoreTypes
<1>3. StoreTypes'
  BY <1>1, <1>2 DEF StoreTypes
<1>4. ASSUME NEW j \in Instances, NEW m \in working'[j]
      PROVE  tables'[Store(j)][m].status = "sending"
  <2>1. CASE j = i
    <3>1. tables'[Store(i)] = t
      BY <1>1, <1>2
    <3> QED  BY <2>1, <3>1, <1>4
  <2>2. CASE j # i
    <3>1. m \in working[j] /\ phase[j] = "running"
      BY <2>2, <1>4 DEF DeliveryInv, OnlyRunningWorks
    <3>2. Store(j) # Store(i) /\ Store(j) \in Stores
      BY <2>2, <3>1, StoreExists DEF DeliveryInv, OneRelayPerDatabase, Open
    <3>3. tables'[Store(j)] = tables[Store(j)]
      BY <1>1, <1>2, <3>2
    <3> QED  BY <3>1, <3>3 DEF DeliveryInv, RowsClaimed
  <2> QED  BY <2>1, <2>2
<1>5. \A j \in Instances : Store(j)' = Store(j)
  BY DEF Store, in_memory, sqlite_url
<1> QED  BY <1>3, <1>4, <1>5 DEF RowsClaimed

(* A new in-memory database is a table. *)
LEMMA EmptyIsTable == EmptyTable \in Table
  BY DEF EmptyTable, Table, NoRow, Row, MaybeTransport

(* The end of a process takes its own deliveries and its own in-memory      *)
(* database away, and nothing else.                                         *)
LEMMA ExitKeepsClaims ==
  ASSUME DeliveryInv, NEW i \in Instances, Exit(i)
  PROVE  StoreTypes' /\ OnlyRunningWorks' /\ RowsClaimed'
<1>1. \A j \in Instances :
        j # i => phase'[j] = phase[j] /\ conf'[j] = conf[j] /\ working'[j] = working[j]
  BY DEF DeliveryInv, LockInv, LockTypes, StoreTypes, Exit, Forget, Goto
<1>2. working'[i] = {} /\ working' \in [Instances -> SUBSET MailIds]
  BY DEF DeliveryInv, StoreTypes, Exit, Forget
<1>3. tables \in [Stores -> Table] /\ tables' = [tables EXCEPT ![i] = EmptyTable]
  BY DEF DeliveryInv, StoreTypes, Exit
<1>4. StoreTypes'
  BY <1>2, <1>3, EmptyIsTable DEF StoreTypes
<1>5. OnlyRunningWorks'
  BY <1>1, <1>2 DEF DeliveryInv, OnlyRunningWorks
<1>6. ASSUME NEW j \in Instances, NEW m \in working'[j]
      PROVE  tables'[Store(j)'][m].status = "sending"
  <2>1. j # i /\ m \in working[j] /\ phase[j] = "running"
    BY <1>1, <1>2, <1>6 DEF DeliveryInv, OnlyRunningWorks
  <2>2. conf[j] \in RelayConfigs /\ Store(j)' = Store(j)
    BY <1>1, <2>1 DEF DeliveryInv, LockInv, Configured, Store, in_memory, sqlite_url
  <2>3. Store(j) # i /\ Store(j) \in Stores
    BY <2>1, <2>2, StoreExists, StartupAssumption DEF Store, sqlite_url, DeliveryInv
  <2>4. tables'[Store(j)] = tables[Store(j)]
    BY <1>3, <2>3
  <2> QED  BY <2>1, <2>2, <2>4 DEF DeliveryInv, RowsClaimed
<1> QED  BY <1>4, <1>5, <1>6 DEF RowsClaimed

(* Every step keeps the claims of all deliveries; one case per action. *)
LEMMA ClaimsNext ==
  ASSUME DeliveryInv, [Next]_startupVars
  PROVE  StoreTypes' /\ OnlyRunningWorks' /\ RowsClaimed'
<1> USE StartupAssumption
<1> DEFINE Good == StoreTypes /\ OnlyRunningWorks /\ RowsClaimed
<1>0. /\ phase \in [Instances -> Phases]
      /\ tables \in [Stores -> Table]
      /\ working \in [Instances -> SUBSET MailIds]
  BY DEF DeliveryInv, LockInv, LockTypes, StoreTypes
<1>1. CASE UNCHANGED startupVars
  BY <1>1 DEF DeliveryInv, StoreTypes, OnlyRunningWorks, RowsClaimed, startupVars, Store,
     in_memory, sqlite_url
<1>2. ASSUME NEW i \in Instances, NEW c \in RelayConfigs, Launch(i, c)
      PROVE  Good'
  <2>1. working[i] = {}
    BY <1>2 DEF Launch, DeliveryInv, OnlyRunningWorks
  <2>2. /\ UNCHANGED <<tables, working>>
        /\ \A j \in Instances : j # i => phase'[j] = phase[j] /\ conf'[j] = conf[j]
    BY <1>2 DEF Launch, Goto, DeliveryInv, LockInv, LockTypes
  <2>3. StoreTypes'
    BY <2>2, <1>0 DEF StoreTypes
  <2>4. OnlyRunningWorks'
    BY <2>1, <2>2 DEF DeliveryInv, OnlyRunningWorks
  <2>5. RowsClaimed'
    BY <2>1, <2>2 DEF DeliveryInv, RowsClaimed, Store, in_memory, sqlite_url
  <2> QED  BY <2>3, <2>4, <2>5
<1>3. ASSUME NEW i \in Instances, NEW p \in Phases, Goto(i, p), p # "off",
             phase[i] # "running", UNCHANGED working
      PROVE  OnlyRunningWorks'
  BY <1>3, <1>0 DEF DeliveryInv, OnlyRunningWorks, Goto
<1>4. ASSUME UNCHANGED <<tables, working, conf>>
      PROVE  StoreTypes' /\ RowsClaimed'
  BY <1>4 DEF DeliveryInv, StoreTypes, RowsClaimed, Store, in_memory, sqlite_url
<1>5. ASSUME NEW i \in Instances, acquire_instance_lock(i) PROVE Good'
  <2>1. CASE Exit(i)
    BY <2>1, <1>5, ExitKeepsClaims DEF acquire_instance_lock
  <2>2. CASE Goto(i, "locked") /\ UNCHANGED <<conf, tables, working>>
    BY <2>2, <1>3, <1>4, <1>5 DEF acquire_instance_lock, Phases
  <2> QED  BY <2>1, <2>2, <1>5 DEF acquire_instance_lock
<1>6. ASSUME NEW i \in Instances, connect(i) PROVE Good'
  <2>1. CASE Exit(i)
    BY <2>1, ExitKeepsClaims
  <2>2. CASE Goto(i, "connected") /\ UNCHANGED <<conf, tables, working>>
    BY <2>2, <1>3, <1>4, <1>6 DEF connect, Phases
  <2> QED  BY <2>1, <2>2, <1>6 DEF connect
<1>7. ASSUME NEW i \in Instances, BuildTransports(i) PROVE Good'
  BY <1>3, <1>4, <1>7 DEF BuildTransports, Phases
<1>8. ASSUME NEW i \in Instances, Open(i), NEW t \in Table, Statement(i, t)
      PROVE  \/ tables' = [tables EXCEPT ![Store(i)] = t]
             \/ tables' = tables
  BY <1>8 DEF Statement
<1>9. \A i \in Instances : Open(i) => Store(i) \in Stores /\ tables[Store(i)] \in Table
  BY <1>0, StoreExists DEF DeliveryInv, Open
<1>10. ASSUME NEW i \in Instances, recover(i) PROVE Good'
  <2>1. Open(i) /\ working[i] = {}
    BY <1>10 DEF recover, Open, DeliveryInv, OnlyRunningWorks
  <2>2. OnlyRunningWorks'
    BY <1>3, <1>10 DEF recover, Phases
  <2>3. requeue_sending(tables[Store(i)], 0) \in Table
    BY <2>1, <1>9, RecoverEffect
  <2>4. CASE tables' = tables
    BY <2>2, <2>4, <1>4, <1>10 DEF recover
  <2>5. CASE tables' = [tables EXCEPT ![Store(i)] = requeue_sending(tables[Store(i)], 0)]
    BY <2>1, <2>2, <2>3, <2>5, <1>0, <1>10, OwnTableOnly DEF recover
  <2> QED  BY <2>1, <2>3, <2>4, <2>5, <1>8, <1>10 DEF recover
<1>11. ASSUME NEW i \in Instances, NEW m \in MailIds, Submit(i, m) PROVE Good'
  <2> DEFINE t == enqueue(tables[Store(i)], m, NoTransport, 0)
  <2>1. phase[i] # "off" /\ UNCHANGED <<phase, conf, working>>
    BY <1>11 DEF Submit
  <2>2. Store(i) \in Stores /\ tables[Store(i)] \in Table
    BY <1>0, <2>1, StoreExists DEF DeliveryInv
  <2>3. /\ t \in Table
        /\ \A n \in MailIds : n # m => t[n] = tables[Store(i)][n]
    BY <2>2, EnqueueEffect DEF MaybeTransport
  <2>4. tables[Store(i)][m].status = "absent" /\ tables' = [tables EXCEPT ![Store(i)] = t]
    BY <1>0, <1>11, <2>2 DEF Submit
  <2> HIDE DEF t
  <2>5. StoreTypes'
    BY <1>0, <2>1, <2>2, <2>3, <2>4 DEF StoreTypes
  <2>6. ASSUME NEW j \in Instances, NEW n \in working[j]
        PROVE  tables'[Store(j)][n].status = "sending"
    <3>1. /\ tables[Store(j)][n].status = "sending" /\ n \in MailIds
          /\ phase[j] # "off"
      BY <1>0, <2>6 DEF DeliveryInv, RowsClaimed, OnlyRunningWorks
    <3>2. CASE Store(j) = Store(i)
      BY <1>0, <2>2, <2>3, <2>4, <3>1, <3>2
    <3>3. CASE Store(j) # Store(i)
      BY <1>0, <2>2, <2>4, <3>1, <3>3, StoreExists DEF DeliveryInv
    <3> QED  BY <3>2, <3>3
  <2>7. \A j \in Instances : Store(j)' = Store(j)
    BY <2>1 DEF Store, in_memory, sqlite_url
  <2>8. RowsClaimed'
    BY <2>1, <2>6, <2>7 DEF RowsClaimed
  <2> QED  BY <2>1, <2>5, <2>8 DEF DeliveryInv, OnlyRunningWorks
<1>12. ASSUME NEW i \in Instances, NEW m \in MailIds, Claim(i, m) PROVE Good'
  <2> DEFINE t == mark_sending(tables[Store(i)], m, 0)
  <2>1. Open(i) /\ phase[i] = "running" /\ UNCHANGED <<phase, conf>>
    BY <1>12 DEF Claim, Open
  <2>2. /\ t \in Table
        /\ \A n \in MailIds : n # m => t[n] = tables[Store(i)][n]
        /\ t[m].status = "sending"
    BY <2>1, <1>9, MarkSendingEffect
  <2>3. tables' = [tables EXCEPT ![Store(i)] = t]
    BY <1>12, <2>1, <1>9, <1>0 DEF Claim
  <2>4. /\ working' \in [Instances -> SUBSET MailIds]
        /\ working'[i] = working[i] \cup {m}
        /\ \A j \in Instances : j # i => working'[j] = working[j]
    BY <1>12, <1>0 DEF Claim
  <2>5. \A n \in working'[i] : t[n].status = "sending"
    BY <2>2, <2>4, <1>0 DEF DeliveryInv, RowsClaimed
  <2> HIDE DEF t
  <2>6. StoreTypes' /\ RowsClaimed'
    BY <2>1, <2>2, <2>3, <2>4, <2>5, OwnTableOnly
  <2>7. OnlyRunningWorks'
    BY <2>1, <2>4 DEF DeliveryInv, OnlyRunningWorks
  <2> QED  BY <2>6, <2>7
<1>13. ASSUME NEW i \in Instances, NEW m \in MailIds, Settle(i, m) PROVE Good'
  <2>1. phase[i] = "running" /\ Open(i) /\ UNCHANGED <<phase, conf>>
    BY <1>13 DEF Settle, Open, DeliveryInv, OnlyRunningWorks
  <2>2. /\ working' \in [Instances -> SUBSET MailIds]
        /\ working'[i] = working[i] \ {m}
        /\ \A j \in Instances : j # i => working'[j] = working[j]
    BY <1>13, <1>0 DEF Settle
  <2>3. OnlyRunningWorks'
    BY <2>1, <2>2 DEF DeliveryInv, OnlyRunningWorks
  <2>4. \A n \in working'[i] :
          n # m /\ n \in MailIds /\ tables[Store(i)][n].status = "sending"
    BY <2>2, <1>0 DEF DeliveryInv, RowsClaimed
  <2>5. ASSUME NEW t \in Table, Statement(i, t),
               \A n \in MailIds : n # m => t[n] = tables[Store(i)][n]
        PROVE  StoreTypes' /\ RowsClaimed'
    <3>0. \A n \in working'[i] : t[n].status = "sending"
      BY <2>4, <2>5
    <3>1. CASE tables' = [tables EXCEPT ![Store(i)] = t]
      BY <3>0, <3>1, <2>1, <2>2, OwnTableOnly
    <3>2. CASE tables' = tables
      BY <3>2, <2>1, <2>2, <2>4, <1>9, OwnTableOnly
    <3> QED  BY <3>1, <3>2, <2>5, <2>1, <1>8
  <2>6. CASE Statement(i, mark_sent(tables[Store(i)], m, 0))
    <3> DEFINE t == mark_sent(tables[Store(i)], m, 0)
    <3>1. t \in Table /\ \A n \in MailIds : n # m => t[n] = tables[Store(i)][n]
      BY <2>1, <1>9, MarkSentEffect
    <3> HIDE DEF t
    <3>2. Statement(i, t)
      BY <2>6 DEF t
    <3> QED  BY <3>1, <3>2, <2>3, <2>5
  <2>7. CASE Statement(i, mark_dead(tables[Store(i)], m, 0))
    <3> DEFINE t == mark_dead(tables[Store(i)], m, 0)
    <3>1. t \in Table /\ \A n \in MailIds : n # m => t[n] = tables[Store(i)][n]
      BY <2>1, <1>9, MarkDeadEffect
    <3> HIDE DEF t
    <3>2. Statement(i, t)
      BY <2>7 DEF t
    <3> QED  BY <3>1, <3>2, <2>3, <2>5
  <2>8. CASE Statement(i, mark_failed(tables[Store(i)], m, 0, 0))
    <3> DEFINE t == mark_failed(tables[Store(i)], m, 0, 0)
    <3>1. t \in Table /\ \A n \in MailIds : n # m => t[n] = tables[Store(i)][n]
      BY <2>1, <1>9, MarkFailedEffect
    <3> HIDE DEF t
    <3>2. Statement(i, t)
      BY <2>8 DEF t
    <3> QED  BY <3>1, <3>2, <2>3, <2>5
  <2> QED  BY <2>6, <2>7, <2>8, <1>13 DEF Settle
<1>14. ASSUME NEW i \in Instances, Reclaim(i) PROVE Good'
  <2> DEFINE t == requeue_stale_sending(tables[Store(i)], 1, 0)
  <2>1. Open(i) /\ working[i] = {} /\ UNCHANGED <<phase, conf, working>>
    BY <1>14 DEF Reclaim, Open
  <2>2. t \in Table /\ Statement(i, t)
    BY <1>14, <2>1, <1>9, ReclaimEffect DEF Reclaim
  <2> HIDE DEF t
  <2>3. CASE tables' = tables
    BY <2>1, <2>3, <1>4 DEF DeliveryInv, OnlyRunningWorks
  <2>4. CASE tables' = [tables EXCEPT ![Store(i)] = t]
    <3>1. StoreTypes' /\ RowsClaimed'
      BY <2>1, <2>2, <2>4, <1>0, OwnTableOnly
    <3> QED  BY <3>1, <2>1 DEF DeliveryInv, OnlyRunningWorks
  <2> QED  BY <2>1, <2>2, <2>3, <2>4, <1>8
<1>15. ASSUME NEW i \in Instances, Stop(i) PROVE Good'
  <2>1. StoreTypes' /\ RowsClaimed'
    BY <1>4, <1>15 DEF Stop
  <2>2. OnlyRunningWorks'
    BY <1>0, <1>15 DEF Stop, Goto, DeliveryInv, OnlyRunningWorks
  <2> QED  BY <2>1, <2>2
<1>16. ASSUME NEW i \in Instances, Finish(i) \/ Crash(i) PROVE Good'
  BY <1>16, ExitKeepsClaims DEF Finish, Crash
<1> QED
  BY <1>1, <1>2, <1>5, <1>6, <1>7, <1>10, <1>11, <1>12, <1>13, <1>14, <1>15, <1>16
     DEF Next

(* The claims are always in order if every database file has one lock. *)
LEMMA AlwaysDelivering ==
  ASSUME OneLock
  PROVE  Spec => []DeliveryInv
<1> DEFINE Claimed == StoreTypes /\ OnlyRunningWorks /\ RowsClaimed
<1>1. Init => Claimed
  BY StartupAssumption, EmptyIsTable
     DEF Init, StoreTypes, OnlyRunningWorks, RowsClaimed
<1>2. LockInv /\ OneRelayPerDatabase /\ Claimed /\ [Next]_startupVars => Claimed'
  BY ClaimsNext DEF DeliveryInv
<1>3. Spec => []LockInv
  BY LockInit, LockNext, PTL DEF Spec
<1>4. Spec => []OneRelayPerDatabase
  BY SingleRelay
<1> QED  BY <1>1, <1>2, <1>3, <1>4, PTL DEF Spec, DeliveryInv

(* If all configurations that name a file get the same lock, the recovery   *)
(* of one process never takes away a mail that another is delivering, and   *)
(* no mail is delivered by two processes at once.                           *)
THEOREM RecoveryIsSafe ==
  ASSUME OneLock
  PROVE  Spec => []LiveClaimsUntouched
<1>1. DeliveryInv => LiveClaimsUntouched
  BY DEF DeliveryInv, OneRelayPerDatabase, LiveClaimsUntouched, OnlyRunningWorks,
     RowsClaimed, Open
<1>2. Spec => []DeliveryInv
  BY AlwaysDelivering
<1> QED  BY <1>1, <1>2, PTL
-----------------------------------------------------------------------------
(* What may become of the status of a row. *)
Survives(before, after) ==
  /\ before # "absent" => after # "absent"
  /\ before \in {"sent", "dead"} => after = before

AllSurvive(t, u) == \A m \in MailIds : Survives(t[m].status, u[m].status)

(* A statement that loses no row of the one database it is run on loses     *)
(* none at all.                                                             *)
LEMMA OneTableWritten ==
  ASSUME tables \in [Stores -> Table], NEW s \in Stores, NEW t, AllSurvive(tables[s], t),
         tables' = [tables EXCEPT ![s] = t] \/ tables' = tables
  PROVE  \A x \in Stores : AllSurvive(tables[x], tables'[x])
BY DEF AllSurvive, Survives

(* Putting claims back concerns claimed rows only. *)
LEMMA RequeueSurvives ==
  ASSUME NEW t, NEW u,
         \A m \in MailIds :
           u[m] = t[m] \/ (t[m].status = "sending" /\ u[m].status = "pending")
  PROVE  AllSurvive(t, u)
BY DEF AllSurvive, Survives

(* A change of one row that was claimed or due, or was not there. *)
LEMMA OneRowSurvives ==
  ASSUME NEW t, NEW u, NEW m \in MailIds,
         \A n \in MailIds : n # m => u[n] = t[n],
         t[m].status \notin {"sent", "dead"}, u[m].status # "absent"
  PROVE  AllSurvive(t, u)
BY DEF AllSurvive, Survives

(* Every step leaves the rows of a database file where they were.  That a   *)
(* delivery ends by writing to a row that is still its own is what the      *)
(* claims are for: the UPDATE does not look at the status it replaces.      *)
LEMMA StepSurvives ==
  ASSUME DeliveryInv, Next, NEW s \in Stores \ Instances
  PROVE  AllSurvive(tables[s], tables'[s])
<1> USE StartupAssumption
<1>0. /\ tables \in [Stores -> Table]
      /\ working \in [Instances -> SUBSET MailIds]
      /\ \A i \in Instances : phase[i] # "off" => Store(i) \in Stores /\ tables[Store(i)] \in Table
  BY StoreExists DEF DeliveryInv, StoreTypes
<1>1. CASE tables' = tables
  BY <1>1 DEF AllSurvive, Survives
<1>2. ASSUME NEW i \in Instances, Exit(i) PROVE AllSurvive(tables[s], tables'[s])
  <2>1. tables'[s] = tables[s]
    BY <1>0, <1>2 DEF Exit
  <2> QED BY <2>1 DEF AllSurvive, Survives
<1>3. ASSUME NEW i \in Instances, phase[i] # "off", NEW t, AllSurvive(tables[Store(i)], t),
             Statement(i, t) \/ tables' = [tables EXCEPT ![Store(i)] = t]
      PROVE  AllSurvive(tables[s], tables'[s])
  <2>1. tables' = [tables EXCEPT ![Store(i)] = t] \/ tables' = tables
    BY <1>3 DEF Statement
  <2> QED BY <2>1, <1>0, <1>3, OneTableWritten
<1>4. ASSUME NEW i \in Instances, recover(i) PROVE AllSurvive(tables[s], tables'[s])
  <2>1. phase[i] # "off" /\ tables[Store(i)] \in Table
    BY <1>0, <1>4 DEF recover
  <2>2. PICK t : t = requeue_sending(tables[Store(i)], 0)
    OBVIOUS
  <2>3. \A m \in MailIds : \/ t[m] = tables[Store(i)][m]
                           \/ tables[Store(i)][m].status = "sending" /\ t[m].status = "pending"
    BY <2>1, <2>2, RecoverEffect
  <2> QED BY <2>1, <2>2, <2>3, <1>3, <1>4, RequeueSurvives DEF recover
<1>5. ASSUME NEW i \in Instances, Reclaim(i) PROVE AllSurvive(tables[s], tables'[s])
  <2>1. phase[i] # "off" /\ tables[Store(i)] \in Table
    BY <1>0, <1>5 DEF Reclaim
  <2>2. PICK t : t = requeue_stale_sending(tables[Store(i)], 1, 0)
    OBVIOUS
  <2>3. \A m \in MailIds : \/ t[m] = tables[Store(i)][m]
                           \/ tables[Store(i)][m].status = "sending" /\ t[m].status = "pending"
    BY <2>1, <2>2, ReclaimEffect
  <2> QED BY <2>1, <2>2, <2>3, <1>3, <1>5, RequeueSurvives DEF Reclaim
<1>6. ASSUME NEW i \in Instances, NEW m \in MailIds, Submit(i, m)
      PROVE  AllSurvive(tables[s], tables'[s])
  <2>1. phase[i] # "off" /\ tables[Store(i)] \in Table /\ Store(i) \in Stores
    BY <1>0, <1>6 DEF Submit
  <2>2. PICK t : t = enqueue(tables[Store(i)], m, NoTransport, 0)
    OBVIOUS
  <2>3. (\A n \in MailIds : n # m => t[n] = tables[Store(i)][n]) /\ t[m].status = "pending"
    <3>1. NoTransport \in MaybeTransport
      BY DEF MaybeTransport
    <3> QED BY <2>1, <2>2, <3>1, EnqueueEffect
  <2>4. tables[Store(i)][m].status = "absent" /\ tables' = [tables EXCEPT ![Store(i)] = t]
    BY <1>0, <1>6, <2>1, <2>2 DEF Submit
  <2>5. AllSurvive(tables[Store(i)], t)
    BY <2>3, <2>4, OneRowSurvives
  <2> QED BY <2>1, <2>4, <2>5, <1>3
<1>7. ASSUME NEW i \in Instances, NEW m \in MailIds, Claim(i, m)
      PROVE  AllSurvive(tables[s], tables'[s])
  <2>1. phase[i] # "off" /\ tables[Store(i)] \in Table /\ Store(i) \in Stores
    BY <1>0, <1>7 DEF Claim
  <2>2. PICK t : t = mark_sending(tables[Store(i)], m, 0)
    OBVIOUS
  <2>3. (\A n \in MailIds : n # m => t[n] = tables[Store(i)][n]) /\ t[m].status = "sending"
    BY <2>1, <2>2, MarkSendingEffect
  <2>4. /\ tables[Store(i)][m].status \in {"pending", "failed"}
        /\ tables' = [tables EXCEPT ![Store(i)] = t]
    BY <1>0, <1>7, <2>1, <2>2 DEF Claim, is_due
  <2>5. AllSurvive(tables[Store(i)], t)
    BY <2>3, <2>4, OneRowSurvives
  <2> QED BY <2>1, <2>4, <2>5, <1>3
<1>8. ASSUME NEW i \in Instances, NEW m \in MailIds, Settle(i, m)
      PROVE  AllSurvive(tables[s], tables'[s])
  <2>1. /\ phase[i] # "off" /\ tables[Store(i)] \in Table /\ tables[Store(i)][m].status = "sending"
    BY <1>0, <1>8 DEF Settle, DeliveryInv, OnlyRunningWorks, RowsClaimed
  <2>2. ASSUME NEW t, Statement(i, t), t[m].status # "absent",
               \A n \in MailIds : n # m => t[n] = tables[Store(i)][n]
        PROVE  AllSurvive(tables[s], tables'[s])
    BY <2>1, <2>2, <1>3, OneRowSurvives
  <2>3. CASE Statement(i, mark_sent(tables[Store(i)], m, 0))
    <3>1. PICK t : t = mark_sent(tables[Store(i)], m, 0)
      OBVIOUS
    <3>2. (\A n \in MailIds : n # m => t[n] = tables[Store(i)][n]) /\ t[m].status = "sent"
      BY <2>1, <3>1, MarkSentEffect
    <3> QED BY <2>2, <2>3, <3>1, <3>2
  <2>4. CASE Statement(i, mark_dead(tables[Store(i)], m, 0))
    <3>1. PICK t : t = mark_dead(tables[Store(i)], m, 0)
      OBVIOUS
    <3>2. (\A n \in MailIds : n # m => t[n] = tables[Store(i)][n]) /\ t[m].status = "dead"
      BY <2>1, <3>1, MarkDeadEffect
    <3> QED BY <2>2, <2>4, <3>1, <3>2
  <2>5. CASE Statement(i, mark_failed(tables[Store(i)], m, 0, 0))
    <3>1. PICK t : t = mark_failed(tables[Store(i)], m, 0, 0)
      OBVIOUS
    <3>2. (\A n \in MailIds : n # m => t[n] = tables[Store(i)][n]) /\ t[m].status = "failed"
      BY <2>1, <3>1, MarkFailedEffect
    <3> QED BY <2>2, <2>5, <3>1, <3>2
  <2> QED BY <2>3, <2>4, <2>5, <1>8 DEF Settle
<1>9. ASSUME NEW i \in Instances,
             \/ \E c \in RelayConfigs : Launch(i, c)
             \/ acquire_instance_lock(i) \/ connect(i) \/ BuildTransports(i)
             \/ Stop(i) \/ Finish(i) \/ Crash(i)
      PROVE  Exit(i) \/ tables' = tables
  BY <1>9 DEF Launch, acquire_instance_lock, connect, BuildTransports,
     Stop, Finish, Crash
<1> QED
  BY <1>1, <1>2, <1>4, <1>5, <1>6, <1>7, <1>8, <1>9 DEF Next

(* If all configurations that name a file get the same lock, no start,      *)
(* stop, crash or failure of any number of processes loses a mail of a      *)
(* database file or reopens one that is settled.                            *)
THEOREM MailsOutliveProcesses ==
  ASSUME OneLock
  PROVE  Spec => QueueSurvives
<1> DEFINE Kept == \A s \in Stores \ Instances : \A m \in MailIds :
                     LET before == tables[s][m].status
                         after  == tables'[s][m].status
                     IN  /\ before # "absent" => after # "absent"
                         /\ before \in {"sent", "dead"} => after = before
<1>1. DeliveryInv /\ [Next]_startupVars => [Kept]_startupVars
  <2> SUFFICES ASSUME DeliveryInv, Next PROVE Kept
    OBVIOUS
  <2> QED BY StepSurvives DEF AllSurvive, Survives
<1>2. Spec => []DeliveryInv
  BY AlwaysDelivering
<1> QED BY <1>1, <1>2, PTL DEF Spec, QueueSurvives
-----------------------------------------------------------------------------
(* What a process has after it built its transports is what providers and   *)
(* default_transport_of make of its configuration.                          *)
BuiltRight ==
  \A i \in Instances : Built(i) =>
    /\ \A n \in TransportNames : transports[i][n] \in providers(conf[i], n)
    /\ defaults[i] = default_transport_of(conf[i])

StartTypes ==
  /\ DOMAIN transports = Instances
  /\ defaults \in [Instances -> TransportNames \cup {Unset}]
  /\ faults \in 0..MaxFaults

StartInv == LockInv /\ StoreTypes /\ OnlyRunningWorks /\ StartTypes /\ BuiltRight

(* Nothing is built before a start. *)
LEMMA StartInit == Init => StartInv
<1> SUFFICES ASSUME Init PROVE StartInv
  OBVIOUS
<1>1. LockInv
  BY LockInit
<1>2. StoreTypes
  BY EmptyIsTable DEF Init, StoreTypes
<1>3. OnlyRunningWorks
  BY DEF Init, OnlyRunningWorks
<1>4. StartTypes
  BY StartupAssumption DEF Init, StartTypes
<1>5. BuiltRight
  BY DEF Init, BuiltRight, Built
<1> QED BY <1>1, <1>2, <1>3, <1>4, <1>5 DEF StartInv

(* The default is the configured one or SMTP. *)
LEMMA DefaultIsName ==
  ASSUME NEW c \in RelayConfigs
  PROVE  default_transport_of(c) \in TransportNames \cup {Unset}
BY NamesAssumption DEF default_transport_of

(* The end of a process; those of the others stay as they are built. *)
LEMMA ExitKeepsStart ==
  ASSUME StartInv, NEW i \in Instances, Exit(i), faults' \in 0..MaxFaults
  PROVE  StoreTypes' /\ OnlyRunningWorks' /\ StartTypes' /\ BuiltRight'
<1> USE DEF StartInv, LockInv, LockTypes, StoreTypes, StartTypes
<1>1. StoreTypes'
  BY EmptyIsTable DEF Exit, Forget
<1>2. StartTypes'
  BY DEF Exit, Forget, Dismantle
<1>3. \A j \in Instances : j # i =>
        /\ phase'[j] = phase[j] /\ conf'[j] = conf[j] /\ working'[j] = working[j]
        /\ transports'[j] = transports[j] /\ defaults'[j] = defaults[j]
  BY DEF Exit, Forget, Dismantle, Goto
<1>4. phase'[i] = "off" /\ working'[i] = {}
  BY DEF Exit, Forget, Goto
<1>5. OnlyRunningWorks'
  BY <1>3, <1>4 DEF OnlyRunningWorks
<1>6. BuiltRight'
  BY <1>3, <1>4 DEF BuiltRight, Built
<1> QED BY <1>1, <1>2, <1>5, <1>6

(* A step of process i that leaves the configurations and what was built    *)
(* alone, and makes no process one that has built.                          *)
LEMMA NothingBuiltAnew ==
  ASSUME StartInv, UNCHANGED <<conf, transports, defaults>>, faults' \in 0..MaxFaults,
         \A i \in Instances : Built(i)' => Built(i)
  PROVE  StartTypes' /\ BuiltRight'
BY DEF StartInv, StartTypes, BuiltRight

(* Every step keeps the types and what was built; one case per action. *)
LEMMA StartNext ==
  ASSUME StartInv, Next
  PROVE  StoreTypes' /\ OnlyRunningWorks' /\ StartTypes' /\ BuiltRight'
<1> DEFINE Good == StoreTypes /\ OnlyRunningWorks /\ StartTypes /\ BuiltRight
<1>0. /\ phase \in [Instances -> Phases] /\ tables \in [Stores -> Table]
      /\ conf \in [Instances -> RelayConfigs \cup {NoConfig}]
      /\ working \in [Instances -> SUBSET MailIds]
      /\ faults \in 0..MaxFaults /\ MaxFaults \in Nat
      /\ DOMAIN transports = Instances
      /\ defaults \in [Instances -> TransportNames \cup {Unset}]
  BY StartupAssumption DEF StartInv, LockInv, LockTypes, StoreTypes, StartTypes
<1>1. Fault \/ UNCHANGED faults => faults' \in 0..MaxFaults
  BY <1>0 DEF Fault
<1>2. \A i \in Instances : phase[i] # "off" =>
        conf[i] \in RelayConfigs /\ Store(i) \in Stores /\ tables[Store(i)] \in Table
  BY <1>0, StoreExists DEF StartInv, LockInv, Configured
<1>3. ASSUME NEW i \in Instances, NEW t \in Table, phase[i] # "off",
             Statement(i, t) \/ tables' = [tables EXCEPT ![Store(i)] = t] \/ tables' = tables,
             working' \in [Instances -> SUBSET MailIds]
      PROVE  StoreTypes'
  <2>1. tables' = [tables EXCEPT ![Store(i)] = t] \/ tables' = tables
    BY <1>3 DEF Statement
  <2> QED BY <2>1, <1>0, <1>2, <1>3 DEF StoreTypes
<1>4. ASSUME NEW i \in Instances, Exit(i), Fault \/ UNCHANGED faults PROVE Good'
  BY <1>1, <1>4, ExitKeepsStart
<1>5. ASSUME NEW i \in Instances, NEW p \in Phases, Goto(i, p), p # "off",
             phase[i] # "running", UNCHANGED working
      PROVE  OnlyRunningWorks'
  BY <1>5, <1>0 DEF StartInv, OnlyRunningWorks, Goto
<1>6. ASSUME NEW i \in Instances, NEW p \in {"loaded", "locked", "connected"}, Goto(i, p),
             phase[i] # "running", UNCHANGED <<tables, working, transports, defaults, faults>>,
             \A j \in Instances : j # i => conf'[j] = conf[j]
      PROVE  Good'
  <2>1. OnlyRunningWorks'
    BY <1>5, <1>6 DEF Phases
  <2>2. ~ Built(i)' /\ \A j \in Instances : j # i => (Built(j)' <=> Built(j))
    BY <1>0, <1>6 DEF Built, Goto
  <2>3. StoreTypes' /\ StartTypes'
    BY <1>0, <1>6 DEF StoreTypes, StartTypes
  <2>4. BuiltRight'
    BY <1>6, <2>2 DEF StartInv, BuiltRight
  <2> QED BY <2>1, <2>3, <2>4
<1>7. ASSUME NEW i \in Instances, NEW c \in RelayConfigs, Launch(i, c) PROVE Good'
  BY <1>0, <1>6, <1>7 DEF Launch
<1>8. ASSUME NEW i \in Instances, acquire_instance_lock(i) PROVE Good'
  BY <1>4, <1>6, <1>8 DEF acquire_instance_lock
<1>9. ASSUME NEW i \in Instances, connect(i) PROVE Good'
  BY <1>4, <1>6, <1>9 DEF connect
<1>10. ASSUME NEW i \in Instances, BuildTransports(i) PROVE Good'
  <2>1. PICK t : /\ \A n \in TransportNames : t[n] \in providers(conf[i], n)
                 /\ transports' = [transports EXCEPT ![i] = t]
    BY <1>10 DEF BuildTransports
  <2>2. /\ defaults' = [defaults EXCEPT ![i] = default_transport_of(conf[i])]
        /\ UNCHANGED <<conf, tables, working, faults>> /\ phase[i] = "connected"
        /\ Goto(i, "recovering")
    BY <1>10 DEF BuildTransports
  <2>3. OnlyRunningWorks'
    BY <1>5, <2>2 DEF Phases
  <2>4. StoreTypes'
    BY <1>0, <2>2 DEF StoreTypes
  <2>5. default_transport_of(conf[i]) \in TransportNames \cup {Unset}
    BY <1>2, <2>2, DefaultIsName
  <2>6. StartTypes'
    BY <1>0, <2>1, <2>2, <2>5 DEF StartTypes
  <2>7. /\ transports'[i] = t /\ defaults'[i] = default_transport_of(conf[i])
        /\ \A j \in Instances : j # i => /\ transports'[j] = transports[j]
                                         /\ defaults'[j] = defaults[j]
                                         /\ (Built(j)' <=> Built(j))
    BY <1>0, <2>1, <2>2 DEF Built, Goto
  <2>8. BuiltRight'
    <3> SUFFICES ASSUME NEW j \in Instances, Built(j)'
                 PROVE  /\ \A n \in TransportNames : transports'[j][n] \in providers(conf[j], n)
                        /\ defaults'[j] = default_transport_of(conf[j])
      BY <2>2 DEF BuiltRight
    <3>1. CASE j = i
      BY <3>1, <2>1, <2>7
    <3>2. CASE j # i
      BY <3>2, <2>7 DEF StartInv, BuiltRight
    <3> QED BY <3>1, <3>2
  <2> QED BY <2>3, <2>4, <2>6, <2>8
<1>11. ASSUME NEW i \in Instances, recover(i) PROVE Good'
  <2>1. requeue_sending(tables[Store(i)], 0) \in Table
    BY <1>2, <1>11, RecoverEffect DEF recover
  <2>2. StoreTypes'
    BY <1>0, <1>3, <1>11, <2>1 DEF recover
  <2>3. OnlyRunningWorks'
    BY <1>5, <1>11 DEF recover, Phases
  <2>4. \A j \in Instances : Built(j)' => Built(j)
    BY <1>0, <1>11 DEF recover, Goto, Built
  <2>5. faults' \in 0..MaxFaults
    BY <1>1, <1>11 DEF recover, Statement
  <2> QED BY <2>2, <2>3, <2>4, <2>5, <1>11, NothingBuiltAnew DEF recover
<1>12. ASSUME UNCHANGED <<phase, conf, transports, defaults>>, faults' \in 0..MaxFaults
       PROVE  StartTypes' /\ BuiltRight'
  BY <1>12, NothingBuiltAnew DEF Built
<1>13. ASSUME NEW i \in Instances, NEW m \in MailIds, Submit(i, m) PROVE Good'
  <2>1. NoTransport \in MaybeTransport
    BY DEF MaybeTransport
  <2>2. enqueue(tables[Store(i)], m, NoTransport, 0) \in Table
    BY <1>2, <1>13, <2>1, EnqueueEffect DEF Submit
  <2>3. tables' = [tables EXCEPT ![Store(i)] = enqueue(tables[Store(i)], m, NoTransport, 0)]
    BY <1>0, <1>2, <1>13 DEF Submit
  <2>4. StoreTypes'
    BY <1>0, <1>3, <1>13, <2>2, <2>3 DEF Submit
  <2>5. UNCHANGED <<phase, conf, transports, defaults, working>> /\ faults' \in 0..MaxFaults
    BY <1>1, <1>13 DEF Submit
  <2> QED BY <2>4, <2>5, <1>12 DEF StartInv, OnlyRunningWorks
<1>14. ASSUME NEW i \in Instances, NEW m \in MailIds, Claim(i, m) PROVE Good'
  <2>1. mark_sending(tables[Store(i)], m, 0) \in Table
    BY <1>2, <1>14, MarkSendingEffect DEF Claim
  <2>2. tables' = [tables EXCEPT ![Store(i)] = mark_sending(tables[Store(i)], m, 0)]
    BY <1>0, <1>2, <1>14 DEF Claim
  <2>3. /\ working' \in [Instances -> SUBSET MailIds]
        /\ \A j \in Instances : j # i => working'[j] = working[j]
    BY <1>0, <1>14 DEF Claim
  <2>4. StoreTypes'
    BY <1>3, <1>14, <2>1, <2>2, <2>3 DEF Claim
  <2>5. UNCHANGED <<phase, conf, transports, defaults>> /\ faults' \in 0..MaxFaults
    BY <1>1, <1>14 DEF Claim
  <2>6. OnlyRunningWorks'
    BY <1>14, <2>3, <2>5 DEF Claim, StartInv, OnlyRunningWorks
  <2> QED BY <2>4, <2>5, <2>6, <1>12
<1>15. ASSUME NEW i \in Instances, NEW m \in MailIds, Settle(i, m) PROVE Good'
  <2>1. phase[i] = "running"
    BY <1>15 DEF Settle, StartInv, OnlyRunningWorks
  <2>2. /\ working' \in [Instances -> SUBSET MailIds]
        /\ \A j \in Instances : working'[j] \subseteq working[j]
    BY <1>0, <1>15 DEF Settle
  <2>3. /\ mark_sent(tables[Store(i)], m, 0) \in Table
        /\ mark_dead(tables[Store(i)], m, 0) \in Table
        /\ mark_failed(tables[Store(i)], m, 0, 0) \in Table
    BY <1>2, <2>1, MarkSentEffect, MarkDeadEffect, MarkFailedEffect
  <2>4. PICK t \in Table : Statement(i, t)
    BY <1>15, <2>3 DEF Settle
  <2>5. StoreTypes'
    BY <1>3, <2>1, <2>2, <2>4
  <2>6. UNCHANGED <<phase, conf, transports, defaults>> /\ faults' \in 0..MaxFaults
    BY <1>1, <1>15, <2>4 DEF Settle, Statement
  <2>7. OnlyRunningWorks'
    BY <2>2, <2>6 DEF StartInv, OnlyRunningWorks
  <2> QED BY <2>5, <2>6, <2>7, <1>12
<1>16. ASSUME NEW i \in Instances, Reclaim(i) PROVE Good'
  <2>1. requeue_stale_sending(tables[Store(i)], 1, 0) \in Table
    BY <1>2, <1>16, ReclaimEffect DEF Reclaim
  <2>2. StoreTypes'
    BY <1>0, <1>3, <1>16, <2>1 DEF Reclaim
  <2>3. UNCHANGED <<phase, conf, transports, defaults, working>> /\ faults' \in 0..MaxFaults
    BY <1>1, <1>16 DEF Reclaim, Statement
  <2> QED BY <2>2, <2>3, <1>12 DEF StartInv, OnlyRunningWorks
<1>17. ASSUME NEW i \in Instances, Finish(i) \/ Crash(i) PROVE Good'
  BY <1>4, <1>17 DEF Finish, Crash
<1>18. ASSUME NEW i \in Instances, Stop(i) PROVE Good'
  <2>1. /\ phase'[i] = "stopping" /\ UNCHANGED <<conf, tables, working, faults>>
        /\ \A j \in Instances : j # i => /\ phase'[j] = phase[j]
                                         /\ transports'[j] = transports[j]
                                         /\ defaults'[j] = defaults[j]
    BY <1>0, <1>18 DEF Stop, Dismantle, Goto
  <2>2. StoreTypes' /\ StartTypes'
    BY <1>0, <1>18, <2>1 DEF Stop, Dismantle, StoreTypes, StartTypes
  <2>3. OnlyRunningWorks'
    BY <1>18, <2>1 DEF Stop, StartInv, OnlyRunningWorks
  <2>4. BuiltRight'
    BY <2>1 DEF StartInv, BuiltRight, Built
  <2> QED BY <2>2, <2>3, <2>4
<1> QED
  BY <1>7, <1>8, <1>9, <1>10, <1>11, <1>13, <1>14, <1>15, <1>16, <1>17, <1>18
     DEF Next

(* What every start leaves behind, for any processes and configurations. *)
LEMMA AlwaysStarted == Spec => []StartInv
<1>1. StartInv /\ [Next]_startupVars => StartInv'
  <2> SUFFICES ASSUME StartInv, [Next]_startupVars PROVE StartInv'
    OBVIOUS
  <2>1. LockInv'
    BY LockNext DEF StartInv
  <2>2. CASE Next
    BY <2>1, <2>2, StartNext DEF StartInv
  <2>3. CASE UNCHANGED startupVars
    <3>1. StoreTypes' /\ OnlyRunningWorks'
      BY <2>3 DEF startupVars, StartInv, StoreTypes, OnlyRunningWorks
    <3>2. StartTypes' /\ BuiltRight'
      BY <2>3, NothingBuiltAnew DEF startupVars, StartInv, StartTypes, Built
    <3> QED BY <2>1, <3>1, <3>2 DEF StartInv
  <2> QED BY <2>2, <2>3
<1> QED BY <1>1, StartInit, PTL DEF Spec

(* Every variable has its type, however the databases are spelled. *)
THEOREM StartupTypes == Spec => []TypeOK
<1>1. StartInv => TypeOK
  BY DEF StartInv, LockInv, LockTypes, StoreTypes, StartTypes, TypeOK
<1> QED BY <1>1, AlwaysStarted, PTL
-----------------------------------------------------------------------------
(* A bounded set of numbers that is not empty has a largest member.  (The   *)
(* one that is least far from the bound.)                                   *)
LEMMA MaxExists ==
  ASSUME NEW n \in Nat, NEW S \in SUBSET (1..n), S # {}
  PROVE  Max(S) \in S
<1> DEFINE Gaps == {n - x : x \in S}
<1>1. Gaps \subseteq Nat /\ Gaps # {}
  <2>1. \A x \in S : n - x \in Nat
    OBVIOUS
  <2>2. PICK x : x \in S
    OBVIOUS
  <2> QED BY <2>1, <2>2
<1>2. PICK gap \in Gaps : \A other \in Gaps : ~ (<<other, gap>> \in OpToRel(<, Nat))
  <2> HIDE DEF Gaps
  <2> QED BY <1>1, NatLessThanWellFounded, WFMin
<1>3. PICK x \in S : gap = n - x
  OBVIOUS
<1>4. \A y \in S : x >= y
  <2> TAKE y \in S
  <2>1. n - y \in Gaps /\ n - y \in Nat /\ gap \in Nat
    OBVIOUS
  <2>2. ~ (n - y < gap)
    BY <1>2, <2>1 DEF OpToRel
  <2> QED BY <1>3, <2>2
<1> QED BY <1>4 DEF Max

(* The directory that a name is taken from is the last that offers it. *)
LEMMA LastOffering ==
  ASSUME NEW c \in RelayConfigs, NEW n, Offering(c, n) # {}
  PROVE  /\ Max(Offering(c, n)) \in DOMAIN c.plugin_dirs
         /\ \E p \in plugin_transports(c, Max(Offering(c, n))) : p.name = n
<1>1. Len(c.plugin_dirs) \in Nat /\ DOMAIN c.plugin_dirs = 1..Len(c.plugin_dirs)
  BY NamesAssumption
<1>2. Offering(c, n) \in SUBSET (1..Len(c.plugin_dirs))
  BY <1>1 DEF Offering
<1>3. Max(Offering(c, n)) \in Offering(c, n)
  BY <1>1, <1>2, MaxExists
<1> QED BY <1>3 DEF Offering

(* The plugins that become transports are plugins of their directory. *)
LEMMA FromTheDirectory ==
  ASSUME NEW c, NEW k, NEW p \in plugin_transports(c, k)
  PROVE  p \in c.plugin_dirs[k] /\ plugin_settings(c, p.name) # Unset
BY DEF plugin_transports, discover

(* A name that some directory offers has a transport. *)
LEMMA OfferedIsSet ==
  ASSUME NEW c \in RelayConfigs, NEW n, Offering(c, n) # {}, NEW t \in providers(c, n)
  PROVE  t # Unset
<1>1. PICK k \in DOMAIN c.plugin_dirs :
        k = Max(Offering(c, n)) /\ \E p \in plugin_transports(c, k) : p.name = n
  BY LastOffering
<1>2. PICK p \in c.plugin_dirs[k] : p.name = n
  BY <1>1, FromTheDirectory
<1>3. Unset \notin RhaiTransport(c, n, k)
  BY <1>2, NamesAssumption
<1>4. t \in RhaiTransport(c, n, k)
  BY <1>1 DEF providers
<1> QED BY <1>3, <1>4

(* Whatever the plugin directories hold and the environment lacks: a plugin *)
(* that is fine, in a directory that is fine, with settings that resolve,   *)
(* has a transport of its name, and a default that was not configured is    *)
(* one that exists.                                                         *)
THEOREM TransportsAreUsable == Spec => []TransportsUsable
<1>1. ASSUME StartInv PROVE TransportsUsable
  <2> SUFFICES ASSUME NEW i \in Instances, Built(i)
               PROVE  LET dirs == conf[i].plugin_dirs
                      IN  /\ \A k \in DOMAIN dirs :
                               (\A p \in dirs[k] : p.loads) =>
                                 \A p \in dirs[k] : plugin_settings(conf[i], p.name) # Unset
                                                       => transports[i][p.name] # Unset
                          /\ conf[i].default_transport = Unset /\ defaults[i] # Unset
                               => transports[i][defaults[i]] # Unset
    BY DEF TransportsUsable
  <2>1. /\ conf[i] \in RelayConfigs
        /\ \A n \in TransportNames : transports[i][n] \in providers(conf[i], n)
        /\ defaults[i] = default_transport_of(conf[i])
    BY <1>1 DEF StartInv, LockInv, Configured, BuiltRight, Built
  <2>2. ASSUME NEW k \in DOMAIN conf[i].plugin_dirs,
               \A p \in conf[i].plugin_dirs[k] : p.loads,
               NEW p \in conf[i].plugin_dirs[k], plugin_settings(conf[i], p.name) # Unset
        PROVE  transports[i][p.name] # Unset
    <3>1. p \in plugin_transports(conf[i], k)
      BY <2>2 DEF plugin_transports, discover
    <3>2. Offering(conf[i], p.name) # {}
      BY <3>1 DEF Offering
    <3>3. p.name \in TransportNames
      BY <2>1, NamesAssumption
    <3> QED BY <2>1, <3>2, <3>3, OfferedIsSet
  <2>3. ASSUME conf[i].default_transport = Unset, defaults[i] # Unset
        PROVE  transports[i][defaults[i]] # Unset
    <3>1. defaults[i] = Smtp /\ smtp_builds(conf[i])
      BY <2>1, <2>3 DEF default_transport_of
    <3>2. transports[i][Smtp] \in providers(conf[i], Smtp)
      BY <2>1, NamesAssumption
    <3>3. CASE Offering(conf[i], Smtp) # {}
      BY <2>1, <3>1, <3>2, <3>3, OfferedIsSet
    <3>4. CASE Offering(conf[i], Smtp) = {}
      BY <3>1, <3>2, <3>4, NamesAssumption DEF providers
    <3> QED BY <3>3, <3>4
  <2> QED BY <2>2, <2>3
<1> QED BY <1>1, AlwaysStarted, PTL

(* A plugin that runs has all the settings of its section, its secrets from *)
(* the environment of its process, for any configuration and environment.   *)
THEOREM SecretsDoArrive == Spec => []SecretsArrive
<1>1. ASSUME StartInv PROVE SecretsArrive
  <2> SUFFICES ASSUME NEW i \in Instances, Built(i),
                      NEW n \in TransportNames \cap DOMAIN conf[i].plugins,
                      transports[i][n] \notin {Unset, BuiltinSmtp}
               PROVE  LET raw == conf[i].plugins[n]
                          has == transports[i][n].config
                      IN  /\ DOMAIN raw.plain \cup DOMAIN raw.env \subseteq DOMAIN has
                          /\ \A key \in DOMAIN raw.env :
                               raw.env[key] \in DOMAIN conf[i].environment
                                 /\ has[key] = conf[i].environment[raw.env[key]]
    BY Zenon DEF SecretsArrive
  <2> DEFINE raw == conf[i].plugins[n]
             has == transports[i][n].config
  <2>1. conf[i] \in RelayConfigs /\ transports[i][n] \in providers(conf[i], n)
    BY <1>1 DEF StartInv, LockInv, Configured, BuiltRight, Built
  <2>2. Offering(conf[i], n) # {}
    BY <2>1 DEF providers
  <2>3. PICK k : transports[i][n] \in RhaiTransport(conf[i], n, k)
    BY <2>1, <2>2 DEF providers
  <2>4. PICK p \in plugin_transports(conf[i], k) :
          p.name = n /\ transports[i][n] = [key |-> p.key,
                                            config |-> plugin_settings(conf[i], n)]
    BY <2>3 DEF RhaiTransport
  <2>5. has = plugin_settings(conf[i], n) /\ plugin_settings(conf[i], n) # Unset
    BY <2>4, FromTheDirectory
  <2>6. \A key \in DOMAIN raw.env : resolve_env(conf[i], raw.env[key])
    BY <2>5 DEF plugin_settings
  <2>7. has = [key \in DOMAIN raw.plain \cup DOMAIN raw.env |->
                 IF key \in DOMAIN raw.env THEN conf[i].environment[raw.env[key]]
                 ELSE raw.plain[key]]
    BY <2>5, <2>6 DEF plugin_settings
  <2> QED BY <2>6, <2>7 DEF resolve_env
<1> QED BY <1>1, AlwaysStarted, PTL

(* Two starts of one configuration have the same transports, in whatever    *)
(* order the directories are read, unless a directory has two plugins of    *)
(* one name.                                                                *)
THEOREM StartIsReproducible == Spec => []SameConfigSameTransports
<1>1. ASSUME StartInv PROVE SameConfigSameTransports
  <2> SUFFICES ASSUME NEW i \in Instances, NEW j \in Instances, Built(i), Built(j),
                      conf[i] = conf[j], NEW n \in TransportNames,
                      \A k \in DOMAIN conf[i].plugin_dirs :
                        \A p, q \in conf[i].plugin_dirs[k] : p.name = n /\ q.name = n => p = q
               PROVE  transports[i][n] = transports[j][n]
    BY DEF SameConfigSameTransports
  <2>1. PICK c \in RelayConfigs : c = conf[i] /\ c = conf[j]
    BY <1>1 DEF StartInv, LockInv, Configured, Built
  <2>2. transports[i][n] \in providers(c, n) /\ transports[j][n] \in providers(c, n)
    BY <1>1, <2>1 DEF StartInv, BuiltRight
  <2>3. CASE Offering(c, n) # {}
    <3>1. PICK k \in DOMAIN c.plugin_dirs : k = Max(Offering(c, n))
      BY <2>3, LastOffering
    <3>2. transports[i][n] \in RhaiTransport(c, n, k) /\ transports[j][n] \in RhaiTransport(c, n, k)
      BY <2>2, <2>3, <3>1 DEF providers
    <3>3. PICK p \in plugin_transports(c, k) :
            p.name = n /\ transports[i][n] = [key |-> p.key, config |-> plugin_settings(c, n)]
      BY <3>2 DEF RhaiTransport
    <3>4. PICK q \in plugin_transports(c, k) :
            q.name = n /\ transports[j][n] = [key |-> q.key, config |-> plugin_settings(c, n)]
      BY <3>2 DEF RhaiTransport
    <3>5. p = q
      BY <2>1, <3>3, <3>4, FromTheDirectory
    <3> QED BY <3>3, <3>4, <3>5
  <2>4. CASE Offering(c, n) = {}
    BY <2>2, <2>4 DEF providers
  <2> QED BY <2>3, <2>4
<1> QED BY <1>1, AlwaysStarted, PTL
=============================================================================
