------------------------------- MODULE Startup -------------------------------
(***************************************************************************)
(* run_relay (crates/oxid-relay/src/main.rs) in several processes: each    *)
(* loads its configuration, takes the instance lock of its queue, opens    *)
(* the database, builds its transports, recovers claims left by an earlier *)
(* process and delivers, until it is stopped or dies.                      *)
(*                                                                         *)
(* The lock (fs4 over the operating system's file locks, external) belongs *)
(* to run_relay: it is released when that returns, before the process and  *)
(* its ingress threads are gone, or with the process, however that ends.   *)
(* Delivery is reduced to claim and outcome; Dispatcher has the rest.      *)
(***************************************************************************)
EXTENDS RelayConfig, MailQueue

CONSTANTS Instances,     \* relay processes
          RelayConfigs,  \* configurations they may be started with
          Nobody,        \* the holder of a free lock
          NoConfig,      \* nothing loaded
          MaxFaults      \* bound: crashes and failing calls

ASSUME StartupAssumption ==
  /\ Nobody \notin Instances
  /\ NoConfig \notin RelayConfigs
  /\ Unset \notin TransportNames
  /\ \A c \in RelayConfigs : c.database.path \notin Instances
  /\ Memory \in MemoryNames /\ Blank \notin MemoryNames
  /\ MaxFaults \in Nat

(* Configurations name transports and plugins among TransportNames. *)
ASSUME NamesAssumption ==
  /\ Smtp \in TransportNames
  /\ BuiltinSmtp # Unset
  /\ \A c \in RelayConfigs :
       /\ c.default_transport \in TransportNames \cup {Unset}
       /\ DOMAIN c.plugin_dirs = 1..Len(c.plugin_dirs) /\ Len(c.plugin_dirs) \in Nat
       /\ \A k \in DOMAIN c.plugin_dirs : \A p \in c.plugin_dirs[k] :
            p.name \in TransportNames /\ Unset \notin RhaiTransport(c, p.name, k)

VARIABLES
  phase,       \* per process: how far run_relay has come
  conf,        \* per process: the configuration it loaded
  held,        \* per lock file: the process that holds it
  tables,      \* per database: the table `mails`
  working,     \* per process: the mails its delivery tasks have
  transports,  \* per process: which transport answers to a name
  defaults,    \* per process: the default transport
  faults       \* ghost: failures injected so far

startupVars == <<phase, conf, held, tables, working, transports, defaults, faults>>

Phases == {"off", "loaded", "locked", "connected", "recovering", "running", "stopping"}

Databases == {c.database : c \in RelayConfigs}

LockFiles == {lock_path(d) : d \in Databases}

(* An in-memory database is the process's own. *)
Stores == {sqlite_url(d) : d \in Databases} \cup Instances

Store(i) ==
  IF in_memory(conf[i].database) THEN i ELSE sqlite_url(conf[i].database)

EmptyTable == [m \in MailIds |-> NoRow]

NothingBuilt == [n \in TransportNames |-> Unset]

Init ==
  /\ phase = [i \in Instances |-> "off"]
  /\ conf = [i \in Instances |-> NoConfig]
  /\ held = [l \in LockFiles |-> Nobody]
  /\ tables = [s \in Stores |-> EmptyTable]
  /\ working = [i \in Instances |-> {}]
  /\ transports = [i \in Instances |-> NothingBuilt]
  /\ defaults = [i \in Instances |-> Unset]
  /\ faults = 0

Fault == faults < MaxFaults /\ faults' = faults + 1

Goto(i, p) == phase' = [phase EXCEPT ![i] = p]

(* The dispatcher is dropped. *)
Dismantle(i) ==
  /\ transports' = [transports EXCEPT ![i] = NothingBuilt]
  /\ defaults' = [defaults EXCEPT ![i] = Unset]

(* What the process kept in memory is gone. *)
Forget(i) ==
  /\ Goto(i, "off")
  /\ conf' = [conf EXCEPT ![i] = NoConfig]
  /\ working' = [working EXCEPT ![i] = {}]
  /\ Dismantle(i)

(* The lock file is closed. *)
Release(i) == held' = [l \in LockFiles |-> IF held[l] = i THEN Nobody ELSE held[l]]

Exit_keeping_lock(i) ==                \* mutant: the lock stays
  /\ Forget(i)
  /\ tables' = [tables EXCEPT ![i] = EmptyTable]
  /\ UNCHANGED held

(* The process ends, and with it its lock and its in-memory database. *)
Exit(i) ==
  /\ Forget(i)
  /\ tables' = [tables EXCEPT ![i] = EmptyTable]
  /\ Release(i)
-----------------------------------------------------------------------------
(* Config::load; a file that does not validate ends the process here. *)
Launch(i, c) ==
  /\ phase[i] = "off"
  /\ validate(c)
  /\ conf' = [conf EXCEPT ![i] = c]
  /\ Goto(i, "loaded")
  /\ UNCHANGED <<held, tables, working, transports, defaults, faults>>

acquire_instance_lock_ignored(i) ==    \* mutant: a held lock is only logged
  /\ phase[i] = "loaded"
  /\ Goto(i, "locked")
  /\ held' = IF unlocked(conf[i].database) THEN held
             ELSE [held EXCEPT ![lock_path(conf[i].database)] = i]
  /\ UNCHANGED <<conf, tables, working, transports, defaults, faults>>

(* No lock, or try_lock: taken, refused because another process holds it, or an error. *)
acquire_instance_lock(i) ==
  LET l    == lock_path(conf[i].database)
      free == unlocked(conf[i].database)
  IN  /\ phase[i] = "loaded"
      /\ \/ /\ free \/ held[l] = Nobody
            /\ held' = IF free THEN held ELSE [held EXCEPT ![l] = i]
            /\ Goto(i, "locked")
            /\ UNCHANGED <<conf, tables, working, transports, defaults, faults>>
         \/ ~ free /\ held[l] # Nobody /\ Exit(i) /\ UNCHANGED faults
         \/ ~ free /\ Fault /\ Exit(i)

connect_recreating(i) ==               \* mutant: the database is made anew
  /\ phase[i] = "locked"
  /\ Goto(i, "connected")
  /\ tables' = [tables EXCEPT ![Store(i)] = EmptyTable]
  /\ UNCHANGED <<conf, held, working, transports, defaults, faults>>

(* Opens the database and makes sure the table exists, keeping what is in   *)
(* it.  A failure ends the process.                                         *)
connect(i) ==
  /\ phase[i] = "locked"
  /\ \/ /\ Goto(i, "connected")
        /\ UNCHANGED <<conf, held, tables, working, transports, defaults, faults>>
     \/ Fault /\ Exit(i)

(* The map of transports, the ingress thread and the dispatcher: no await   *)
(* and no way to fail between them.                                         *)
BuildTransports(i) ==
  /\ phase[i] = "connected"
  /\ Goto(i, "recovering")
  /\ \E t \in [TransportNames -> UNION {providers(conf[i], n) : n \in TransportNames}] :
       /\ \A n \in TransportNames : t[n] \in providers(conf[i], n)
       /\ transports' = [transports EXCEPT ![i] = t]
  /\ defaults' = [defaults EXCEPT ![i] = default_transport_of(conf[i])]
  /\ UNCHANGED <<conf, held, tables, working, faults>>
-----------------------------------------------------------------------------
(* A statement on the database of process i. *)
Statement(i, t) ==
  \/ tables' = [tables EXCEPT ![Store(i)] = t] /\ UNCHANGED faults
  \/ UNCHANGED tables /\ Fault

recover(i) ==
  /\ phase[i] = "recovering"
  /\ Goto(i, "running")
  /\ Statement(i, requeue_sending(tables[Store(i)], 0))
  /\ UNCHANGED <<conf, held, working, transports, defaults>>

(* The ingress thread, from BuildTransports to the end of the process: also *)
(* when run_relay has returned and another process has the lock.            *)
Submit(i, m) ==
  /\ phase[i] \in {"recovering", "running", "stopping"}
  /\ tables[Store(i)][m].status = "absent"
  /\ tables' = [tables EXCEPT ![Store(i)] = enqueue(@, m, NoTransport, 0)]
  /\ UNCHANGED <<phase, conf, held, working, transports, defaults, faults>>

(* The dispatcher fetches a due mail and claims it. *)
Claim(i, m) ==
  /\ phase[i] = "running"
  /\ is_due(tables[Store(i)][m], 0)
  /\ tables' = [tables EXCEPT ![Store(i)] = mark_sending(@, m, 0)]
  /\ working' = [working EXCEPT ![i] = @ \cup {m}]
  /\ UNCHANGED <<phase, conf, held, transports, defaults, faults>>

(* A delivery ends as sent, failed with retries left, or dead; what it      *)
(* writes may fail to be written.                                           *)
Settle(i, m) ==
  /\ m \in working[i]
  /\ working' = [working EXCEPT ![i] = @ \ {m}]
  /\ \/ Statement(i, mark_sent(tables[Store(i)], m, 0))
     \/ Statement(i, mark_dead(tables[Store(i)], m, 0))
     \/ /\ tables[Store(i)][m].attempts + 1 < conf[i].dispatcher.max_attempts
        /\ Statement(i, mark_failed(tables[Store(i)], m, 0, 0))
  /\ UNCHANGED <<phase, conf, held, transports, defaults>>

(* The start of a tick, with no delivery of this process running: claims    *)
(* whose lease is over are put back.  When that is, time decides.           *)
Reclaim(i) ==
  /\ phase[i] = "running"
  /\ working[i] = {}
  /\ Statement(i, requeue_stale_sending(tables[Store(i)], 1, 0))
  /\ UNCHANGED <<phase, conf, held, working, transports, defaults>>

(* Shutdown is looked at between ticks, when no delivery runs: run_relay    *)
(* returns, and drops the dispatcher and the lock.                          *)
Stop(i) ==
  /\ phase[i] = "running"
  /\ working[i] = {}
  /\ Goto(i, "stopping")
  /\ Dismantle(i)
  /\ Release(i)
  /\ UNCHANGED <<conf, tables, working, faults>>

(* main returns, and ends the ingress threads wherever they are. *)
Finish(i) ==
  /\ phase[i] = "stopping"
  /\ Exit(i)
  /\ UNCHANGED faults

Crash(i) ==
  /\ phase[i] # "off"
  /\ Fault
  /\ Exit(i)

Next ==
  \E i \in Instances :
    \/ \E c \in RelayConfigs : Launch(i, c)
    \/ acquire_instance_lock(i) \/ connect(i) \/ BuildTransports(i) \/ recover(i)
    \/ \E m \in MailIds : Submit(i, m) \/ Claim(i, m) \/ Settle(i, m)
    \/ Reclaim(i) \/ Stop(i) \/ Finish(i) \/ Crash(i)

Spec == Init /\ [][Next]_startupVars
-----------------------------------------------------------------------------
(* The process has passed the lock, and run_relay has not returned. *)
Open(i) == phase[i] \in {"locked", "connected", "recovering", "running"}

(* All configurations that name the same file name it in the same way, and *)
(* in one that is locked.                                                   *)
OneLock ==
  \A c, d \in RelayConfigs :
    /\ sqlite_url(c.database) = sqlite_url(d.database)
    /\ ~ in_memory(c.database)
    => c.database = d.database /\ ~ unlocked(c.database)

(* Every variable has its type. *)
TypeOK ==
  /\ phase \in [Instances -> Phases]
  /\ conf \in [Instances -> RelayConfigs \cup {NoConfig}]
  /\ held \in [LockFiles -> Instances \cup {Nobody}]
  /\ tables \in [Stores -> Table]
  /\ working \in [Instances -> SUBSET MailIds]
  /\ defaults \in [Instances -> TransportNames \cup {Unset}]
  /\ faults \in 0..MaxFaults

(* "Run exactly one instance per queue.  A second instance against the same *)
(* queue database refuses to start (an exclusive lock guards it)."          *)
(* (README.md:101)                                                          *)
OneRelayPerDatabase ==
  \A i, j \in Instances :
    Open(i) /\ Open(j) /\ Store(i) = Store(j) => i = j

(* What a process delivers is claimed by it alone: the recovery of another  *)
(* process never puts a mail back while it is being delivered.              *)
LiveClaimsUntouched ==
  \A i \in Instances : \A m \in working[i] :
    /\ tables[Store(i)][m].status = "sending"
    /\ \A j \in Instances \ {i} : m \in working[j] => Store(j) # Store(i)

(* A mail in a database file is never lost, whatever starts, stops, fails   *)
(* or crashes around it; and a settled one stays settled.                   *)
QueueSurvives ==
  [][\A s \in Stores \ Instances : \A m \in MailIds :
       LET before == tables[s][m].status
           after  == tables'[s][m].status
       IN  /\ before # "absent" => after # "absent"
           /\ before \in {"sent", "dead"} => after = before]_startupVars

Built(i) == phase[i] \in {"recovering", "running"}

(* A broken plugin costs no plugin of another directory, an unset secret    *)
(* only its own plugin, and a default that was not configured is one that   *)
(* exists.                                                                  *)
TransportsUsable ==
  \A i \in Instances : Built(i) =>
    LET dirs == conf[i].plugin_dirs
    IN  /\ \A k \in DOMAIN dirs :
             (\A p \in dirs[k] : p.loads) =>
               \A p \in dirs[k] : plugin_settings(conf[i], p.name) # Unset
                                     => transports[i][p.name] # Unset
        /\ conf[i].default_transport = Unset /\ defaults[i] # Unset
             => transports[i][defaults[i]] # Unset

(* A plugin that runs has a value for every setting of its section, and for *)
(* a secret that of the process's environment, also where the file states   *)
(* the key in plain as well: a start in an incomplete environment leaves    *)
(* the plugin out instead of running it with half of its settings.          *)
SecretsArrive ==
  \A i \in Instances : Built(i) =>
    \A n \in TransportNames \cap DOMAIN conf[i].plugins :
      transports[i][n] \notin {Unset, BuiltinSmtp} =>
        LET raw == conf[i].plugins[n]
            has == transports[i][n].config
        IN  /\ DOMAIN raw.plain \cup DOMAIN raw.env \subseteq DOMAIN has
            /\ \A key \in DOMAIN raw.env :
                 raw.env[key] \in DOMAIN conf[i].environment
                   /\ has[key] = conf[i].environment[raw.env[key]]

(* The same configuration gives the same transports at every start, though  *)
(* read_dir promises no order and the map is filled by overwriting, as long *)
(* as no directory has two plugins of one name.                             *)
SameConfigSameTransports ==
  \A i, j \in Instances : Built(i) /\ Built(j) /\ conf[i] = conf[j] =>
    \A n \in TransportNames :
      (\A k \in DOMAIN conf[i].plugin_dirs :
         \A p, q \in conf[i].plugin_dirs[k] : p.name = n /\ q.name = n => p = q)
      => transports[i][n] = transports[j][n]

(* A relay that has stopped or died comes back: neither a lock it left nor  *)
(* a second process that was refused keeps the queue without a relay.       *)
RelayComesBack ==
  (\A i \in Instances : phase[i] # "running") ~>
    (\E i \in Instances : phase[i] = "running")

(* What README.md:357 says: the relay "scans the plugin directories at      *)
(* startup, loads each plugin, and exposes it as a transport".              *)
EachPluginLoaded ==
  \A i \in Instances : Built(i) =>
    \A k \in DOMAIN conf[i].plugin_dirs : \A p \in conf[i].plugin_dirs[k] :
      p.loads /\ plugin_settings(conf[i], p.name) # Unset => transports[i][p.name] # Unset
=============================================================================
