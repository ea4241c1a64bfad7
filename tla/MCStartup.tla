---- MODULE MCStartup ----
(***************************************************************************)
(* Small instances of Startup for TLC.                                     *)
(***************************************************************************)
EXTENDS Startup

CONSTANTS r1, r2, m1, queue_db, smtp, teams, ntfy

Plain(path) == [scheme |-> FALSE, path |-> path]

Plugin(name, key, loads) == [name |-> name, key |-> key, loads |-> loads]

Section(plain, env) == [plain |-> plain, env |-> env]

(* Two plugin directories, the first with a plugin that does not compile.   *)
(* ntfy has a token in plain and as a secret.                               *)
Sound == Plugin(ntfy, "sound", TRUE)

Dirs == << {Plugin(ntfy, "broken", FALSE), Plugin(teams, "lost", TRUE)}, {Sound} >>

(* Both directories have a sound ntfy, and one has two plugins "smtp". *)
OverlappingDirs ==
  << {Plugin(ntfy, "older", TRUE), Plugin(teams, "teams", TRUE)},
     {Sound, Plugin(smtp, "own", TRUE), Plugin(smtp, "twin", TRUE)} >>

Base ==
  [database |-> Plain(queue_db), log_level |-> "info",
   smtp |-> [host |-> "host", port |-> 587, tls |-> TRUE,
            password_env |-> "SMTP_PASSWORD"],
   dispatcher |-> [batch_size |-> 1, concurrency |-> 1,
                   poll_interval_secs |-> 1, max_attempts |-> 2],
   formats |-> {{"name", "original"}}, default_transport |-> Unset,
   plugins |-> [n \in {ntfy} |->
                  Section([topic |-> "jobs", token |-> "plain"], [token |-> "NTFY_TOKEN"])],
   plugin_dirs |-> Dirs,
   environment |-> [SMTP_PASSWORD |-> "secret", NTFY_TOKEN |-> "secret"]]

(* A sound file; the same in an environment without the SMTP password;      *)
(* without the token, and with an SMTP host that is no host name; one with  *)
(* a knob at zero; and one that keeps the queue in memory, with plugins     *)
(* that replace one another.                                                *)
OneLockConfigs == {
  Base,
  [Base EXCEPT !.environment = [NTFY_TOKEN |-> "secret"]],
  [Base EXCEPT !.environment = [SMTP_PASSWORD |-> "secret"], !.smtp.tls = FALSE],
  [Base EXCEPT !.dispatcher.concurrency = 0],
  [Base EXCEPT !.database = Plain(Memory), !.plugin_dirs = OverlappingDirs]}

(* The same file written as "queue.db" and as "sqlite:queue.db". *)
TwoSpellings == {Base, [Base EXCEPT !.database.scheme = TRUE]}

FileOnly == {Base}
-----------------------------------------------------------------------------
(* Somebody starts the process again when it is gone, the service manager  *)
(* after a crash and an operator after a stop, and a process goes on.       *)
Fairness ==
  \A i \in Instances :
    /\ WF_startupVars(\E c \in RelayConfigs : Launch(i, c))
    /\ WF_startupVars(acquire_instance_lock(i)) /\ WF_startupVars(connect(i))
    /\ WF_startupVars(BuildTransports(i)) /\ WF_startupVars(recover(i))
    /\ WF_startupVars(Finish(i))

FairSpec == Spec /\ Fairness
====
