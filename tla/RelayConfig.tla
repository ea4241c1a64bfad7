----------------------------- MODULE RelayConfig -----------------------------
(***************************************************************************)
(* What a start of the relay makes of its configuration: Config::validate  *)
(* (crates/core/src/config.rs), the spellings of the queue database and    *)
(* the transports that run_relay builds (crates/oxid-relay/src/main.rs,    *)
(* crates/plugin/src/loader.rs).                                           *)
(*                                                                         *)
(* A configuration is the record                                           *)
(*   [database, log_level, smtp, dispatcher, formats, default_transport,   *)
(*    plugins, plugin_dirs, environment]                                   *)
(* with database = [scheme, path] (whether it is written with "sqlite:",   *)
(* and the file it names), smtp = NoSmtp or [host, port, tls,              *)
(* password_env] (tls is whether lettre's starttls_relay takes the host),  *)
(* dispatcher the knobs that validate looks at, formats the subject        *)
(* formats as sets of placeholders, plugins the [plugins.name] sections,   *)
(* each [plain, env]: the keys as they are and those written with "_env",  *)
(* the latter with the name of a variable for a value.  Beside the file a  *)
(* start depends on plugin_dirs, the sequence of plugin directories, each  *)
(* a set of plugins [name, key, loads] (key tells them apart, loads is     *)
(* whether manifest, script and compilation are fine), and on the          *)
(* environment, a function from the variables that are set.                *)
(***************************************************************************)
EXTENDS Integers, Sequences, FiniteSetsExt, Functions

CONSTANTS Blank,        \* an empty or blank string
          Memory,       \* the path ":memory:"
          MemoryNames,  \* it, and the files with ":memory:" in their path
          NoSmtp,       \* no [mail.smtp] section
          Smtp,         \* the name "smtp"
          BuiltinSmtp,  \* SmtpTransport, as opposed to a plugin
          Unset         \* None: no default, no transport of a name

LogLevels == {"trace", "debug", "info", "warn", "error"}

validate(config) ==
  /\ config.database.path # Blank
  /\ config.log_level \in LogLevels
  /\ config.smtp # NoSmtp => config.smtp.host # Blank /\ config.smtp.port # 0
  /\ \A knob \in DOMAIN config.dispatcher : config.dispatcher[knob] >= 1
  /\ \A format \in config.formats : "original" \in format
-----------------------------------------------------------------------------
(* A database of the process's own: external, what SQLite makes of the path. *)
in_memory(database) == database.path = Memory

(* acquire_instance_lock looks for ":memory:" anywhere in the text. *)
unlocked(database) == database.path \in MemoryNames

(* The lock file is named after the configured text, scheme and all ... *)
lock_path(database) == database

(* ... the database is the same file with and without the scheme. *)
sqlite_url(database) == database.path
-----------------------------------------------------------------------------
discover_all_or_nothing(dirs, k) ==    \* mutant: one bad directory spoils them all
  IF \E d \in DOMAIN dirs : \E plugin \in dirs[d] : ~ plugin.loads THEN {} ELSE dirs[k]

(* The plugins of the k-th directory: none if one of them does not load. *)
discover(dirs, k) ==
  IF \E plugin \in dirs[k] : ~ plugin.loads THEN {} ELSE dirs[k]

resolve_env(config, var) == var \in DOMAIN config.environment

plugin_settings_plain_first(config, name) ==    \* mutant: the plain key wins
  LET raw == config.plugins[name]
  IN  IF name \notin DOMAIN config.plugins THEN <<>>
      ELSE IF \E key \in DOMAIN raw.env : ~ resolve_env(config, raw.env[key]) THEN Unset
      ELSE [key \in DOMAIN raw.plain \cup DOMAIN raw.env |->
              IF key \in DOMAIN raw.plain THEN raw.plain[key]
              ELSE config.environment[raw.env[key]]]

(* The settings of a plugin, none without a section; Unset if one of the    *)
(* variables is not set.  "key" is looked at before "key_env", so that the  *)
(* secret replaces the plain value.                                         *)
plugin_settings(config, name) ==
  LET raw == config.plugins[name]
  IN  IF name \notin DOMAIN config.plugins THEN <<>>
      ELSE IF \E key \in DOMAIN raw.env : ~ resolve_env(config, raw.env[key]) THEN Unset
      ELSE [key \in DOMAIN raw.plain \cup DOMAIN raw.env |->
              IF key \in DOMAIN raw.env THEN config.environment[raw.env[key]]
              ELSE raw.plain[key]]

(* The plugins of the k-th directory that become transports. *)
plugin_transports(config, k) ==
  {plugin \in discover(config.plugin_dirs, k) : plugin_settings(config, plugin.name) # Unset}

(* SmtpTransport::new: the password is there, and the host is accepted. *)
smtp_builds(config) ==
  /\ config.smtp # NoSmtp
  /\ resolve_env(config, config.smtp.password_env)
  /\ config.smtp.tls

Offering(config, name) ==
  {k \in DOMAIN config.plugin_dirs :
     \E plugin \in plugin_transports(config, k) : plugin.name = name}

RhaiTransport(config, name, k) ==
  {[key |-> plugin.key, config |-> plugin_settings(config, name)] :
     plugin \in {p \in plugin_transports(config, k) : p.name = name}}

providers_any_directory(config, name) ==    \* mutant: directories in any order
  CASE Offering(config, name) # {} ->
         UNION {RhaiTransport(config, name, k) : k \in Offering(config, name)}
    [] Offering(config, name) = {} /\ name = Smtp /\ smtp_builds(config) -> {BuiltinSmtp}
    [] OTHER -> {Unset}

(* What may answer to a name: a plugin of the last directory that has one   *)
(* of that name (read_dir gives a directory's plugins in any order), with   *)
(* its settings, else the built-in SMTP transport.                          *)
providers(config, name) ==
  CASE Offering(config, name) # {} ->
         RhaiTransport(config, name, Max(Offering(config, name)))
    [] Offering(config, name) = {} /\ name = Smtp /\ smtp_builds(config) -> {BuiltinSmtp}
    [] OTHER -> {Unset}

default_transport_object(config) ==    \* mutant: the transport instead of its name
  IF config.default_transport = Unset /\ config.smtp # NoSmtp
  THEN BuiltinSmtp ELSE config.default_transport

(* The explicit default wins, otherwise SMTP if that transport was built. *)
default_transport_of(config) ==
  IF config.default_transport = Unset /\ smtp_builds(config)
  THEN Smtp ELSE config.default_transport
=============================================================================
