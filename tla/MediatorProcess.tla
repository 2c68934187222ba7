--------------------------- MODULE MediatorProcess ---------------------------
(***************************************************************************)
(* The life of a mediator process: start() loads the configuration, waits  *)
(* for the database, loads the Lua functions and binds its address.  What  *)
(* goes wrong after the first answer of the database ends the process, and *)
(* whatever runs it starts it again.  The database can be out of reach at  *)
(* any time.                                                               *)
(*                                                                         *)
(* The tasks that start() spawns are left out: the streaming task is in    *)
(* Streaming and spawning it cannot fail; the statistics task only logs.   *)
(***************************************************************************)
EXTENDS Integers

CONSTANTS
  Configs,      \* what the configuration file can hold when it is read
  NoKey,        \* the JWT key of a process that has not loaded one
  MaxCrashes,   \* bound: how often the process dies by itself
  MaxOutages    \* bound: how often the database goes out of reach

Methods == {"did", "file", "string", "hostname", "aws", "malformed"}

\* A setting that says where its value comes from, and whether the value is
\* well formed there.
Source == [method : Methods, wellFormed : BOOLEAN]

ASSUME ConfigsAssumption ==
  Configs \subseteq [readable : BOOLEAN, cors : BOOLEAN, url : BOOLEAN, tls : BOOLEAN,
                     streaming : {"true", "false", "other"},
                     did : Source, secrets : Source, jwt : Source, uuid : Source]

VARIABLES
  phase,      \* how far start() is
  config,     \* the configuration the process runs with
  key,        \* the JWT key it made from it
  redis,      \* can the database be reached?
  faults      \* how many crashes and outages there were

processVars == <<phase, config, key, redis, faults>>

Running == {"config", "connect", "retry", "scripts", "metadata", "bind", "serving"}

ProcessInit ==
  /\ phase = "config"
  /\ config \in Configs
  /\ key = NoKey
  /\ redis = "up"
  /\ faults = [crashes |-> 0, outages |-> 0]

-----------------------------------------------------------------------------
(* The configuration *)

\* read_config_file: the file is there and is TOML with every table in it.
ReadConfigFile(raw) == raw.readable

\* A value that is kept in AWS can be read when AWS answers.
From(source, methods, aws) ==
  source.method \in methods \cup (IF aws THEN {"aws"} ELSE {})

ReadDidConfig(raw, aws) == From(raw.did, {"did"}, aws)

LoadSecrets(raw, aws) == From(raw.secrets, {"file"}, aws) /\ raw.secrets.wellFormed

\* Base64 of a PKCS 8 document: both failures are ConfigErrors.
ConfigJwtSecret(raw, aws) == From(raw.jwt, {"string"}, aws) /\ raw.jwt.wellFormed

GetHostname(raw) == raw.uuid.method \in {"hostname", "string"}

\* A value that is not a Boolean counts as true.
StreamingEnabled(raw) == raw.streaming # "false"

\* TryFrom<ConfigRaw>.  Numbers that do not parse get defaults, origins that
\* are no header value are unwrapped.
TryFromRaw(raw, aws) ==
  /\ ReadDidConfig(raw, aws)
  /\ raw.cors
  /\ LoadSecrets(raw, aws)
  /\ ConfigJwtSecret(raw, aws)
  /\ StreamingEnabled(raw) => GetHostname(raw)

\* The key pair is the one in the configuration, not a new one for each start.
JwtKeyFresh(raw) ==
  IF faults.crashes = 0 THEN raw.jwt ELSE [raw.jwt EXCEPT !.wellFormed = FALSE]
JwtKey(raw) == raw.jwt

-----------------------------------------------------------------------------
(* start() *)

Goto(from, to) == phase = from /\ phase' = to

\* init(): an error is met by expect().
InitConfig(aws) ==
  LET ok == ReadConfigFile(config) /\ TryFromRaw(config, aws) IN
  /\ Goto("config", IF ok THEN "connect" ELSE "exited")
  /\ key' = IF ok THEN JwtKey(config) ELSE NoKey
  /\ UNCHANGED <<config, redis, faults>>

\* DatabaseHandler::new.  A URL that cannot be parsed is an error, a database
\* that does not answer is asked again after 10 seconds.
Connect ==
  /\ Goto("connect", CASE ~config.url -> "exited"
                       [] config.url /\ redis = "up" -> "scripts"
                       [] OTHER -> "retry")
  /\ UNCHANGED <<config, key, redis, faults>>

Retry ==
  /\ Goto("retry", "connect")
  /\ UNCHANGED <<config, key, redis, faults>>

\* FUNCTION LOAD: having no connection is an error, a refusal is only logged.
LoadScripts ==
  /\ Goto("scripts", IF redis = "up" THEN "metadata" ELSE "exited")
  /\ UNCHANGED <<config, key, redis, faults>>

\* get_db_metadata, only to see that it can be read.
ReadMetadata ==
  /\ Goto("metadata", IF redis = "up" THEN "bind" ELSE "exited")
  /\ UNCHANGED <<config, key, redis, faults>>

\* Bad certificates and an address in use are unwrapped.
Bind(free) ==
  /\ Goto("bind", IF config.tls /\ free THEN "serving" ELSE "exited")
  /\ UNCHANGED <<config, key, redis, faults>>

-----------------------------------------------------------------------------
(* Faults *)

Crash ==
  /\ phase \in Running
  /\ faults.crashes < MaxCrashes
  /\ phase' = "exited"
  /\ faults' = [faults EXCEPT !.crashes = @ + 1]
  /\ UNCHANGED <<config, key, redis>>

\* The process is started again, with what its configuration holds by then.
Restart ==
  /\ phase = "exited"
  /\ phase' = "config"
  /\ config' \in Configs
  /\ key' = NoKey
  /\ UNCHANGED <<redis, faults>>

Outage ==
  /\ redis = "up"
  /\ faults.outages < MaxOutages
  /\ redis' = "down"
  /\ faults' = [faults EXCEPT !.outages = @ + 1]
  /\ UNCHANGED <<phase, config, key>>

Recover ==
  /\ redis = "down"
  /\ redis' = "up"
  /\ UNCHANGED <<phase, config, key, faults>>

StartStep ==
  \/ \E aws \in BOOLEAN : InitConfig(aws)
  \/ Connect
  \/ Retry
  \/ LoadScripts
  \/ ReadMetadata
  \/ \E free \in BOOLEAN : Bind(free)

ProcessNext == StartStep \/ Crash \/ Restart \/ Outage \/ Recover

Serving == phase = "serving"
=============================================================================
