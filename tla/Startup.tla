------------------------------ MODULE Startup ------------------------------
(***************************************************************************)
(* What main does with its configuration before it serves: load and        *)
(* validate it, convert its pools, connect, queue the backfill, discover   *)
(* pools, ask the Raydium resolver, listen.  Every step that can fail      *)
(* either makes main return an error or is logged and passed over.  With   *)
(* --demo the loaded configuration is used to write three records.         *)
(*                                                                         *)
(* A configuration is a record; a key that does not parse is "bad", and a  *)
(* URL is its scheme.                                                      *)
(***************************************************************************)
EXTENDS Naturals, Sequences, SequencesExt

CONSTANTS
    Configs,        \* the configurations that may lie at the path
    NoFile,         \* no file there, or one that is no TOML
    Discoverable,   \* the pools that discovery may return
    ZeroKey         \* Pubkey::default()

ASSUME StartupAssumption == \A c \in Configs : c.pools \in Seq(Range(c.pools))

VARIABLES
    stage,       \* what main does next, or "refused", "serving", "finished"
    config,      \* the file at the path
    attempt,     \* attempts of reconnect_loop
    connected,   \* the WebSocket is connected
    queued,      \* pools with a backfilled update in the channel
    typed,       \* pool_types of the orchestrator, empty before it exists
    subscribed,  \* pools subscribed by subscribe_pool
    heard,       \* pools listened to
    written      \* demo mode: records written, the directory being the first

startupVars ==
    <<stage, config, attempt, connected, queued, typed, subscribed, heard, written>>

\* The argument of reconnect_loop.
MaxAttempts == 3

StartupInit ==
    /\ stage \in {"load", "demo"}
    /\ config \in Configs \cup {NoFile}
    /\ attempt = 0 /\ connected = FALSE
    /\ queued = {} /\ typed = {} /\ subscribed = {} /\ heard = {}
    /\ written = 0

-----------------------------------------------------------------------------
(* config.rs. *)

Validate(c) ==
    /\ c.rpcUrl \in {"http", "https"} /\ c.wsUrl \in {"ws", "wss"}
    /\ c.outputDir # ""
    /\ c.interval >= 100
    /\ c.pools # <<>> \/ c.discovery

\* AppConfig::load
Loads(c) == c # NoFile /\ Validate(c)

DexNames == {"pumpfun", "pump_fun", "raydium", "pumpswap", "pump_swap"}

\* into_pool_config, and PoolConfig::validate.
IntoPoolConfig(p) ==
    /\ p.address # "bad" /\ p.dex \in DexNames /\ p.mint # "bad"
    /\ p.address # ZeroKey /\ p.mint # ZeroKey

\* One pool that cannot be converted refuses all of them.
IntoRuntimeConfig(c) == \A p \in Range(c.pools) : IntoPoolConfig(p)

ConfiguredPools == {p.address : p \in Range(config.pools)}

-----------------------------------------------------------------------------
(* The steps of main. *)

Becomes(next) == stage' = next /\ UNCHANGED config

\* Mutant: the WebSocket is connected before the pools are converted.
Load_Late ==
    /\ stage = "load"
    /\ Becomes(IF Loads(config) THEN "connect" ELSE "refused")
    /\ typed' = IF stage' = "connect" THEN ConfiguredPools ELSE {}
    /\ UNCHANGED <<attempt, connected, queued, subscribed, heard, written>>

Load ==
    /\ stage = "load"
    /\ Becomes(IF Loads(config) /\ IntoRuntimeConfig(config) THEN "connect" ELSE "refused")
    /\ typed' = IF stage' = "connect" THEN ConfiguredPools ELSE {}
    /\ UNCHANGED <<attempt, connected, queued, subscribed, heard, written>>

Connected ==
    /\ stage \in {"connect", "reconnect"}
    /\ connected' = TRUE
    /\ Becomes("backfill")
    /\ UNCHANGED <<attempt, queued, typed, subscribed, heard, written>>

\* The first failure leads to reconnect_loop, and its last to an error.
ConnectFails ==
    /\ stage \in {"connect", "reconnect"}
    /\ attempt' = IF stage = "connect" THEN 0 ELSE attempt + 1
    /\ Becomes(IF attempt' < MaxAttempts THEN "reconnect" ELSE "refused")
    /\ UNCHANGED <<connected, queued, typed, subscribed, heard, written>>

\* The orchestrator runs by now.  A request that fails fetches nothing, and an
\* account that is missing or empty is left out.
InitialBackfill ==
    /\ stage = "backfill"
    /\ \E fetched \in SUBSET ConfiguredPools : queued' = fetched
    /\ Becomes(IF config.discovery THEN "discovery" ELSE "resolver")
    /\ UNCHANGED <<attempt, connected, typed, subscribed, heard, written>>

\* PoolDiscovery::new reads the allowlist only now.
DiscoveryRefused ==
    /\ stage = "discovery"
    /\ ~config.allowlistParses
    /\ Becomes("refused")
    /\ UNCHANGED <<attempt, connected, queued, typed, subscribed, heard, written>>

\* A program id that does not parse, or the request: logged, and passed over.
DiscoveryFails ==
    /\ stage = "discovery"
    /\ config.allowlistParses
    /\ Becomes("resolver")
    /\ UNCHANGED <<attempt, connected, queued, typed, subscribed, heard, written>>

\* Each pool is registered, and then subscribed, unless that fails.
Discovers ==
    /\ stage = "discovery"
    /\ config.allowlistParses /\ config.programParses
    /\ \E pools \in SUBSET Discoverable, failed \in SUBSET Discoverable :
          /\ typed' = typed \cup pools
          /\ subscribed' = pools \ failed
    /\ Becomes("resolver")
    /\ UNCHANGED <<attempt, connected, queued, heard, written>>

\* Whatever the resolver says is only logged.
Resolves ==
    /\ stage = "resolver"
    /\ Becomes("listen")
    /\ UNCHANGED <<attempt, connected, queued, typed, subscribed, heard, written>>

\* The list of pools is that of the configuration.
ListenTo ==
    /\ stage = "listen"
    /\ heard' = ConfiguredPools
    /\ Becomes("serving")
    /\ UNCHANGED <<attempt, connected, queued, typed, subscribed, written>>

-----------------------------------------------------------------------------
(* run_demo_mode: the pools are not even converted. *)

DemoRecords == 3

LoadDemo ==
    /\ stage = "demo"
    /\ Becomes(IF Loads(config) THEN "write" ELSE "refused")
    /\ UNCHANGED <<attempt, connected, queued, typed, subscribed, heard, written>>

\* The output directory, and then the records.
WritesDemo ==
    /\ stage = "write"
    /\ written' = written + 1
    /\ Becomes(IF written = DemoRecords THEN "finished" ELSE "write")
    /\ UNCHANGED <<attempt, connected, queued, typed, subscribed, heard>>

WriteDemoFails ==
    /\ stage = "write"
    /\ Becomes("refused")
    /\ UNCHANGED <<attempt, connected, queued, typed, subscribed, heard, written>>

StartupOver == stage \in {"refused", "serving", "finished"} /\ UNCHANGED startupVars

StartupNext ==
    \/ Load \/ Connected \/ ConnectFails \/ InitialBackfill
    \/ DiscoveryRefused \/ DiscoveryFails \/ Discovers \/ Resolves \/ ListenTo
    \/ LoadDemo \/ WritesDemo \/ WriteDemoFails
    \/ StartupOver

StartupSpec == StartupInit /\ [][StartupNext]_startupVars

-----------------------------------------------------------------------------
(* Properties. *)

StartupTypeOK ==
    /\ attempt \in 0 .. MaxAttempts /\ written \in 0 .. DemoRecords + 1
    /\ queued \cup subscribed \cup heard \subseteq typed
    /\ (stage = "serving") => connected

\* A configuration that main will not run is refused before anything is done
\* for it: a refusal after the connection comes from the quote allowlist only,
\* and no configuration gets past the connection that names a pool the
\* orchestrator would not know.  The demo writes nothing for one that does not
\* load, though it does for one that names no valid pool.
RefusedBeforeEffects ==
    /\ stage = "refused" /\ (connected \/ queued # {}) =>
          config.discovery /\ ~config.allowlistParses
    /\ connected => Loads(config) /\ IntoRuntimeConfig(config)
    /\ written > 0 => Loads(config)
    /\ stage = "serving" => heard = ConfiguredPools /\ (heard # {} \/ config.discovery)
=============================================================================
