------------------------------ MODULE Services ------------------------------
(***************************************************************************)
(* The services around the path of an update, side by side.  No two of     *)
(* them share a variable, so that a behaviour of the program is, for each  *)
(* of them, a behaviour of its own: here, one part moves in a behaviour    *)
(* and the others stay as they were created.                               *)
(***************************************************************************)
EXTENDS StreamListener, DecoderRegistry, RaydiumResolver, Enrichment,
        TokenMapping, RpcManager, PoolDiscovery, Startup

VARIABLE part  \* the part that moves

Parts == {"listener", "registry", "resolver", "enrichment", "mapping", "rpc",
          "discovery", "startup"}

servicesVars ==
    <<part, vars, registryVars, resolverVars, enrichmentVars, mappingVars,
      rpcVars, discoveryVars, startupVars>>

\* Of the ways to start, the parts that do not move are given one.
ServicesInit ==
    /\ part \in Parts
    /\ Init /\ RegistryInit /\ ResolverInit /\ EnrichmentInit /\ MappingInit
    /\ RpcInit /\ DiscoveryInit /\ StartupInit
    /\ part # "startup" => stage = "load" /\ config = NoFile

ListenerMoves == part = "listener" /\ Next
    /\ UNCHANGED <<part, registryVars, resolverVars, enrichmentVars, mappingVars,
                   rpcVars, discoveryVars, startupVars>>
RegistryMoves == part = "registry" /\ RegistryNext
    /\ UNCHANGED <<part, vars, resolverVars, enrichmentVars, mappingVars, rpcVars,
                   discoveryVars, startupVars>>
ResolverMoves == part = "resolver" /\ ResolverNext
    /\ UNCHANGED <<part, vars, registryVars, enrichmentVars, mappingVars, rpcVars,
                   discoveryVars, startupVars>>
EnrichmentMoves == part = "enrichment" /\ EnrichmentNext
    /\ UNCHANGED <<part, vars, registryVars, resolverVars, mappingVars, rpcVars,
                   discoveryVars, startupVars>>
MappingMoves == part = "mapping" /\ MappingNext
    /\ UNCHANGED <<part, vars, registryVars, resolverVars, enrichmentVars, rpcVars,
                   discoveryVars, startupVars>>
RpcMoves == part = "rpc" /\ RpcNext
    /\ UNCHANGED <<part, vars, registryVars, resolverVars, enrichmentVars,
                   mappingVars, discoveryVars, startupVars>>
DiscoveryMoves == part = "discovery" /\ DiscoveryNext
    /\ UNCHANGED <<part, vars, registryVars, resolverVars, enrichmentVars,
                   mappingVars, rpcVars, startupVars>>
StartupMoves == part = "startup" /\ StartupNext
    /\ UNCHANGED <<part, vars, registryVars, resolverVars, enrichmentVars,
                   mappingVars, rpcVars, discoveryVars>>

ServicesNext ==
    \/ ListenerMoves \/ RegistryMoves \/ ResolverMoves \/ EnrichmentMoves
    \/ MappingMoves \/ RpcMoves \/ DiscoveryMoves \/ StartupMoves

\* The fairness of the two parts that state one.
ServicesFairness ==
    /\ WF_vars(part = "listener" /\ Tick)
    /\ \A l \in Listeners : WF_vars(part = "listener" /\ TaskStep(l))
    /\ \A m \in Monitors :
          /\ WF_rpcVars(part = "rpc" /\ Check(m))
          /\ WF_rpcVars(part = "rpc" /\ Apply(m))

ServicesSpec == ServicesInit /\ [][ServicesNext]_servicesVars /\ ServicesFairness

\* The types of all parts.
ServicesTypeOK ==
    /\ TypeOK /\ RegistryTypeOK /\ ResolverTypeOK /\ EnrichmentTypeOK
    /\ MappingTypeOK /\ RpcTypeOK /\ DiscoveryTypeOK /\ StartupTypeOK
=============================================================================
