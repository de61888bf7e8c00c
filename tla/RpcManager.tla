----------------------------- MODULE RpcManager -----------------------------
(***************************************************************************)
(* RpcManager of rpc_manager.rs: the health of a list of RPC endpoints,    *)
(* kept by monitors that ask each of them in turn and by what the users of *)
(* an endpoint report, and the choice of endpoints by health and tier.     *)
(*                                                                         *)
(* A monitor holds no lock while it asks, and applies what it heard in one *)
(* step at the end of its round; start_monitoring may be called more than  *)
(* once.  The statistics, the leader schedule and the validators of an     *)
(* endpoint only enter its score, and a score only orders the candidates:  *)
(* here, any order may come out.                                           *)
(***************************************************************************)
EXTENDS Naturals, Sequences, SequencesExt

CONSTANTS
    Endpoints,      \* the hosts named in the URLs, in the order configured
    Monitors,       \* the calls of start_monitoring
    MaxReports,     \* bound: reports of users
    MaxLinkChanges, \* bound: changes of the links
    MaxCount        \* bound: how many endpoints are asked for

ASSUME RpcAssumption ==
    /\ Endpoints \in Seq(STRING) /\ Endpoints # <<>>
    /\ {MaxReports, MaxLinkChanges, MaxCount} \subseteq Nat

VARIABLES
    health,   \* health of each endpoint
    errors,   \* error_count of each endpoint
    monitoring,  \* the monitors that have been started
    round,    \* what each monitor has heard in this round
    link,     \* how each endpoint answers get_health now
    reports,  \* reports made
    moves,    \* changes of the links
    lastFailure  \* history: the kind of failure heard of last, by endpoint

rpcVars == <<health, errors, monitoring, round, link, reports, moves, lastFailure>>

Ids == DOMAIN Endpoints

Healths == {"Healthy", "Degraded", "Unhealthy"}

\* An answer within 150 ms, within 750 ms, a later one, and none.
Links == {"fast", "slow", "late", "down"}

\* infer_tier_from_url
Tier(host) ==
    IF host \in {"block-engine", "jito", "private", "dedicated"} THEN 0
    ELSE IF host \in {"helius", "triton", "quiknode", "quicknode", "alchemy"} THEN 1
    ELSE 2

TierOf(e) == Tier(Endpoints[e])

\* Errors past the third make no difference.
Strikes == 3
Plus(n, k) == IF n + k > Strikes THEN Strikes ELSE n + k

RpcInit ==
    /\ health = [e \in Ids |-> "Healthy"]
    /\ errors = [e \in Ids |-> 0]
    /\ monitoring = {}
    /\ round = [m \in Monitors |-> <<>>]
    /\ link = [e \in Ids |-> "fast"]
    /\ reports = 0 /\ moves = 0
    /\ lastFailure = [e \in Ids |-> "none"]

-----------------------------------------------------------------------------
(* start_monitoring. *)

StartMonitoring(m) ==
    /\ m \notin monitoring
    /\ monitoring' = monitoring \cup {m}
    /\ UNCHANGED <<health, errors, round, link, reports, moves, lastFailure>>

Verdict(answer) ==
    CASE answer = "fast" -> "Healthy"
      [] answer = "slow" -> "Degraded"
      [] OTHER           -> "Unhealthy"

\* Mutant: an endpoint that is unhealthy is not asked any more.
Check_SkipsUnhealthy(m) ==
    /\ m \in monitoring /\ Len(round[m]) < Len(Endpoints)
    /\ LET e == Len(round[m]) + 1
       IN  round' = [round EXCEPT ![m] =
                Append(@, IF health[e] = "Unhealthy" THEN "down" ELSE link[e])]
    /\ UNCHANGED <<health, errors, monitoring, link, reports, moves, lastFailure>>

\* get_health of the next endpoint.
Check(m) ==
    /\ m \in monitoring /\ Len(round[m]) < Len(Endpoints)
    /\ round' = [round EXCEPT ![m] = Append(@, link[Len(@) + 1])]
    /\ UNCHANGED <<health, errors, monitoring, link, reports, moves, lastFailure>>

\* A late answer makes an endpoint unhealthy and clears its errors.
Apply(m) ==
    /\ m \in monitoring /\ Len(round[m]) = Len(Endpoints)
    /\ health' = [e \in Ids |-> Verdict(round[m][e])]
    /\ errors' = [e \in Ids |-> IF round[m][e] = "down" THEN Plus(errors[e], 1) ELSE 0]
    /\ lastFailure' = [e \in Ids |->
            IF round[m][e] = "down" THEN "NetworkTimeout" ELSE lastFailure[e]]
    /\ round' = [round EXCEPT ![m] = <<>>]
    /\ UNCHANGED <<monitoring, link, reports, moves>>

-----------------------------------------------------------------------------
(* Reports of the users of an endpoint. *)

Reports == reports < MaxReports /\ reports' = reports + 1

\* Mutant: three strikes are not looked at.
RecordRpcResult_NoStrikes(e) ==
    /\ Reports
    /\ errors' = [errors EXCEPT ![e] = Plus(@, 1)]
    /\ health' = [health EXCEPT ![e] =
            IF errors'[e] = 1 /\ @ = "Healthy" THEN "Degraded" ELSE @]
    /\ lastFailure' = [lastFailure EXCEPT ![e] = "result"]
    /\ UNCHANGED <<monitoring, round, link, moves>>

\* A success only enters the statistics.
RecordRpcResult(e) ==
    /\ Reports
    /\ errors' = [errors EXCEPT ![e] = Plus(@, 1)]
    /\ health' = [health EXCEPT ![e] =
            IF errors'[e] >= Strikes THEN "Unhealthy"
            ELSE IF errors'[e] = 1 /\ @ = "Healthy" THEN "Degraded" ELSE @]
    /\ lastFailure' = [lastFailure EXCEPT ![e] = "result"]
    /\ UNCHANGED <<monitoring, round, link, moves>>

\* The kinds of classify_error that touch the health: a rate limit makes any
\* endpoint degraded, an unhealthy one too.
ClassifyAndRecordError(e, kind) ==
    /\ Reports
    /\ health' = [health EXCEPT ![e] =
            IF kind = "RateLimited" THEN "Degraded" ELSE "Unhealthy"]
    /\ errors' = [errors EXCEPT ![e] = Plus(@, IF kind = "RateLimited" THEN 1 ELSE 2)]
    /\ lastFailure' = [lastFailure EXCEPT ![e] = kind]
    /\ UNCHANGED <<monitoring, round, link, moves>>

LinkChanges(e, answer) ==
    /\ moves < MaxLinkChanges
    /\ moves' = moves + 1
    /\ link' = [link EXCEPT ![e] = answer]
    /\ UNCHANGED <<health, errors, monitoring, round, reports, lastFailure>>

RpcNext ==
    \/ \E m \in Monitors : StartMonitoring(m) \/ Check(m) \/ Apply(m)
    \/ \E e \in Ids :
          \/ RecordRpcResult(e)
          \/ \E kind \in {"RateLimited", "NodeUnhealthy", "NetworkTimeout"} :
                ClassifyAndRecordError(e, kind)
          \/ \E answer \in Links : LinkChanges(e, answer)

\* A monitor that has started goes on: get_health has a timeout, and nothing
\* ends the loop.  Nobody has to start one.
RpcFairness == \A m \in Monitors : WF_rpcVars(Check(m)) /\ WF_rpcVars(Apply(m))

RpcSpec == RpcInit /\ [][RpcNext]_rpcVars /\ RpcFairness

-----------------------------------------------------------------------------
(* The choice of endpoints. *)

Usable == {e \in Ids : health[e] # "Unhealthy"}

\* Healthy before degraded, then the better tier, then the first in the list.
Preferred(d, e) ==
    LET worse(x) == IF health[x] = "Healthy" THEN 0 ELSE 1
    IN  \/ worse(d) < worse(e)
        \/ worse(d) = worse(e) /\ TierOf(d) < TierOf(e)
        \/ worse(d) = worse(e) /\ TierOf(d) = TierOf(e) /\ d <= e

\* get_healthy_client; 0 is its error.
GetHealthyClient ==
    IF Usable = {} THEN 0
    ELSE CHOOSE e \in Usable : \A d \in Usable : Preferred(e, d)

\* get_optimal_rpc falls back on get_client, the first endpoint of the list.
GetOptimalRpc == IF GetHealthyClient = 0 THEN 1 ELSE GetHealthyClient

\* 70 % and 25 % of those asked for, rounded, and the rest.
Want(tier, count) ==
    LET want0 == (14 * count + 10) \div 20
        want1 == (count + 2) \div 4
    IN  CASE tier = 0 -> want0
          [] tier = 1 -> want1
          [] tier = 2 -> IF count > want0 + want1 THEN count - (want0 + want1) ELSE 0

FirstOf(s, n) == SubSeq(s, 1, IF n < Len(s) THEN n ELSE Len(s))
RestOf(s, n) == SubSeq(s, n + 1, Len(s))

\* The candidates of a tier, in their order.
OfTier(order, tier) ==
    LET among[n \in 0 .. Len(order)] ==
            IF n = 0 THEN <<>>
            ELSE IF TierOf(order[n]) = tier THEN Append(among[n - 1], order[n])
            ELSE among[n - 1]
    IN  among[Len(order)]

Quota(order, tier, count) == FirstOf(OfTier(order, tier), Want(tier, count))
Spill(order, tier, count) == RestOf(OfTier(order, tier), Want(tier, count))

\* Mutant: what the quotas leave open is not filled.
Ranked_NoSpill(order, count) ==
    FirstOf(Quota(order, 0, count) \o Quota(order, 1, count) \o Quota(order, 2, count),
            count)

\* get_ranked_rpc_endpoints, for the candidates in the order of their scores:
\* the quota of each tier, and then whoever is left.
Ranked(order, count) ==
    FirstOf(Quota(order, 0, count) \o Quota(order, 1, count) \o Quota(order, 2, count)
                \o Spill(order, 0, count) \o Spill(order, 1, count)
                \o Spill(order, 2, count),
            count)

-----------------------------------------------------------------------------
(* Properties. *)

RpcTypeOK ==
    /\ health \in [Ids -> Healths] /\ errors \in [Ids -> 0 .. Strikes]
    /\ link \in [Ids -> Links]
    /\ monitoring \subseteq Monitors /\ round \in [Monitors -> Seq(Links)]

\* An endpoint with three errors in its count is out of use, whoever counted
\* them, unless the last that was heard of it is that it limits its rate: this
\* alone brings one back without an answer to a monitor.
StrikesMeanUnhealthy ==
    \A e \in Ids :
        errors[e] >= Strikes /\ e \in Usable => lastFailure[e] = "RateLimited"

\* However many are asked for and however they score, as many endpoints are
\* chosen as there are, none twice and none out of use; one of a worse tier
\* comes before one of a better tier only when that has its quota.
RankingServes ==
    \A count \in 1 .. MaxCount, order \in SetToSeqs(Usable) :
        LET chosen == Ranked(order, count)
            of(t) == {e \in Range(chosen) : TierOf(e) = t}
        IN  /\ Range(chosen) \subseteq Usable
            /\ Cardinality(Range(chosen)) = Len(chosen)
            /\ Len(chosen) = IF count < Len(order) THEN count ELSE Len(order)
            /\ \A d \in Range(chosen), e \in Usable \ Range(chosen) :
                  TierOf(e) < TierOf(d) => Cardinality(of(TierOf(e))) >= Want(TierOf(e), count)

\* Who asks for one endpoint is given a usable one if there is any, a healthy
\* one if there is any, and of those as healthy as it one of the best tier.
OptimalServes ==
    Usable # {} =>
        /\ GetOptimalRpc \in Usable
        /\ (\E e \in Ids : health[e] = "Healthy") => health[GetOptimalRpc] = "Healthy"
        /\ \A e \in Usable :
              health[e] = health[GetOptimalRpc] => TierOf(GetOptimalRpc) <= TierOf(e)

\* Both ways of choosing serve who asks.
SelectionServes == RankingServes /\ OptimalServes

\* Once a monitor runs, an endpoint whose link stays as it is comes to be
\* judged by it for good: no report of a user and no round that began before
\* the link changed is the last word.
HealthFollowsLink ==
    \A e \in Ids, answer \in Links :
        <>[](link[e] = answer /\ monitoring # {})
            => <>[](health[e] = Verdict(answer))
=============================================================================
