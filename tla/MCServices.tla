----------------------------- MODULE MCServices -----------------------------
(* Services on a small instance. *)
EXTENDS Services

\* Accounts of the three layouts.
PumpFunAccount(b, q) == [size |-> 256, base |-> b, quote |-> q]
PumpSwapAccount(q, mint) ==
    [size |-> 324, base |-> 1, quote |-> q, baseMint |-> "coin", quoteMint |-> mint]
RaydiumAccount == [size |-> 752, status |-> 6, coinVault |-> "cv", pcVault |-> "pv"]

\* DecoderRegistry: a Pump.fun account, and one that it refuses.
MCSamples == {PumpFunAccount(1, 1), PumpFunAccount(1, 3)}

\* RaydiumResolver: a pool that is listed in every answer or renamed, and an
\* address that is the LP mint of one pool and the market of another.
Listed(id, market, pair, lp) == [id |-> id, market |-> market, pair |-> pair, lp |-> lp]
MCListings == {
    [official |-> <<Listed("a", "m", "x", "k")>>, unverified |-> <<Listed("u", "v", "y", "w")>>],
    [official |-> <<Listed("a", "m", "x", "k"), Listed("b", "m", "x", "k")>>, unverified |-> <<>>],
    [official |-> <<Listed("b", "", "x", "m")>>, unverified |-> <<>>]}

\* Enrichment: a Pump.fun pool quoted in SOL and a Raydium pool in USDC.
MCEnrichedPools == [fun |-> [dex |-> "PumpFun", base |-> "coin", quote |-> "sol"],
                    ray |-> [dex |-> "Raydium", base |-> "coin", quote |-> "usdc"]]
MCAccounts == {PumpFunAccount(1, 1), RaydiumAccount}
MCChainDecimals == [coin |-> 6, sol |-> 9, usdc |-> 6]

\* TokenMapping: two providers that disagree and one that refused its entries.
Entry(m, i) == [mint |-> m, id |-> i]
MCProviders == <<StaticMapping(<<Entry("a", "x")>>),
                 StaticMapping(<<Entry("a", "y"), Entry("a", "z")>>),
                 StaticMapping(<<Entry("a", "")>>)>>

\* RpcManager: endpoints of two tiers.
MCEndpoints == <<"jito", "helius">>

\* PoolDiscovery: answers that overlap, with pools of a quote that is not
\* allowed, of no liquidity and beyond plausible reserves, and one that holds
\* an account of another size, which no node gives.
On(address, account) == [address |-> address, account |-> account]
MCChains == {
    <<On("a", PumpSwapAccount(2, "sol")), On("b", PumpSwapAccount(2, "sol")),
      On("c", PumpSwapAccount(2, "sol"))>>,
    <<On("b", PumpSwapAccount(2, "sol")), On("d", PumpSwapAccount(2, "junk")),
      On("e", PumpSwapAccount(0, "sol")), On("f", PumpSwapAccount(3, "sol")),
      On("a", PumpSwapAccount(2, "sol"))>>,
    <<On("g", PumpSwapAccount(2, "sol"))>>,
    <<On("h", PumpFunAccount(1, 1))>>}

\* Startup: a configuration that is fine, and others with one thing changed.
Fine == [rpcUrl |-> "https", wsUrl |-> "wss", outputDir |-> "out", interval |-> 1000,
         pools |-> <<[address |-> "p", dex |-> "raydium", mint |-> "m"]>>,
         discovery |-> TRUE, allowlistParses |-> TRUE, programParses |-> TRUE]
MCConfigs == {
    Fine,
    [Fine EXCEPT !.rpcUrl = "ftp"], [Fine EXCEPT !.wsUrl = ""],
    [Fine EXCEPT !.outputDir = ""], [Fine EXCEPT !.interval = 99],
    [Fine EXCEPT !.pools = <<>>], [Fine EXCEPT !.pools = <<>>, !.discovery = FALSE],
    [Fine EXCEPT !.discovery = FALSE],
    [Fine EXCEPT !.allowlistParses = FALSE], [Fine EXCEPT !.programParses = FALSE],
    [Fine EXCEPT !.pools[1].address = "bad"], [Fine EXCEPT !.pools[1].dex = "orca"],
    [Fine EXCEPT !.pools[1].mint = "0"]}
=============================================================================
