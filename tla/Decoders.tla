------------------------------ MODULE Decoders ------------------------------
(***************************************************************************)
(* The account decoders of src/dex, as functions.  An account is a record  *)
(* of its size and of the fields that the layout of that size has at the   *)
(* offsets the decoder reads: two reserves and two mints for Pump.fun and  *)
(* PumpSwap, a status, two vaults and their mints for Raydium.  Every      *)
(* decoder looks at the size first, so a field of another layout is never  *)
(* read.                                                                   *)
(***************************************************************************)
EXTENDS Naturals

CONSTANTS
    MaxReserve,  \* MAX_RESERVE_VALUE of both Pump decoders
    NoKey        \* Pubkey::default()

ASSUME DecoderAssumption == MaxReserve \in Nat

AccountSize == [PumpFun |-> 256, Raydium |-> 752, PumpSwap |-> 324]

DexTypes == DOMAIN AccountSize

Failed == [ok |-> FALSE]
Reserves(b, q) == [ok |-> TRUE, base |-> b, quote |-> q]

\* extract_u64 and extract_pubkey: the field lies within the account.
Holds(a, offset, bytes) == offset + bytes <= a.size

\* Zero is a reserve like any other.
Plausible(a) == a.base <= MaxReserve /\ a.quote <= MaxReserve

PumpFunValid(a) ==
    /\ a.size = AccountSize.PumpFun
    /\ Holds(a, 24, 8) /\ Holds(a, 32, 8)
    /\ Plausible(a)

PumpSwapValid(a) ==
    /\ a.size = AccountSize.PumpSwap
    /\ Holds(a, 72, 8) /\ Holds(a, 80, 8)
    /\ Plausible(a)
    /\ Holds(a, 8, 32) /\ Holds(a, 40, 32)

RaydiumValid(a) ==
    /\ a.size = AccountSize.Raydium
    /\ a.status # 0
    /\ a.coinVault # NoKey /\ a.pcVault # NoKey

ValidateAccount(dex, a) ==
    \/ dex = "PumpFun" /\ PumpFunValid(a)
    \/ dex = "PumpSwap" /\ PumpSwapValid(a)
    \/ dex = "Raydium" /\ RaydiumValid(a)

\* A Raydium account does not hold its reserves: even a valid one is an error
\* here, and get_vault_info is the way to them.
DecodeReserves(dex, a) ==
    IF ValidateAccount(dex, a) /\ dex # "Raydium" THEN Reserves(a.base, a.quote)
                                                  ELSE Failed

GetVaultInfo(a) ==
    IF RaydiumValid(a)
    THEN [ok |-> TRUE, coinVault |-> a.coinVault, pcVault |-> a.pcVault]
    ELSE Failed
=============================================================================
