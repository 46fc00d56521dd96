---------------------------- MODULE HostStorage ----------------------------
(***************************************************************************)
(* Persistent and instance storage of the Soroban host (external, modelled *)
(* from how the contracts use it).  An entry has a time to live, given by  *)
(* the last ledger it lives in.  An entry whose life is over is archived:  *)
(* unlike a temporary one it is not forgotten, but an invocation that      *)
(* touches it, be it only to ask whether it exists, traps until somebody   *)
(* has restored it.                                                        *)
(***************************************************************************)
EXTENDS Integers

CONSTANTS
  MinPersistentTTL,   \* network setting: ledgers a new or restored entry lives
  MaxLedger           \* bound of the model: the last ledger that is looked at

ASSUME StorageAssumption == MinPersistentTTL \in Nat \ {0} /\ MaxLedger \in Nat

LiveAt(liveUntil, now) == liveUntil >= now

\* The life of an entry that is written for the first time, or restored.
FreshLife(now) == now + MinPersistentTTL - 1

\* extend_ttl(key, threshold, extendTo): an entry with no more than threshold
\* ledgers to live is given extendTo, unless it lives longer anyway.
ExtendedLife(liveUntil, now, threshold, extendTo) ==
  IF liveUntil - now <= threshold /\ liveUntil < now + extendTo
    THEN now + extendTo
    ELSE liveUntil
=============================================================================
