-------------------------------- MODULE Env --------------------------------
(***************************************************************************)
(* An environment block of src/kernal/ipc/env.c: a table of variables.  A  *)
(* key of ENV_KEY_LEN characters or more is stored cut to ENV_KEY_LEN - 1  *)
(* but looked up with its first ENV_KEY_LEN, and so never found under its  *)
(* own name.  Values are cut the same way, which the model leaves out.     *)
(***************************************************************************)
EXTENDS Integers, FiniteSets, SequencesExt

CONSTANTS
  EnvSlots,   \* ENV_MAX_VARS
  ShortKeys,  \* keys that fit
  LongKeys,   \* keys that do not
  Cut,        \* what is stored of a long key, a key that fits
  EnvValues

ASSUME EnvAssumption ==
  /\ EnvSlots \in Nat \ {0}
  /\ ShortKeys \cap LongKeys = {} /\ Cut \in [LongKeys -> ShortKeys]

Keys   == ShortKeys \cup LongKeys
EnvAll == 1 .. EnvSlots
NoVar  == [used |-> FALSE, key |-> "", val |-> ""]

VARIABLES
  envTable, \* the block
  latest   \* ghost: the value last set under a key that fits, if still set

envVars == <<envTable, latest>>

EnvTypeOK ==
  /\ envTable \in [EnvAll -> [used : BOOLEAN, key : ShortKeys \cup {""}, val : EnvValues \cup {""}]]
  /\ latest \in [ShortKeys -> EnvValues \cup {""}]

(* env_init seeds the table with such calls of env_set                     *)
EnvInit ==
  /\ envTable = [i \in EnvAll |-> NoVar]
  /\ latest = [k \in ShortKeys |-> ""]

StoredKey(key) == IF key \in LongKeys THEN Cut[key] ELSE key

(* what strncmp over ENV_KEY_LEN characters finds                          *)
Found(key) == {i \in EnvAll : envTable[i].used /\ envTable[i].key = key}
Unused     == {i \in EnvAll : ~envTable[i].used}

EnvGet(key) == IF Found(key) = {} THEN "" ELSE envTable[Min(Found(key))].val

(* env_set: the entry of the key, or the first unused one                  *)
EnvSet(key, val) ==
  IF Found(key) # {}
  THEN /\ envTable' = [envTable EXCEPT ![Min(Found(key))].val = val]
       /\ latest' = [latest EXCEPT ![key] = val]
  ELSE /\ Unused # {}
       /\ envTable' = [envTable EXCEPT ![Min(Unused)] = [used |-> TRUE, key |-> StoredKey(key), val |-> val]]
       /\ latest' = IF key \in LongKeys THEN latest ELSE [latest EXCEPT ![key] = val]

(* env_unset                                                               *)
EnvUnset(key) ==
  /\ Found(key) # {}
  /\ envTable' = [envTable EXCEPT ![Min(Found(key))] = NoVar]
  /\ latest' = [latest EXCEPT ![key] = ""]

EnvNext == \E k \in Keys : EnvUnset(k) \/ \E v \in EnvValues : EnvSet(k, v)

-----------------------------------------------------------------------------
(* A variable has the value that was last set, until it is unset: a key    *)
(* has one entry, however often it is set, unset and set again between     *)
(* others.  Keys that a long key was stored under are not promised this.   *)
LastSetWins ==
  \A k \in ShortKeys \ {Cut[l] : l \in LongKeys} :
    Cardinality(Found(k)) <= 1 /\ EnvGet(k) = latest[k]

=============================================================================
