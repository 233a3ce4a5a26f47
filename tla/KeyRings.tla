------------------------------- MODULE KeyRings -------------------------------
(***************************************************************************)
(* The two key rings of the environment, the processes that read them when *)
(* they start, and what is sealed with their keys: credentials of SMS      *)
(* configurations and the TOTP secret with the field-encryption ring,      *)
(* access tokens with the JWT ring. Both rings follow the same rules, so a *)
(* behaviour is about one of them. A process may also be a run of the      *)
(* command that provisions the Super Admin of one email address.           *)
(*                                                                         *)
(* External: the deployment's secret store, whose operators rotate keys in *)
(* stages while replicas restart one by one. Staging and production only:  *)
(* elsewhere the development ring is accepted as well.                     *)
(***************************************************************************)
EXTENDS FiniteSets

CONSTANTS
  Keys, DevKey,     \* key ids, and dev-v1, the one of the schema's defaults
  Replicas,         \* processes that serve requests
  Runs,             \* bound: runs of provision-super-admin
  Rows,             \* bound: SMS configurations, or access tokens
  Factor,           \* the TOTP factor of the account
  NoKey, Nobody

ASSUME KeyAssumption ==
  /\ DevKey \in Keys /\ NoKey \notin Keys /\ Nobody \notin Runs
  /\ Replicas \intersect Runs = {} /\ Factor \notin Rows

Procs == Replicas \union Runs
Items == Rows \union {Factor}
Stages == {"idle", "up", "sealed", "committed", "shown", "failed"}

VARIABLES
  purpose,        \* the ring the behaviour is about: "field" or "jwt"
  storeRing,      \* the secret store's key ring
  storeActive,    \* and its active key id
  ring,           \* the ring each process has read; {} while it is down
  activeKey,      \* the active key id each process has read; NoKey while it is down
  sealedBy,       \* the key id in each payload or token header, NoKey when there is none
  account,        \* the run that inserted the user of the email address
  stage           \* how far each run has come

keyVars == <<purpose, storeRing, storeActive, ring, activeKey, sealedBy, account, stage>>

\* An environment without these variables has the development ring.
KeysInit ==
  /\ purpose \in {"field", "jwt"}
  /\ storeRing = {DevKey} /\ storeActive = DevKey
  /\ ring = [p \in Procs |-> {}]
  /\ activeKey = [p \in Procs |-> NoKey]
  /\ sealedBy = [i \in Items |-> NoKey]
  /\ account = Nobody
  /\ stage = [o \in Runs |-> "idle"]

Up(p) == ring[p] # {}

-----------------------------------------------------------------------------
(***************************************************************************)
(* The operators.                                                          *)
(***************************************************************************)
EveryProcessHolds(k) == \A p \in Procs : Up(p) => k \in ring[p]

\* A key may be active once every running process has it. An id that is not in the ring is
\* a mistake that the next process to start refuses.
Stageable(newRing, newActive) == newActive \in newRing => EveryProcessHolds(newActive)

AddKey(k) ==
  /\ k \notin storeRing
  /\ Stageable(storeRing \union {k}, storeActive)
  /\ storeRing' = storeRing \union {k}
  /\ UNCHANGED <<purpose, storeActive, ring, activeKey, sealedBy, account, stage>>

Activate(k) ==
  /\ k # storeActive
  /\ Stageable(storeRing, k)
  /\ storeActive' = k
  /\ UNCHANGED <<purpose, storeRing, ring, activeKey, sealedBy, account, stage>>

\* Nothing is ever sealed again with a newer key: a key stays as long as an item carries its
\* id, for a configuration or a factor for ever, for a token until it expires.
Retire(k) ==
  /\ k \in storeRing
  /\ \A i \in Items : sealedBy[i] # k
  /\ \A p \in Procs : activeKey[p] # k
  /\ storeRing' = storeRing \ {k}
  /\ UNCHANGED <<purpose, storeActive, ring, activeKey, sealedBy, account, stage>>

-----------------------------------------------------------------------------
(***************************************************************************)
(* validateEnv.                                                            *)
(***************************************************************************)
NonEmptyRing == storeRing # {}

ActiveInRing == storeActive \in storeRing

\* Only the whole ring is compared with the development one.
NoDevPlaceholder == storeRing # {DevKey}

Bootable == NonEmptyRing /\ ActiveInRing /\ NoDevPlaceholder

ReadStore(p) ==
  /\ ring' = [ring EXCEPT ![p] = storeRing]
  /\ activeKey' = [activeKey EXCEPT ![p] = storeActive]

Boot(r) ==
  /\ ~Up(r) /\ Bootable
  /\ ReadStore(r)
  /\ UNCHANGED <<purpose, storeRing, storeActive, sealedBy, account, stage>>

BootRefused(p) ==
  /\ ~Up(p) /\ ~Bootable
  /\ UNCHANGED keyVars

Leave(p) ==
  /\ ring' = [ring EXCEPT ![p] = {}]
  /\ activeKey' = [activeKey EXCEPT ![p] = NoKey]

Stop(r) ==
  /\ Up(r)
  /\ Leave(r)
  /\ UNCHANGED <<purpose, storeRing, storeActive, sealedBy, account, stage>>

-----------------------------------------------------------------------------
\* Mutant: the active key opens everything.
OpensWithActive(p, i) == sealedBy[i] = activeKey[p]

\* decryptJson takes the key of the payload's key id, and throws when the ring has none.
Opens(p, i) == sealedBy[i] \in ring[p]

\* verifyAccessToken takes the key of the token's kid; a token without one is refused.
Verifies(p, i) == sealedBy[i] \in ring[p]

\* encryptJson: the active key, which must be in the ring.
SealWith(p, i) ==
  /\ activeKey[p] \in ring[p]
  /\ sealedBy' = [sealedBy EXCEPT ![i] = activeKey[p]]

Existing == {i \in Items : sealedBy[i] # NoKey}

CreateConfiguration(r, i) ==
  /\ purpose = "field" /\ Up(r) /\ i \notin Existing
  /\ SealWith(r, i)
  /\ UNCHANGED <<purpose, storeRing, storeActive, ring, activeKey, account, stage>>

\* Without new credentials a revision opens its source's and seals them anew.
CreateRevision(r, source, i) ==
  /\ purpose = "field" /\ Up(r) /\ i \notin Existing
  /\ source \in Existing /\ Opens(r, source)
  /\ SealWith(r, i)
  /\ UNCHANGED <<purpose, storeRing, storeActive, ring, activeKey, account, stage>>

IssueAccessToken(r, i) ==
  /\ purpose = "jwt" /\ Up(r) /\ i \notin Existing
  /\ SealWith(r, i)
  /\ UNCHANGED <<purpose, storeRing, storeActive, ring, activeKey, account, stage>>

\* Fifteen minutes later.
TokenExpires(i) ==
  /\ purpose = "jwt" /\ i \in Existing
  /\ sealedBy' = [sealedBy EXCEPT ![i] = NoKey]
  /\ UNCHANGED <<purpose, storeRing, storeActive, ring, activeKey, account, stage>>

-----------------------------------------------------------------------------
(***************************************************************************)
(* provision-super-admin.                                                  *)
(***************************************************************************)
\* The prompts are answered and the application context starts.
StartRun(o) ==
  /\ purpose = "field" /\ stage[o] = "idle" /\ Bootable
  /\ ReadStore(o)
  /\ stage' = [stage EXCEPT ![o] = "up"]
  /\ UNCHANGED <<purpose, storeRing, storeActive, sealedBy, account>>

\* The TOTP secret and the recovery codes exist in this process only.
Generate(o) ==
  /\ stage[o] = "up" /\ activeKey[o] \in ring[o]
  /\ stage' = [stage EXCEPT ![o] = "sealed"]
  /\ UNCHANGED <<purpose, storeRing, storeActive, ring, activeKey, sealedBy, account>>

\* The rows become visible with COMMIT.
InsertAccount(o) ==
  /\ account' = o
  /\ sealedBy' = [sealedBy EXCEPT ![Factor] = activeKey[o]]

\* uidx_users__email lets one transaction through.
EmailFree == account = Nobody

\* Mutant: no unique index on the email address.
CommitAnyEmail(o) ==
  /\ stage[o] = "sealed"
  /\ InsertAccount(o)
  /\ stage' = [stage EXCEPT ![o] = "committed"]
  /\ UNCHANGED <<purpose, storeRing, storeActive, ring, activeKey>>

Commit(o) ==
  /\ stage[o] = "sealed" /\ EmailFree
  /\ InsertAccount(o)
  /\ stage' = [stage EXCEPT ![o] = "committed"]
  /\ UNCHANGED <<purpose, storeRing, storeActive, ring, activeKey>>

\* The process ends: app.close(), an uncaught error, or the terminal goes away.
EndRun(o, outcome) ==
  /\ stage' = [stage EXCEPT ![o] = outcome]
  /\ Leave(o)
  /\ UNCHANGED <<purpose, storeRing, storeActive>>

\* COMMIT is carried out but its answer is lost: the run fails without showing anything.
CommitUnanswered(o) ==
  /\ stage[o] = "sealed" /\ EmailFree
  /\ InsertAccount(o)
  /\ EndRun(o, "failed")

\* Also: the email address is taken, the role is not seeded, or a statement fails.
RunFails(o) ==
  /\ stage[o] \in {"up", "sealed", "committed"}
  /\ EndRun(o, "failed")
  /\ UNCHANGED <<sealedBy, account>>

Show(o) ==
  /\ stage[o] = "committed"
  /\ EndRun(o, "shown")
  /\ UNCHANGED <<sealedBy, account>>

KeysNext ==
  \/ \E k \in Keys : AddKey(k) \/ Activate(k) \/ Retire(k)
  \/ \E p \in Procs : BootRefused(p)
  \/ \E r \in Replicas :
       \/ Boot(r) \/ Stop(r)
       \/ \E i \in Rows :
            \/ CreateConfiguration(r, i) \/ IssueAccessToken(r, i)
            \/ \E source \in Rows : CreateRevision(r, source, i)
  \/ \E i \in Rows : TokenExpires(i)
  \/ \E o \in Runs :
       \/ StartRun(o) \/ Generate(o) \/ Commit(o) \/ CommitUnanswered(o)
       \/ RunFails(o) \/ Show(o)

KeysSpec == KeysInit /\ [][KeysNext]_keyVars

-----------------------------------------------------------------------------
KeysTypeOK ==
  /\ purpose \in {"field", "jwt"}
  /\ storeRing \subseteq Keys /\ storeActive \in Keys
  /\ ring \in [Procs -> SUBSET Keys] /\ activeKey \in [Procs -> Keys \union {NoKey}]
  /\ sealedBy \in [Items -> Keys \union {NoKey}]
  /\ account \in Runs \union {Nobody}
  /\ stage \in [Runs -> Stages]

\* Through a rotation in stages, with replicas on the old and on the new environment at
\* once, every process opens every configuration, factor and live token: the list that
\* decrypts all rows, a login with TOTP and a request with a token never fail for a key.
Readable ==
  \A p \in Procs, i \in Existing :
    Up(p) => IF purpose = "field" THEN Opens(p, i) ELSE Verifies(p, i)

\* The secrets an operator is shown are those of the account, and at most one run shows any,
\* however many run at once and whichever of them die.
ShownIsStored ==
  \A o \in Runs : stage[o] \in {"committed", "shown"} => account = o /\ sealedBy[Factor] # NoKey
=============================================================================
