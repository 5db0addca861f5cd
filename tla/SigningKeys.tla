----------------------------- MODULE SigningKeys -----------------------------
(***************************************************************************)
(* Where the key pair of the development provider comes from: the boot of  *)
(* the containers (DevJwtProvider.onModuleInit(), VaultService,            *)
(* SecretsService) and the renewal job of HealthMonitorService.  All       *)
(* containers have one configuration, and none knows of the others.        *)
(*                                                                         *)
(* Nest initialises one module at a time, here in any order; it starts the *)
(* onModuleInit() hooks of a module's providers one after the other and    *)
(* awaits them together.  AuthModule and RegistryModule have a             *)
(* VaultService each.  process.env is one for all of a container.  Of the  *)
(* secrets, only the two PEM variables are kept; a PEM is named by where   *)
(* it came from, and a private and a public key of one name are a pair.    *)
(***************************************************************************)
EXTENDS Integers

CONSTANTS
  Containers,
  Modes,         \* how Vault may be configured
  MaxRotations,  \* of the pair in Vault
  MaxRestarts,
  MaxFaults,     \* requests to Vault and GCP that fail
  None

ASSUME KeysAssumption ==
  /\ Modes \subseteq {"off", "dev", "token", "approle"}
  /\ MaxRotations \in Nat
  /\ MaxRestarts \in Nat
  /\ MaxFaults \in Nat
  /\ None \notin Containers \union {"config", "auth", "registry"}

VARIABLES
  config,     \* mode, and who holds which keys: see Config
  version,    \* of the pair in Vault
  env,        \* per container: process.env of the two names
  todo,       \* per container: modules still to be initialised
  module,     \* per container: the one under way, or None
  gcp,        \* per container: SecretsService is "idle", in "load" or "over"
  vault,      \* per container and module: its VaultService, and available
  dev,        \* per container: where DevJwtProvider is, and its keys
  restarts,   \* of all containers
  signed,     \* history: keys that signed a token
  torn,       \* history: Vault's pair was replaced between two reads of it
  loginFailed,  \* history: containers whose repeated login failed
  faults

vars == <<config, version, env, todo, module, gcp, vault, dev, restarts, signed, torn,
          loginFailed, faults>>

Names == {"JWT_PRIVATE_KEY", "JWT_PUBLIC_KEY"}
Modules == {"config", "auth", "registry"}
WithVault == {"auth", "registry"}

Pem(from, c, n) == [from |-> from, of |-> c, n |-> n]
NoPem == Pem("nowhere", None, 0)
Pems == {NoPem, Pem("env", None, 0), Pem("gcp", None, 0), Pem("transit", None, 0)}
        \union {Pem("vault", None, n) : n \in 0 .. MaxRotations}
        \union {Pem("own", c, n) : c \in Containers, n \in 0 .. MaxRestarts}

\* explicit: variables that are set; transit: VAULT_TRANSIT_KEY is; kvPair: the
\* secret has jwt_private_key and jwt_public_key; kvNames, gcpNames: the names
\* a secret sets.
Config ==
  [mode : Modes, explicit : SUBSET Names, transit : BOOLEAN, kvPair : BOOLEAN,
   kvNames : {{}, Names}, gcpNames : {{}, Names}]

Explicit == [n \in Names |-> IF n \in config.explicit THEN Pem("env", None, 0) ELSE NoPem]

FreshVault == [v \in WithVault |-> [at |-> "idle", available |-> FALSE]]
FreshDev == [at |-> "idle", private |-> NoPem, public |-> NoPem]

Init ==
  /\ config \in Config
  /\ version = 0
  /\ env = [c \in Containers |-> Explicit]
  /\ todo = [c \in Containers |-> Modules]
  /\ module = [c \in Containers |-> None]
  /\ gcp = [c \in Containers |-> "idle"]
  /\ vault = [c \in Containers |-> FreshVault]
  /\ dev = [c \in Containers |-> FreshDev]
  /\ restarts = 0
  /\ signed = {}
  /\ torn = FALSE
  /\ loginFailed = {}
  /\ faults = 0

Up(c) == todo[c] = {} /\ module[c] = None

-----------------------------------------------------------------------------
\* Mistaken merge: what is loaded replaces what is there.
MergedOver(c, names, pem) == [n \in Names |-> IF n \in names THEN pem ELSE env[c][n]]

\* if (!process.env[key]): the names of a secret that are not set yet.
Merged(c, names, pem) ==
  [n \in Names |-> IF n \in names /\ env[c][n] = NoPem THEN pem ELSE env[c][n]]

\* The result of a request: as it should be, or a failure.
Answered == UNCHANGED faults
Failed == faults < MaxFaults /\ faults' = faults + 1

\* Mistaken order: an own pair before the variables.
LocalKeysOwnFirst(c, variables) ==
  [at |-> "over", private |-> Pem("own", c, restarts), public |-> Pem("own", c, restarts)]

\* Priorities 3 and 4 of DevJwtProvider: the variables, or an own pair.
LocalKeys(c, variables) ==
  IF \A n \in Names : variables[n] # NoPem
  THEN [at |-> "over", private |-> variables["JWT_PRIVATE_KEY"], public |-> variables["JWT_PUBLIC_KEY"]]
  ELSE [at |-> "over", private |-> Pem("own", c, restarts), public |-> Pem("own", c, restarts)]

-----------------------------------------------------------------------------
\* What VaultService.onModuleInit() does before its first await.
VaultStarts ==
  [at |-> CASE config.mode = "off" -> "over"
            [] config.mode = "dev" -> "load"
            [] OTHER -> "login",
   available |-> config.mode = "dev"]

\* What DevJwtProvider.onModuleInit() does before its first await, right after
\* that: only the dev mode has made Vault available by then.
DevStarts(c) ==
  IF config.mode = "dev"
  THEN [FreshDev EXCEPT !.at = IF config.transit THEN "transit" ELSE "private"]
  ELSE LocalKeys(c, env[c])

\* The hooks of a module are started.
StartModule(c, m) ==
  /\ module[c] = None
  /\ m \in todo[c]
  /\ module' = [module EXCEPT ![c] = m]
  /\ todo' = [todo EXCEPT ![c] = @ \ {m}]
  /\ gcp' = IF m # "config" THEN gcp
            ELSE [gcp EXCEPT ![c] = IF config.gcpNames = {} THEN "over" ELSE "load"]
  /\ vault' = IF m = "config" THEN vault ELSE [vault EXCEPT ![c][m] = VaultStarts]
  /\ dev' = IF m # "auth" THEN dev ELSE [dev EXCEPT ![c] = DevStarts(c)]
  /\ UNCHANGED <<config, version, env, restarts, signed, torn, loginFailed, faults>>

\* Mistaken end: AuthModule waits for a Vault that is available.
EndModuleWithVault(c) ==
  /\ module[c] # None
  /\ module[c] = "config" => gcp[c] = "over"
  /\ module[c] \in WithVault => vault[c][module[c]] = [at |-> "over", available |-> TRUE]
  /\ module[c] = "auth" => dev[c].at = "over"
  /\ module' = [module EXCEPT ![c] = None]
  /\ UNCHANGED <<config, version, env, todo, gcp, vault, dev, restarts, signed, torn, loginFailed, faults>>

\* ... and all have ended.
EndModule(c) ==
  /\ module[c] # None
  /\ module[c] = "config" => gcp[c] = "over"
  /\ module[c] \in WithVault => vault[c][module[c]].at = "over"
  /\ module[c] = "auth" => dev[c].at = "over"
  /\ module' = [module EXCEPT ![c] = None]
  /\ UNCHANGED <<config, version, env, todo, gcp, vault, dev, restarts, signed, torn, loginFailed, faults>>

\* SecretsService.onModuleInit(): the secret of GCP, or a failure.
LoadGcp(c) ==
  /\ gcp[c] = "load"
  /\ gcp' = [gcp EXCEPT ![c] = "over"]
  /\ \/ Answered /\ env' = [env EXCEPT ![c] = Merged(c, config.gcpNames, Pem("gcp", None, 0))]
     \/ Failed /\ UNCHANGED env
  /\ UNCHANGED <<config, version, todo, module, vault, dev, restarts, signed, torn, loginFailed>>

\* VaultService.authenticate(): AppRole asks Vault, a token is taken as it is.
Login(c, v) ==
  /\ vault[c][v].at = "login"
  /\ \/ Answered /\ vault' = [vault EXCEPT ![c][v] = [at |-> "load", available |-> TRUE]]
     \/ /\ config.mode = "approle"
        /\ Failed
        /\ vault' = [vault EXCEPT ![c][v].at = "over"]
  /\ UNCHANGED <<config, version, env, todo, module, gcp, dev, restarts, signed, torn, loginFailed>>

\* VaultService.loadSecrets(): merges the secret in one go, or logs a failure.
LoadSecrets(c, v) ==
  /\ vault[c][v].at = "load"
  /\ vault' = [vault EXCEPT ![c][v].at = "over"]
  /\ \/ Answered /\ env' = [env EXCEPT ![c] = Merged(c, config.kvNames, Pem("vault", None, version))]
     \/ Failed /\ UNCHANGED env
  /\ UNCHANGED <<config, version, todo, module, gcp, dev, restarts, signed, torn, loginFailed>>

\* Priority 1: getPublicKey().  There is no private key then.
ReadTransit(c) ==
  /\ dev[c].at = "transit"
  /\ dev' = [dev EXCEPT ![c].at = IF faults' = faults THEN "over" ELSE "private",
                        ![c].public = IF faults' = faults THEN Pem("transit", None, 0) ELSE NoPem]
  /\ UNCHANGED <<config, version, env, todo, module, gcp, vault, restarts, signed, torn, loginFailed>>

\* Priority 2: readSecret() of the private key,
ReadPrivate(c) ==
  /\ dev[c].at = "private"
  /\ dev' = [dev EXCEPT ![c].at = "public",
                        ![c].private = IF config.kvPair /\ faults' = faults
                                       THEN Pem("vault", None, version) ELSE NoPem]
  /\ UNCHANGED <<config, version, env, todo, module, gcp, vault, restarts, signed, torn, loginFailed>>

\* Mistaken test: the answer on the private key is not looked at.
HavePairUnchecked(c) == config.kvPair /\ faults' = faults

\* Both requests were answered with a key.
HavePair(c) == dev[c].private # NoPem /\ config.kvPair /\ faults' = faults

\* ... and of the public key, in a request of its own.
ReadPublic(c) ==
  /\ dev[c].at = "public"
  /\ dev' = [dev EXCEPT ![c] =
               IF HavePair(c)
               THEN [at |-> "over", private |-> dev[c].private, public |-> Pem("vault", None, version)]
               ELSE LocalKeys(c, env[c])]
  /\ UNCHANGED <<config, version, env, todo, module, gcp, vault, restarts, signed, torn, loginFailed>>

ReadKeys(c) ==
  /\ Answered \/ Failed
  /\ ReadTransit(c) \/ ReadPrivate(c) \/ ReadPublic(c)

-----------------------------------------------------------------------------
\* Mistaken test: whether there is a key is not asked.
MaySignAlways(c) == TRUE

\* getPrivateKey()
MaySign(c) == dev[c].private # NoPem

\* signJwt(): it throws without a private key.
SignJwt(c) ==
  /\ Up(c)
  /\ MaySign(c)
  /\ dev[c].private \notin signed
  /\ signed' = signed \union {dev[c].private}
  /\ UNCHANGED <<config, version, env, todo, module, gcp, vault, dev, restarts, torn, loginFailed, faults>>

\* Mistaken renewal: a failure makes Vault unavailable at once.
RenewalFailsAtOnce(c) ==
  /\ vault' = [vault EXCEPT ![c]["registry"].available = FALSE]
  /\ UNCHANGED <<faults, loginFailed>>

\* renewToken(): the renewal has failed, and the login is repeated.
RenewalFails(c) ==
  \/ UNCHANGED <<vault, faults, loginFailed>>
  \/ /\ config.mode = "approle"
     /\ Failed
     /\ vault' = [vault EXCEPT ![c]["registry"].available = FALSE]
     /\ loginFailed' = loginFailed \union {c}

\* handleVaultTokenRenewal(): of the VaultService of RegistryModule only.
RenewToken(c) ==
  /\ Up(c)
  /\ vault[c]["registry"].available
  /\ config.mode # "dev"
  /\ RenewalFails(c)
  /\ UNCHANGED <<config, version, env, todo, module, gcp, dev, restarts, signed, torn>>

\* Somebody replaces the pair in Vault.
Rotate ==
  /\ version < MaxRotations
  /\ version' = version + 1
  /\ torn' = (torn \/ \E c \in Containers : dev[c].at = "public")
  /\ UNCHANGED <<config, env, todo, module, gcp, vault, dev, restarts, signed, loginFailed, faults>>

\* A container stops, at any time, and is started again.
Restart(c) ==
  /\ restarts < MaxRestarts
  /\ restarts' = restarts + 1
  /\ env' = [env EXCEPT ![c] = Explicit]
  /\ todo' = [todo EXCEPT ![c] = Modules]
  /\ module' = [module EXCEPT ![c] = None]
  /\ gcp' = [gcp EXCEPT ![c] = "idle"]
  /\ vault' = [vault EXCEPT ![c] = FreshVault]
  /\ dev' = [dev EXCEPT ![c] = FreshDev]
  /\ loginFailed' = loginFailed \ {c}
  /\ UNCHANGED <<config, version, signed, torn, faults>>

Boot(c) ==
  \/ \E m \in Modules : StartModule(c, m)
  \/ EndModule(c)
  \/ LoadGcp(c)
  \/ \E v \in WithVault : Login(c, v) \/ LoadSecrets(c, v)
  \/ ReadKeys(c)

Next ==
  \/ \E c \in Containers : Boot(c) \/ SignJwt(c) \/ RenewToken(c) \/ Restart(c)
  \/ Rotate

Spec == Init /\ [][Next]_vars

\* Every request of a boot is answered or fails (axios' timeout, 5 s).
FairSpec == Spec /\ \A c \in Containers : WF_vars(Boot(c))

-----------------------------------------------------------------------------
TypeOK ==
  /\ config \in Config
  /\ version \in 0 .. MaxRotations
  /\ env \in [Containers -> [Names -> Pems]]
  /\ todo \in [Containers -> SUBSET Modules]
  /\ module \in [Containers -> Modules \union {None}]
  /\ gcp \in [Containers -> {"idle", "load", "over"}]
  /\ vault \in [Containers -> [WithVault -> [at : {"idle", "login", "load", "over"}, available : BOOLEAN]]]
  /\ dev \in [Containers -> [at : {"idle", "transit", "private", "public", "over"},
                             private : Pems, public : Pems]]
  /\ restarts \in 0 .. MaxRestarts
  /\ signed \subseteq Pems \ {NoPem}
  /\ torn \in BOOLEAN
  /\ loginFailed \subseteq Containers
  /\ faults \in 0 .. MaxFaults

\* The pair is explicit and nothing comes before it, or it is in Vault, which
\* is asked first and has answered everybody with the same.
SharedPair ==
  \/ config.explicit = Names /\ (config.mode # "dev" \/ ~(config.kvPair \/ config.transit))
  \/ config.mode = "dev" /\ config.kvPair /\ ~config.transit /\ version = 0 /\ faults = 0

\* With such a pair, a token that any container signed in any of its lives is
\* verified by every container, in whatever order their modules, loaders and
\* requests to Vault came ("any container serves any request").
FleetVerifies ==
  SharedPair => \A c \in Containers : Up(c) => \A key \in signed : dev[c].public = key

\* A container verifies what it signs, although the two halves of its pair are
\* read, or merged into the environment, separately and by several loaders.
\* It is not so when only one half is explicit, and when Vault's pair was
\* replaced between the two reads.
SignsWhatItVerifies ==
  \A c \in Containers :
    Up(c) /\ config.explicit \in {{}, Names} /\ ~torn =>
      \/ dev[c].private = dev[c].public /\ dev[c].public # NoPem
      \/ dev[c].private = NoPem /\ config.mode = "dev" /\ config.transit

\* Explicit variables stay as they are, whatever is loaded and how often
\* (loadSecrets() and SecretsService.onModuleInit()).
ExplicitWins ==
  \A c \in Containers : \A n \in config.explicit : env[c][n] = Pem("env", None, 0)

\* Once its login has succeeded, a container loses Vault only by a login that
\* was repeated and failed (renewToken()).
KeepsVault ==
  [][\A c \in Containers :
       vault[c]["registry"].available /\ ~vault'[c]["registry"].available =>
         c \in loginFailed' \/ restarts' # restarts]_vars

\* Every container that is started gets up, also without Vault and GCP.
GetsUp == \A c \in Containers : []<>Up(c)
=============================================================================
