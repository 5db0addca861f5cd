-------------------------- MODULE SigningKeysProofs --------------------------
(***************************************************************************)
(* Proofs about module SigningKeys, for any number of containers,          *)
(* rotations, restarts and failed requests.  KeyInv is inductive:          *)
(* DevInv says how far DevJwtProvider can be given the modules that are    *)
(* initialised, PairInv what its keys are at each point, and SharedInv     *)
(* that with a shared pair there is one key in the whole fleet.            *)
(***************************************************************************)
EXTENDS SigningKeys, TLAPS

DevState == [at : {"idle", "transit", "private", "public", "over"}, private : Pems, public : Pems]
VaultState == [at : {"idle", "login", "load", "over"}, available : BOOLEAN]

FromEnv == Pem("env", None, 0)
FromVault(n) == Pem("vault", None, n)

\* Only the two names together are set by a loader, so without an explicit
\* half they are a pair.
EnvInv ==
  config.explicit \in {{}, Names} =>
    \A c \in Containers : env[c]["JWT_PRIVATE_KEY"] = env[c]["JWT_PUBLIC_KEY"]

\* The provider asks Vault in the dev mode only, and has its keys when its
\* module is initialised.
DevInv ==
  \A c \in Containers :
    /\ dev[c].at \in {"transit", "private", "public"} => config.mode = "dev"
    /\ dev[c].at = "transit" => config.transit
    /\ dev[c].at \in {"transit", "private"} => dev[c].private = NoPem /\ dev[c].public = NoPem
    /\ "auth" \notin todo[c] /\ module[c] # "auth" => dev[c].at = "over"

\* A private key that was read is the current one, unless the pair was
\* replaced since; the keys of a provider that is ready are a pair.
PairInv ==
  ~torn =>
    \A c \in Containers :
      /\ dev[c].at = "public" => dev[c].private \in {NoPem, FromVault(version)}
      /\ dev[c].at = "over" /\ config.explicit \in {{}, Names} =>
           \/ dev[c].private = dev[c].public /\ dev[c].public # NoPem
           \/ dev[c].private = NoPem /\ config.mode = "dev" /\ config.transit

\* The two ways to share a pair, and the key it is.
SharedByEnv == config.explicit = Names /\ (config.mode # "dev" \/ ~(config.kvPair \/ config.transit))
SharedByVault == config.mode = "dev" /\ config.kvPair /\ ~config.transit /\ version = 0 /\ faults = 0

SharedInv ==
  /\ SharedByEnv =>
       /\ \A c \in Containers : dev[c].at = "over" => dev[c].private = FromEnv /\ dev[c].public = FromEnv
       /\ signed \subseteq {FromEnv}
  /\ SharedByVault =>
       /\ \A c \in Containers :
            /\ dev[c].at = "public" => dev[c].private = FromVault(0)
            /\ dev[c].at = "over" => dev[c].private = FromVault(0) /\ dev[c].public = FromVault(0)
       /\ signed \subseteq {FromVault(0)}

KeyInv == TypeOK /\ ExplicitWins /\ EnvInv /\ DevInv /\ PairInv /\ SharedInv

-----------------------------------------------------------------------------
\* The names of the pairs are keys, and Vault's are distinct from none.
LEMMA PemFacts ==
  /\ NoPem \in Pems /\ FromEnv \in Pems /\ Pem("gcp", None, 0) \in Pems /\ Pem("transit", None, 0) \in Pems
  /\ \A n \in 0 .. MaxRotations : FromVault(n) \in Pems
  /\ \A c \in Containers, n \in 0 .. MaxRestarts : Pem("own", c, n) \in Pems
  /\ FromEnv # NoPem
  /\ Pem("gcp", None, 0) # NoPem
  /\ \A n \in 0 .. MaxRotations : FromVault(n) # NoPem
  /\ \A c \in Containers, n \in 0 .. MaxRestarts : Pem("own", c, n) # NoPem
<1>1. /\ NoPem \in Pems /\ FromEnv \in Pems
      /\ Pem("gcp", None, 0) \in Pems /\ Pem("transit", None, 0) \in Pems
  BY DEF Pems, FromEnv
<1>2. \A n \in 0 .. MaxRotations : FromVault(n) \in Pems
  BY DEF Pems, FromVault
<1>3. \A c \in Containers, n \in 0 .. MaxRestarts : Pem("own", c, n) \in Pems
  BY DEF Pems
<1>4. /\ FromEnv # NoPem
      /\ Pem("gcp", None, 0) # NoPem
      /\ \A n \in 0 .. MaxRotations : FromVault(n) # NoPem
      /\ \A c \in Containers, n \in 0 .. MaxRestarts : Pem("own", c, n) # NoPem
  BY DEF NoPem, Pem, FromEnv, FromVault
<1>5. QED
  BY <1>1, <1>2, <1>3, <1>4

\* LocalKeys() gives a state of the provider, with a pair if the variables are
\* one, and the explicit pair if they are explicit.
LEMMA LocalKeysFacts ==
  ASSUME TypeOK, NEW c \in Containers
  PROVE  /\ LocalKeys(c, env[c]) \in DevState
         /\ LocalKeys(c, env[c]).at = "over"
         /\ env[c]["JWT_PRIVATE_KEY"] = env[c]["JWT_PUBLIC_KEY"] =>
              /\ LocalKeys(c, env[c]).private = LocalKeys(c, env[c]).public
              /\ LocalKeys(c, env[c]).public # NoPem
         /\ (\A n \in Names : env[c][n] = FromEnv) =>
              LocalKeys(c, env[c]).private = FromEnv /\ LocalKeys(c, env[c]).public = FromEnv
<1>1. restarts \in 0 .. MaxRestarts /\ env[c] \in [Names -> Pems]
  BY DEF TypeOK
<1>2. {"JWT_PRIVATE_KEY", "JWT_PUBLIC_KEY"} = Names
  BY DEF Names
<1>3. Pem("own", c, restarts) \in Pems /\ Pem("own", c, restarts) # NoPem
  BY <1>1, PemFacts
<1>4. CASE \A n \in Names : env[c][n] # NoPem
  BY <1>1, <1>2, <1>4 DEF LocalKeys, DevState
<1>5. CASE ~(\A n \in Names : env[c][n] # NoPem)
  <2>1. LocalKeys(c, env[c]) =
          [at |-> "over", private |-> Pem("own", c, restarts), public |-> Pem("own", c, restarts)]
    BY <1>5 DEF LocalKeys
  <2>2. ~(\A n \in Names : env[c][n] = FromEnv)
    BY <1>5, PemFacts
  <2>3. QED
    BY <1>3, <2>1, <2>2 DEF DevState
<1>6. QED
  BY <1>4, <1>5

\* Merged() gives variables, keeps those that are set, and sets both at once.
LEMMA MergedFacts ==
  ASSUME TypeOK, NEW c \in Containers, NEW names \in {{}, Names}, NEW pem \in Pems
  PROVE  /\ Merged(c, names, pem) \in [Names -> Pems]
         /\ \A n \in Names : env[c][n] # NoPem => Merged(c, names, pem)[n] = env[c][n]
         /\ env[c]["JWT_PRIVATE_KEY"] = env[c]["JWT_PUBLIC_KEY"] =>
              Merged(c, names, pem)["JWT_PRIVATE_KEY"] = Merged(c, names, pem)["JWT_PUBLIC_KEY"]
  BY DEF Merged, TypeOK, Names

\* An empty environment, and one with the explicit variables.
LEMMA ExplicitFacts ==
  ASSUME config \in Config
  PROVE  /\ Explicit \in [Names -> Pems]
         /\ \A n \in config.explicit : Explicit[n] = FromEnv
         /\ config.explicit \in {{}, Names} => Explicit["JWT_PRIVATE_KEY"] = Explicit["JWT_PUBLIC_KEY"]
  BY PemFacts DEF Config, Explicit, Names, FromEnv

LEMMA FreshFacts == FreshDev \in DevState /\ FreshVault \in [WithVault -> VaultState]
  BY PemFacts DEF FreshDev, FreshVault, DevState, VaultState

-----------------------------------------------------------------------------
LEMMA InitKeys ==
  ASSUME Init
  PROVE  KeyInv
<1>1. TypeOK
  <2>1. config \in Config /\ env \in [Containers -> [Names -> Pems]]
    BY ExplicitFacts DEF Init
  <2>2. dev \in [Containers -> DevState] /\ vault \in [Containers -> [WithVault -> VaultState]]
    BY FreshFacts DEF Init
  <2>3. /\ todo \in [Containers -> SUBSET Modules]
        /\ module \in [Containers -> Modules \union {None}]
        /\ gcp \in [Containers -> {"idle", "load", "over"}]
    BY DEF Init
  <2>4. version \in 0 .. MaxRotations /\ restarts \in 0 .. MaxRestarts /\ faults \in 0 .. MaxFaults
    BY KeysAssumption DEF Init
  <2>5. signed = {} /\ torn = FALSE /\ loginFailed = {}
    BY DEF Init
  <2>6. QED
    BY <2>1, <2>2, <2>3, <2>4, <2>5 DEF TypeOK, DevState, VaultState
<1>2. ExplicitWins
  <2>1. \A n \in config.explicit : Explicit[n] = FromEnv
    BY ExplicitFacts DEF Init
  <2>2. QED
    BY <2>1 DEF Init, ExplicitWins, FromEnv
<1>3. EnvInv
  BY ExplicitFacts DEF Init, EnvInv
<1>4. \A c \in Containers : dev[c].at = "idle" /\ "auth" \in todo[c]
  BY DEF Init, FreshDev, Modules
<1>5. signed = {}
  BY DEF Init
<1>6. QED
  BY <1>1, <1>2, <1>3, <1>4, <1>5 DEF KeyInv, DevInv, PairInv, SharedInv

\* A step of the environment: explicit variables stay, and a pair stays one.
LEMMA EnvMerged ==
  ASSUME KeyInv, NEW c \in Containers, NEW names \in {{}, Names}, NEW pem \in Pems,
         env' = [env EXCEPT ![c] = Merged(c, names, pem)], config' = config
  PROVE  /\ env' \in [Containers -> [Names -> Pems]]
         /\ ExplicitWins'
         /\ EnvInv'
<1>1. TypeOK /\ ExplicitWins /\ EnvInv
  BY DEF KeyInv
<1>2. env \in [Containers -> [Names -> Pems]] /\ config \in Config
  BY <1>1 DEF TypeOK
<1>3. config.explicit \subseteq Names
  BY <1>2 DEF Config
<1>4. env' \in [Containers -> [Names -> Pems]]
  BY <1>1, <1>2, MergedFacts
<1>5. ASSUME NEW d \in Containers, NEW n \in config.explicit PROVE env'[d][n] = FromEnv
  <2>1. env[d][n] = FromEnv
    BY <1>1 DEF ExplicitWins, FromEnv
  <2>2. CASE d = c
    <3>1. Merged(c, names, pem)[n] = env[c][n]
      <4>1. env[c][n] # NoPem /\ n \in Names
        BY <1>3, <2>1, <2>2, PemFacts
      <4>2. QED
        BY <4>1 DEF Merged
    <3>2. QED
      BY <1>2, <2>1, <2>2, <3>1
  <2>3. CASE d # c
    BY <1>2, <2>1, <2>3
  <2>4. QED
    BY <2>2, <2>3
<1>6. ExplicitWins'
  BY <1>5 DEF ExplicitWins, FromEnv
<1>7. ASSUME NEW d \in Containers, config.explicit \in {{}, Names}
      PROVE  env'[d]["JWT_PRIVATE_KEY"] = env'[d]["JWT_PUBLIC_KEY"]
  <2>1. env[d]["JWT_PRIVATE_KEY"] = env[d]["JWT_PUBLIC_KEY"]
    BY <1>1, <1>7 DEF EnvInv
  <2>2. CASE d = c
    <3>1. Merged(c, names, pem)["JWT_PRIVATE_KEY"] = Merged(c, names, pem)["JWT_PUBLIC_KEY"]
      BY <1>1, <2>1, <2>2, MergedFacts
    <3>2. QED
      BY <1>2, <2>2, <3>1
  <2>3. CASE d # c
    BY <1>2, <2>1, <2>3
  <2>4. QED
    BY <2>2, <2>3
<1>8. EnvInv'
  BY <1>7 DEF EnvInv
<1>9. QED
  BY <1>4, <1>6, <1>8

\* The variables and the configuration stay, and so does what is said of them.
LEMMA EnvKept ==
  ASSUME KeyInv, UNCHANGED <<config, env>>
  PROVE  ExplicitWins' /\ EnvInv'
  BY DEF KeyInv, ExplicitWins, EnvInv

\* The provider stays as it is while modules are initialised or tokens signed.
LEMMA DevKept ==
  ASSUME KeyInv, UNCHANGED <<config, version, dev, torn, signed>>, faults' = 0 => faults = 0
  PROVE  PairInv' /\ SharedInv'
  BY DEF KeyInv, PairInv, SharedInv, SharedByEnv, SharedByVault

\* What an answered or failed request does to the count of faults.
LEMMA FaultsCounted ==
  ASSUME TypeOK, Answered \/ Failed
  PROVE  /\ faults' \in 0 .. MaxFaults
         /\ faults' = 0 => faults = 0 /\ faults' = faults
  BY KeysAssumption DEF TypeOK, Answered, Failed

\* Which container's provider moves, and what has to be shown of it.
LEMMA DevMoved ==
  ASSUME KeyInv, NEW c \in Containers, NEW x \in DevState,
         UNCHANGED <<config, version, torn, signed>>, faults' = 0 => faults = 0,
         dev' = [dev EXCEPT ![c] = x],
         \A d \in Containers \ {c} : todo'[d] = todo[d] /\ module'[d] = module[d],
         /\ x.at \in {"transit", "private", "public"} => config.mode = "dev"
         /\ x.at = "transit" => config.transit
         /\ x.at \in {"transit", "private"} => x.private = NoPem /\ x.public = NoPem
         /\ "auth" \notin todo'[c] /\ module'[c] # "auth" => x.at = "over",
         ~torn =>
           /\ x.at = "public" => x.private \in {NoPem, FromVault(version)}
           /\ x.at = "over" /\ config.explicit \in {{}, Names} =>
                \/ x.private = x.public /\ x.public # NoPem
                \/ x.private = NoPem /\ config.mode = "dev" /\ config.transit,
         SharedByEnv => (x.at = "over" => x.private = FromEnv /\ x.public = FromEnv),
         SharedByVault' =>
           /\ x.at = "public" => x.private = FromVault(0)
           /\ x.at = "over" => x.private = FromVault(0) /\ x.public = FromVault(0)
  PROVE  dev' \in [Containers -> DevState] /\ DevInv' /\ PairInv' /\ SharedInv'
<1>1. dev \in [Containers -> DevState]
  BY DEF KeyInv, TypeOK, DevState
<1>2. dev' \in [Containers -> DevState] /\ dev'[c] = x /\ \A d \in Containers \ {c} : dev'[d] = dev[d]
  BY <1>1
<1>3. DevInv'
  BY <1>2 DEF KeyInv, DevInv
<1>4. PairInv'
  BY <1>2 DEF KeyInv, PairInv
<1>5. SharedInv'
  BY <1>2 DEF KeyInv, SharedInv, SharedByEnv, SharedByVault
<1>6. QED
  BY <1>2, <1>3, <1>4, <1>5

-----------------------------------------------------------------------------
LEMMA StartModuleKeys ==
  ASSUME KeyInv, NEW c \in Containers, NEW m \in Modules, StartModule(c, m)
  PROVE  KeyInv'
<1>1. TypeOK
  BY DEF KeyInv
<1>2. UNCHANGED <<config, version, env, restarts, signed, torn, loginFailed, faults>>
  BY DEF StartModule
<1>3. /\ module' = [module EXCEPT ![c] = m]
      /\ todo' = [todo EXCEPT ![c] = @ \ {m}]
      /\ module \in [Containers -> Modules \union {None}]
      /\ todo \in [Containers -> SUBSET Modules]
      /\ module[c] = None
  BY <1>1 DEF StartModule, TypeOK
<1>4. vault' \in [Containers -> [WithVault -> VaultState]]
  <2>1. VaultStarts \in VaultState
    BY DEF VaultStarts, VaultState
  <2>2. m # "config" => m \in WithVault
    BY DEF Modules, WithVault
  <2>3. QED
    BY <1>1, <2>1, <2>2 DEF StartModule, TypeOK, VaultState
<1>5. gcp' \in [Containers -> {"idle", "load", "over"}]
  BY <1>1 DEF StartModule, TypeOK
<1>6. dev' \in [Containers -> DevState] /\ DevInv' /\ PairInv' /\ SharedInv'
  <2>1. CASE m = "auth"
    <3>1. dev' = [dev EXCEPT ![c] = DevStarts(c)]
      BY <2>1 DEF StartModule
    <3>2. /\ DevStarts(c) \in DevState
          /\ DevStarts(c).at \in {"transit", "private"} =>
               /\ config.mode = "dev"
               /\ DevStarts(c).at = "transit" => config.transit
               /\ DevStarts(c).private = NoPem /\ DevStarts(c).public = NoPem
          /\ DevStarts(c).at \in {"transit", "private"} \/ DevStarts(c) = LocalKeys(c, env[c])
          /\ config.mode = "dev" => DevStarts(c).at \in {"transit", "private"}
      BY <1>1, FreshFacts, LocalKeysFacts, PemFacts DEF DevStarts, FreshDev, DevState
    <3>3. DevStarts(c) = LocalKeys(c, env[c]) =>
            /\ DevStarts(c).at = "over"
            /\ config.explicit \in {{}, Names} =>
                 DevStarts(c).private = DevStarts(c).public /\ DevStarts(c).public # NoPem
            /\ SharedByEnv => DevStarts(c).private = FromEnv /\ DevStarts(c).public = FromEnv
      BY <1>1, LocalKeysFacts DEF KeyInv, EnvInv, SharedByEnv, ExplicitWins, FromEnv
    <3>4. "auth" \in {module'[c]}
      BY <1>3, <2>1
    <3>5. \A d \in Containers \ {c} : todo'[d] = todo[d] /\ module'[d] = module[d]
      BY <1>3
    <3>6. SharedByVault' => DevStarts(c).at \notin {"public", "over"}
      BY <1>2, <3>2 DEF SharedByVault
    <3>7. DevStarts(c).at # "public"
      BY <3>2, <3>3
    <3>8. DevStarts(c).at = "over" => DevStarts(c) = LocalKeys(c, env[c])
      BY <3>2
    <3>9. QED
      BY <1>2, <3>1, <3>2, <3>3, <3>4, <3>5, <3>6, <3>7, <3>8, DevMoved
  <2>2. CASE m # "auth"
    <3>1. dev' = dev
      BY <2>2 DEF StartModule
    <3>2. DevInv'
      <4>1. ASSUME NEW d \in Containers, "auth" \notin todo'[d], module'[d] # "auth"
            PROVE  "auth" \notin todo[d] /\ module[d] # "auth"
        <5>1. CASE d = c
          BY <1>3, <2>2, <4>1, <5>1, KeysAssumption
        <5>2. CASE d # c
          BY <1>3, <4>1, <5>2
        <5>3. QED
          BY <5>1, <5>2
      <4>2. QED
        BY <1>2, <3>1, <4>1 DEF KeyInv, DevInv
    <3>3. PairInv' /\ SharedInv'
      BY <1>2, <3>1, DevKept
    <3>4. QED
      BY <1>1, <3>1, <3>2, <3>3 DEF TypeOK, DevState
  <2>3. QED
    BY <2>1, <2>2
<1>7. TypeOK'
  BY <1>1, <1>2, <1>3, <1>4, <1>5, <1>6 DEF TypeOK, DevState, VaultState
<1>8. ExplicitWins' /\ EnvInv'
  BY <1>2, EnvKept
<1>9. QED
  BY <1>6, <1>7, <1>8 DEF KeyInv

LEMMA EndModuleKeys ==
  ASSUME KeyInv, NEW c \in Containers, EndModule(c)
  PROVE  KeyInv'
<1>1. UNCHANGED <<config, version, env, todo, gcp, vault, dev, restarts, signed, torn, loginFailed, faults>>
  BY DEF EndModule
<1>2. TypeOK /\ module' = [module EXCEPT ![c] = None]
  BY DEF EndModule, KeyInv
<1>3. TypeOK'
  BY <1>1, <1>2 DEF TypeOK
<1>4. DevInv'
  <2>1. ASSUME NEW d \in Containers, "auth" \notin todo[d], module'[d] # "auth"
        PROVE  dev[d].at = "over"
    <3>1. CASE module[d] = "auth"
      BY <1>2, <2>1, <3>1 DEF EndModule, TypeOK
    <3>2. CASE module[d] # "auth"
      BY <2>1, <3>2 DEF KeyInv, DevInv
    <3>3. QED
      BY <3>1, <3>2
  <2>2. QED
    BY <1>1, <2>1 DEF KeyInv, DevInv
<1>5. QED
  BY <1>1, <1>3, <1>4, EnvKept, DevKept DEF KeyInv

LEMMA LoadGcpKeys ==
  ASSUME KeyInv, NEW c \in Containers, LoadGcp(c)
  PROVE  KeyInv'
<1>1. UNCHANGED <<config, version, todo, module, vault, dev, restarts, signed, torn, loginFailed>>
  BY DEF LoadGcp
<1>2. TypeOK /\ config.gcpNames \in {{}, Names}
  BY DEF KeyInv, TypeOK, Config
<1>3. faults' \in 0 .. MaxFaults /\ (faults' = 0 => faults = 0)
  BY <1>2, FaultsCounted DEF LoadGcp
<1>4. env' \in [Containers -> [Names -> Pems]] /\ ExplicitWins' /\ EnvInv'
  <2>1. CASE env' = [env EXCEPT ![c] = Merged(c, config.gcpNames, Pem("gcp", None, 0))]
    BY <1>1, <1>2, <2>1, EnvMerged, PemFacts
  <2>2. CASE UNCHANGED env
    BY <1>1, <1>2, <2>2, EnvKept DEF TypeOK
  <2>3. QED
    BY <2>1, <2>2 DEF LoadGcp
<1>5. TypeOK'
  BY <1>1, <1>2, <1>3, <1>4 DEF LoadGcp, TypeOK
<1>6. DevInv'
  BY <1>1 DEF KeyInv, DevInv
<1>7. QED
  BY <1>1, <1>3, <1>4, <1>5, <1>6, DevKept DEF KeyInv

\* One VaultService of a container moves.
LEMMA VaultMoved ==
  ASSUME TypeOK, NEW c \in Containers, NEW v \in WithVault, NEW y \in VaultState,
         vault' = [vault EXCEPT ![c][v] = y]
  PROVE  vault' \in [Containers -> [WithVault -> VaultState]]
<1>1. vault \in [Containers -> [WithVault -> VaultState]]
  BY DEF TypeOK, VaultState
<1>2. [vault[c] EXCEPT ![v] = y] \in [WithVault -> VaultState]
  BY <1>1
<1>3. vault' = [vault EXCEPT ![c] = [vault[c] EXCEPT ![v] = y]]
  BY <1>1
<1>4. QED
  BY <1>1, <1>2, <1>3

\* ... and what it is then.
LEMMA VaultStates ==
  ASSUME TypeOK, NEW c \in Containers, NEW v \in WithVault
  PROVE  /\ vault[c][v] \in VaultState
         /\ [vault[c][v] EXCEPT !.at = "over"] \in VaultState
         /\ [vault[c][v] EXCEPT !.available = FALSE] \in VaultState
         /\ [at |-> "load", available |-> TRUE] \in VaultState
<1>1. vault[c][v] \in VaultState
  BY DEF TypeOK, VaultState
<1>2. QED
  BY <1>1 DEF VaultState

LEMMA LoginKeys ==
  ASSUME KeyInv, NEW c \in Containers, NEW v \in WithVault, Login(c, v)
  PROVE  KeyInv'
<1>1. UNCHANGED <<config, version, env, todo, module, gcp, dev, restarts, signed, torn, loginFailed>>
  BY DEF Login
<1>2. TypeOK
  BY DEF KeyInv
<1>3. faults' \in 0 .. MaxFaults /\ (faults' = 0 => faults = 0)
  BY <1>2, FaultsCounted DEF Login
<1>4. vault' \in [Containers -> [WithVault -> VaultState]]
  <2>1. CASE vault' = [vault EXCEPT ![c][v] = [at |-> "load", available |-> TRUE]]
    BY <1>2, <2>1, VaultStates, VaultMoved
  <2>2. CASE vault' = [vault EXCEPT ![c][v].at = "over"]
    <3>1. vault' = [vault EXCEPT ![c][v] = [vault[c][v] EXCEPT !.at = "over"]]
      BY <2>2
    <3>2. QED
      BY <1>2, <3>1, VaultStates, VaultMoved
  <2>3. QED
    BY <2>1, <2>2 DEF Login
<1>5. TypeOK'
  BY <1>1, <1>2, <1>3, <1>4 DEF TypeOK, VaultState
<1>6. DevInv'
  BY <1>1 DEF KeyInv, DevInv
<1>7. QED
  BY <1>1, <1>3, <1>5, <1>6, EnvKept, DevKept DEF KeyInv

LEMMA LoadSecretsKeys ==
  ASSUME KeyInv, NEW c \in Containers, NEW v \in WithVault, LoadSecrets(c, v)
  PROVE  KeyInv'
<1>1. UNCHANGED <<config, version, todo, module, gcp, dev, restarts, signed, torn, loginFailed>>
  BY DEF LoadSecrets
<1>2. TypeOK /\ config.kvNames \in {{}, Names} /\ version \in 0 .. MaxRotations
  BY DEF KeyInv, TypeOK, Config
<1>3. faults' \in 0 .. MaxFaults /\ (faults' = 0 => faults = 0)
  BY <1>2, FaultsCounted DEF LoadSecrets
<1>4. env' \in [Containers -> [Names -> Pems]] /\ ExplicitWins' /\ EnvInv'
  <2>1. CASE env' = [env EXCEPT ![c] = Merged(c, config.kvNames, Pem("vault", None, version))]
    <3>1. Pem("vault", None, version) \in Pems
      BY <1>2, PemFacts DEF FromVault
    <3>2. QED
      BY <1>1, <1>2, <2>1, <3>1, EnvMerged
  <2>2. CASE UNCHANGED env
    BY <1>1, <1>2, <2>2, EnvKept DEF TypeOK
  <2>3. QED
    BY <2>1, <2>2 DEF LoadSecrets
<1>5. vault' \in [Containers -> [WithVault -> VaultState]]
  <2>1. vault' = [vault EXCEPT ![c][v] = [vault[c][v] EXCEPT !.at = "over"]]
    BY DEF LoadSecrets
  <2>2. QED
    BY <1>2, <2>1, VaultStates, VaultMoved
<1>6. TypeOK'
  BY <1>1, <1>2, <1>3, <1>4, <1>5 DEF TypeOK, VaultState
<1>7. DevInv'
  BY <1>1 DEF KeyInv, DevInv
<1>8. QED
  BY <1>1, <1>3, <1>4, <1>6, <1>7, DevKept DEF KeyInv

-----------------------------------------------------------------------------
(* The requests of DevJwtProvider.                                         *)

\* What is left to show when only the provider and the faults change.
LEMMA ProviderMoved ==
  ASSUME KeyInv, UNCHANGED <<config, version, env, todo, module, gcp, vault, restarts, signed, torn, loginFailed>>,
         faults' \in 0 .. MaxFaults,
         dev' \in [Containers -> DevState] /\ DevInv' /\ PairInv' /\ SharedInv'
  PROVE  KeyInv'
<1>1. TypeOK'
  BY DEF KeyInv, TypeOK, DevState
<1>2. QED
  BY <1>1, EnvKept DEF KeyInv

LEMMA ReadTransitKeys ==
  ASSUME KeyInv, NEW c \in Containers, Answered \/ Failed, ReadTransit(c)
  PROVE  KeyInv'
<1> DEFINE x == [dev[c] EXCEPT !.at = IF faults' = faults THEN "over" ELSE "private",
                               !.public = IF faults' = faults THEN Pem("transit", None, 0) ELSE NoPem]
<1>1. UNCHANGED <<config, version, env, todo, module, gcp, vault, restarts, signed, torn, loginFailed>>
  BY DEF ReadTransit
<1>2. TypeOK
  BY DEF KeyInv
<1>3. faults' \in 0 .. MaxFaults /\ (faults' = 0 => faults = 0)
  BY <1>2, FaultsCounted
<1>4. dev[c] \in DevState /\ dev[c].at = "transit" /\ dev[c].private = NoPem
  BY <1>2 DEF ReadTransit, TypeOK, KeyInv, DevInv, DevState
<1>5. config.mode = "dev" /\ config.transit
  BY <1>4 DEF KeyInv, DevInv
<1>6. dev' = [dev EXCEPT ![c] = x]
  BY <1>2 DEF ReadTransit, TypeOK
<1>7. /\ x \in DevState
      /\ x.at \in {"over", "private"} /\ x.private = NoPem
      /\ x.at = "private" => x.public = NoPem
  BY <1>4, PemFacts DEF DevState
<1>8. ~("auth" \notin todo[c] /\ module[c] # "auth")
  BY <1>4 DEF KeyInv, DevInv
<1>9. ~SharedByEnv /\ ~SharedByVault'
  BY <1>1, <1>5 DEF SharedByEnv, SharedByVault
<1> HIDE DEF x
<1>10. dev' \in [Containers -> DevState] /\ DevInv' /\ PairInv' /\ SharedInv'
  BY <1>1, <1>3, <1>5, <1>6, <1>7, <1>8, <1>9, DevMoved
<1>11. QED
  BY <1>1, <1>3, <1>10, ProviderMoved

LEMMA ReadPrivateKeys ==
  ASSUME KeyInv, NEW c \in Containers, Answered \/ Failed, ReadPrivate(c)
  PROVE  KeyInv'
<1> DEFINE x == [dev[c] EXCEPT !.at = "public",
                               !.private = IF config.kvPair /\ faults' = faults
                                           THEN Pem("vault", None, version) ELSE NoPem]
<1>1. UNCHANGED <<config, version, env, todo, module, gcp, vault, restarts, signed, torn, loginFailed>>
  BY DEF ReadPrivate
<1>2. TypeOK /\ version \in 0 .. MaxRotations
  BY DEF KeyInv, TypeOK
<1>3. faults' \in 0 .. MaxFaults /\ (faults' = 0 => faults = 0 /\ faults' = faults)
  BY <1>2, FaultsCounted
<1>4. dev[c] \in DevState /\ dev[c].at = "private"
  BY <1>2 DEF ReadPrivate, TypeOK, DevState
<1>5. config.mode = "dev"
  BY <1>4 DEF KeyInv, DevInv
<1>6. dev' = [dev EXCEPT ![c] = x]
  BY <1>2 DEF ReadPrivate, TypeOK
<1>7. /\ x \in DevState
      /\ x.at = "public"
      /\ x.private \in {NoPem, FromVault(version)}
      /\ config.kvPair /\ faults' = faults => x.private = FromVault(version)
  BY <1>2, <1>4, PemFacts DEF DevState, FromVault
<1>8. ~("auth" \notin todo[c] /\ module[c] # "auth")
  BY <1>4 DEF KeyInv, DevInv
<1>9. SharedByVault' => config.kvPair /\ faults' = faults /\ version = 0
  BY <1>1, <1>3 DEF SharedByVault
<1> HIDE DEF x
<1>10. dev' \in [Containers -> DevState] /\ DevInv' /\ PairInv' /\ SharedInv'
  BY <1>1, <1>3, <1>5, <1>6, <1>7, <1>8, <1>9, DevMoved
<1>11. QED
  BY <1>1, <1>3, <1>10, ProviderMoved

LEMMA ReadPublicKeys ==
  ASSUME KeyInv, NEW c \in Containers, Answered \/ Failed, ReadPublic(c)
  PROVE  KeyInv'
<1> DEFINE x == IF HavePair(c)
                THEN [at |-> "over", private |-> dev[c].private, public |-> Pem("vault", None, version)]
                ELSE LocalKeys(c, env[c])
<1>1. UNCHANGED <<config, version, env, todo, module, gcp, vault, restarts, signed, torn, loginFailed>>
  BY DEF ReadPublic
<1>2. TypeOK /\ version \in 0 .. MaxRotations
  BY DEF KeyInv, TypeOK
<1>3. faults' \in 0 .. MaxFaults /\ (faults' = 0 => faults = 0 /\ faults' = faults)
  BY <1>2, FaultsCounted
<1>4. dev[c] \in DevState /\ dev[c].at = "public"
  BY <1>2 DEF ReadPublic, TypeOK, DevState
<1>5. config.mode = "dev"
  BY <1>4 DEF KeyInv, DevInv
<1>6. dev' = [dev EXCEPT ![c] = x]
  BY DEF ReadPublic
<1>7. ~torn => dev[c].private \in {NoPem, FromVault(version)}
  BY <1>4 DEF KeyInv, PairInv
<1>8. SharedByVault' => HavePair(c) /\ dev[c].private = FromVault(0) /\ version = 0
  <2>1. SharedByVault' => SharedByVault /\ config.kvPair /\ faults' = faults /\ version = 0
    BY <1>1, <1>3 DEF SharedByVault
  <2>2. SharedByVault => dev[c].private = FromVault(0)
    BY <1>4 DEF KeyInv, SharedInv
  <2>3. QED
    BY <1>2, <2>1, <2>2, PemFacts DEF HavePair
<1>9. /\ x \in DevState
      /\ x.at = "over"
      /\ ~torn /\ config.explicit \in {{}, Names} => x.private = x.public /\ x.public # NoPem
      /\ SharedByEnv => x.private = FromEnv /\ x.public = FromEnv
      /\ SharedByVault' => x.private = FromVault(0) /\ x.public = FromVault(0)
  <2>1. CASE HavePair(c)
    <3>1. dev[c].private # NoPem /\ config.kvPair
      BY <2>1 DEF HavePair
    <3>2. ~SharedByEnv
      BY <1>5, <3>1 DEF SharedByEnv
    <3>3. x = [at |-> "over", private |-> dev[c].private, public |-> FromVault(version)]
      BY <2>1 DEF FromVault
    <3>4. FromVault(version) \in Pems /\ FromVault(version) # NoPem
      BY <1>2, PemFacts
    <3>5. QED
      BY <1>4, <1>7, <1>8, <3>1, <3>2, <3>3, <3>4 DEF DevState
  <2>2. CASE ~HavePair(c)
    <3>1. x = LocalKeys(c, env[c]) /\ ~SharedByVault'
      BY <1>8, <2>2
    <3>2. config.explicit \in {{}, Names} => env[c]["JWT_PRIVATE_KEY"] = env[c]["JWT_PUBLIC_KEY"]
      BY DEF KeyInv, EnvInv
    <3>3. SharedByEnv => \A n \in Names : env[c][n] = FromEnv
      BY DEF KeyInv, ExplicitWins, SharedByEnv, FromEnv
    <3>4. QED
      BY <1>2, <3>1, <3>2, <3>3, LocalKeysFacts
  <2>3. QED
    BY <2>1, <2>2
<1> HIDE DEF x
<1>10. dev' \in [Containers -> DevState] /\ DevInv' /\ PairInv' /\ SharedInv'
  BY <1>1, <1>3, <1>6, <1>9, DevMoved
<1>11. QED
  BY <1>1, <1>3, <1>10, ProviderMoved

-----------------------------------------------------------------------------
LEMMA SignJwtKeys ==
  ASSUME KeyInv, NEW c \in Containers, SignJwt(c)
  PROVE  KeyInv'
<1>1. UNCHANGED <<config, version, env, todo, module, gcp, vault, dev, restarts, torn, loginFailed, faults>>
  BY DEF SignJwt
<1>2. TypeOK /\ signed' = signed \union {dev[c].private} /\ dev[c].private # NoPem
  BY DEF SignJwt, KeyInv, MaySign
<1>3. dev[c].at = "over"
  <2>1. "auth" \notin todo[c] /\ module[c] # "auth"
    BY KeysAssumption DEF SignJwt, Up
  <2>2. QED
    BY <2>1 DEF KeyInv, DevInv
<1>4. TypeOK'
  BY <1>1, <1>2 DEF TypeOK
<1>5. DevInv' /\ PairInv'
  BY <1>1 DEF KeyInv, DevInv, PairInv
<1>6. SharedInv'
  BY <1>1, <1>2, <1>3 DEF KeyInv, SharedInv, SharedByEnv, SharedByVault
<1>7. QED
  BY <1>1, <1>4, <1>5, <1>6, EnvKept DEF KeyInv

LEMMA RenewTokenKeys ==
  ASSUME KeyInv, NEW c \in Containers, RenewToken(c)
  PROVE  KeyInv'
<1>1. UNCHANGED <<config, version, env, todo, module, gcp, dev, restarts, signed, torn>>
  BY DEF RenewToken
<1>2. TypeOK
  BY DEF KeyInv
<1>3. /\ faults' \in 0 .. MaxFaults
      /\ faults' = 0 => faults = 0
  BY <1>2, KeysAssumption DEF RenewToken, RenewalFails, Failed, TypeOK
<1>4. vault' \in [Containers -> [WithVault -> VaultState]] /\ loginFailed' \subseteq Containers
  <2>1. CASE UNCHANGED <<vault, faults, loginFailed>>
    BY <1>2, <2>1 DEF TypeOK, VaultState
  <2>2. CASE /\ vault' = [vault EXCEPT ![c]["registry"].available = FALSE]
             /\ loginFailed' = loginFailed \union {c}
    <3>1. vault' = [vault EXCEPT ![c]["registry"] = [vault[c]["registry"] EXCEPT !.available = FALSE]]
      BY <2>2
    <3>2. "registry" \in WithVault
      BY DEF WithVault
    <3>3. vault' \in [Containers -> [WithVault -> VaultState]]
      BY <1>2, <3>1, <3>2, VaultStates, VaultMoved
    <3>4. QED
      BY <1>2, <2>2, <3>3 DEF TypeOK
  <2>3. QED
    BY <2>1, <2>2 DEF RenewToken, RenewalFails
<1>5. TypeOK'
  BY <1>1, <1>2, <1>3, <1>4 DEF TypeOK, VaultState
<1>6. DevInv'
  BY <1>1 DEF KeyInv, DevInv
<1>7. QED
  BY <1>1, <1>3, <1>5, <1>6, EnvKept, DevKept DEF KeyInv

\* A pair that is replaced between the two reads of a provider is torn; one
\* that is replaced at another time was read as a whole.
LEMMA RotateKeys ==
  ASSUME KeyInv, Rotate
  PROVE  KeyInv'
<1>1. UNCHANGED <<config, env, todo, module, gcp, vault, dev, restarts, signed, loginFailed, faults>>
  BY DEF Rotate
<1>2. TypeOK /\ version' \in 1 .. MaxRotations /\ torn' \in BOOLEAN
  BY KeysAssumption DEF Rotate, KeyInv, TypeOK
<1>3. ~torn' => ~torn /\ \A c \in Containers : dev[c].at # "public"
  BY DEF Rotate
<1>4. TypeOK'
  BY <1>1, <1>2 DEF TypeOK
<1>5. DevInv' /\ PairInv'
  BY <1>1, <1>3 DEF KeyInv, DevInv, PairInv
<1>6. SharedInv'
  BY <1>1, <1>2 DEF KeyInv, SharedInv, SharedByEnv, SharedByVault
<1>7. QED
  BY <1>1, <1>4, <1>5, <1>6, EnvKept DEF KeyInv

LEMMA RestartKeys ==
  ASSUME KeyInv, NEW c \in Containers, Restart(c)
  PROVE  KeyInv'
<1>1. UNCHANGED <<config, version, signed, torn, faults>>
  BY DEF Restart
<1>2. TypeOK /\ config \in Config
  BY DEF KeyInv, TypeOK
<1>3. /\ dev' = [dev EXCEPT ![c] = FreshDev]
      /\ env' = [env EXCEPT ![c] = Explicit]
      /\ todo' = [todo EXCEPT ![c] = Modules]
      /\ module' = [module EXCEPT ![c] = None]
      /\ vault' = [vault EXCEPT ![c] = FreshVault]
  BY DEF Restart
<1>4. env' \in [Containers -> [Names -> Pems]] /\ ExplicitWins' /\ EnvInv'
  <2>1. env \in [Containers -> [Names -> Pems]]
    BY <1>2 DEF TypeOK
  <2>2. env' \in [Containers -> [Names -> Pems]] /\ \A d \in Containers : env'[d] = env[d] \/ env'[d] = Explicit
    BY <1>2, <1>3, <2>1, ExplicitFacts
  <2>3. ExplicitWins'
    BY <1>1, <1>2, <2>2, ExplicitFacts DEF KeyInv, ExplicitWins, FromEnv
  <2>4. EnvInv'
    BY <1>1, <1>2, <2>2, ExplicitFacts DEF KeyInv, EnvInv
  <2>5. QED
    BY <2>2, <2>3, <2>4
<1>5. dev' \in [Containers -> DevState] /\ DevInv' /\ PairInv' /\ SharedInv'
  <2>1. FreshDev \in DevState /\ FreshDev.at = "idle"
    BY FreshFacts DEF FreshDev
  <2>2. "auth" \in todo'[c] /\ \A d \in Containers \ {c} : todo'[d] = todo[d] /\ module'[d] = module[d]
    BY <1>2, <1>3 DEF TypeOK, Modules
  <2>3. QED
    BY <1>1, <1>3, <2>1, <2>2, DevMoved
<1>6. /\ todo' \in [Containers -> SUBSET Modules]
      /\ module' \in [Containers -> Modules \union {None}]
      /\ vault' \in [Containers -> [WithVault -> VaultState]]
      /\ gcp' \in [Containers -> {"idle", "load", "over"}]
  BY <1>2, <1>3, FreshFacts DEF Restart, TypeOK, VaultState
<1>7. restarts' \in 0 .. MaxRestarts /\ loginFailed' \subseteq Containers
  BY <1>2, KeysAssumption DEF Restart, TypeOK
<1>8. TypeOK'
  BY <1>1, <1>2, <1>4, <1>5, <1>6, <1>7 DEF TypeOK, DevState, VaultState
<1>9. QED
  BY <1>4, <1>5, <1>8 DEF KeyInv

LEMMA KeysStep == KeyInv /\ [Next]_vars => KeyInv'
<1> SUFFICES ASSUME KeyInv, [Next]_vars PROVE KeyInv'
  OBVIOUS
<1>1. ASSUME NEW c \in Containers, Boot(c) PROVE KeyInv'
  BY <1>1, StartModuleKeys, EndModuleKeys, LoadGcpKeys, LoginKeys, LoadSecretsKeys,
     ReadTransitKeys, ReadPrivateKeys, ReadPublicKeys DEF Boot, ReadKeys
<1>2. ASSUME NEW c \in Containers, SignJwt(c) \/ RenewToken(c) \/ Restart(c) PROVE KeyInv'
  BY <1>2, SignJwtKeys, RenewTokenKeys, RestartKeys
<1>3. CASE Rotate
  BY <1>3, RotateKeys
<1>4. CASE UNCHANGED vars
  BY <1>4 DEF vars, KeyInv, TypeOK, ExplicitWins, EnvInv, DevInv, PairInv, SharedInv, SharedByEnv, SharedByVault
<1>5. QED
  BY <1>1, <1>2, <1>3, <1>4 DEF Next

LEMMA KeysInvariant == Spec => []KeyInv
<1>1. Init => KeyInv
  BY InitKeys
<1>2. QED
  BY <1>1, KeysStep, PTL DEF Spec

-----------------------------------------------------------------------------
\* The state of the boot of every container keeps its type.
THEOREM KeysTypeCorrect == Spec => []TypeOK
<1>1. KeyInv => TypeOK
  BY DEF KeyInv
<1>2. QED
  BY <1>1, KeysInvariant, PTL

\* The variables a container was started with stay as they are, whatever the
\* loaders of Vault and GCP merge and in whatever order.
THEOREM ExplicitVariablesWin == Spec => []ExplicitWins
<1>1. KeyInv => ExplicitWins
  BY DEF KeyInv
<1>2. QED
  BY <1>1, KeysInvariant, PTL

\* When the modules of a container are initialised its provider is ready.
LEMMA UpIsReady ==
  ASSUME KeyInv, NEW c \in Containers, Up(c)
  PROVE  dev[c].at = "over"
<1>1. "auth" \notin todo[c] /\ module[c] # "auth"
  BY KeysAssumption DEF Up
<1>2. QED
  BY <1>1 DEF KeyInv, DevInv

\* With a shared pair every container verifies what any container signed, for
\* any number of containers, restarts and orders of their boot.
THEOREM AnyContainerVerifies == Spec => []FleetVerifies
<1>1. KeyInv => FleetVerifies
  <2>1. SharedPair <=> SharedByEnv \/ SharedByVault
    BY DEF SharedPair, SharedByEnv, SharedByVault
  <2>2. QED
    BY <2>1, UpIsReady DEF FleetVerifies, KeyInv, SharedInv
<1>2. QED
  BY <1>1, KeysInvariant, PTL

\* A container verifies what it signs, unless one half of its pair is explicit
\* or the pair in Vault was replaced between the two reads of it.
THEOREM SignerVerifies == Spec => []SignsWhatItVerifies
<1>1. KeyInv => SignsWhatItVerifies
  BY UpIsReady DEF SignsWhatItVerifies, KeyInv, PairInv
<1>2. QED
  BY <1>1, KeysInvariant, PTL

-----------------------------------------------------------------------------
\* A VaultService whose module is still to be initialised has not logged in.
VaultInv ==
  \A c \in Containers : \A v \in WithVault : v \in todo[c] => vault[c][v] = FreshVault[v]

\* One step of the boot or of the renewal leaves a VaultService that has not
\* been started as it is, and one that is available too.
LEMMA VaultStep ==
  ASSUME TypeOK, VaultInv, Next, NEW c \in Containers, NEW v \in WithVault
  PROVE  /\ v \in todo'[c] => vault'[c][v] = FreshVault[v]
         /\ vault[c][v].available /\ ~vault'[c][v].available =>
              \/ v = "registry" /\ c \in loginFailed'
              \/ restarts' # restarts
<1>1. /\ vault \in [Containers -> [WithVault -> VaultState]]
      /\ todo \in [Containers -> SUBSET Modules]
      /\ vault[c][v] \in VaultState
      /\ v \in todo[c] => vault[c][v].at = "idle" /\ ~vault[c][v].available
      /\ v \in todo[c] => vault[c][v] = FreshVault[v]
      /\ v # "config"
  BY DEF TypeOK, VaultState, VaultInv, FreshVault, WithVault
<1>2. ASSUME UNCHANGED <<todo, vault>> PROVE vault'[c][v] = vault[c][v] /\ todo'[c] = todo[c]
  BY <1>2
<1>3. CASE \E d \in Containers : EndModule(d) \/ LoadGcp(d) \/ ReadKeys(d) \/ SignJwt(d)
  BY <1>1, <1>2, <1>3 DEF EndModule, LoadGcp, ReadKeys, ReadTransit, ReadPrivate, ReadPublic, SignJwt
<1>4. CASE Rotate
  BY <1>1, <1>2, <1>4 DEF Rotate
<1>5. ASSUME NEW d \in Containers, NEW m \in Modules, StartModule(d, m)
      PROVE  /\ v \in todo'[c] => vault'[c][v] = FreshVault[v]
             /\ vault[c][v].available => vault'[c][v].available
  <2>1. todo' = [todo EXCEPT ![d] = @ \ {m}] /\ m \in todo[d]
    BY <1>5 DEF StartModule
  <2>2. CASE d = c /\ m = v
    BY <1>1, <2>1, <2>2
  <2>3. CASE d # c \/ m # v
    <3>1. vault'[c][v] = vault[c][v]
      BY <1>1, <1>5, <2>3 DEF StartModule
    <3>2. v \in todo'[c] => v \in todo[c]
      BY <1>1, <2>1
    <3>3. QED
      BY <1>1, <3>1, <3>2
  <2>4. QED
    BY <2>2, <2>3
<1>6. ASSUME NEW d \in Containers, NEW w \in WithVault, Login(d, w) \/ LoadSecrets(d, w)
      PROVE  /\ v \in todo'[c] => vault'[c][v] = FreshVault[v]
             /\ vault[c][v].available => vault'[c][v].available
  <2>1. todo' = todo /\ vault[d][w].at \in {"login", "load"}
    BY <1>6 DEF Login, LoadSecrets
  <2>2. CASE d = c /\ w = v
    <3>1. v \notin todo[c]
      BY <1>1, <2>1, <2>2
    <3>2. vault'[c][v] \in {[at |-> "load", available |-> TRUE], [vault[c][v] EXCEPT !.at = "over"]}
      BY <1>1, <1>6, <2>2 DEF Login, LoadSecrets
    <3>3. vault[c][v].available => vault'[c][v].available
      <4>1. CASE vault'[c][v] = [at |-> "load", available |-> TRUE]
        BY <4>1
      <4>2. CASE vault'[c][v] = [vault[c][v] EXCEPT !.at = "over"]
        <5>1. vault'[c][v].available = vault[c][v].available
          BY <1>1, <4>2 DEF VaultState
        <5>2. QED
          BY <5>1
      <4>3. QED
        BY <3>2, <4>1, <4>2
    <3>4. QED
      BY <2>1, <3>1, <3>3
  <2>3. CASE d # c \/ w # v
    <3>1. vault'[c][v] = vault[c][v]
      BY <1>1, <1>6, <2>3 DEF Login, LoadSecrets
    <3>2. QED
      BY <1>1, <2>1, <3>1
  <2>4. QED
    BY <2>2, <2>3
<1>7. ASSUME NEW d \in Containers, RenewToken(d)
      PROVE  /\ v \in todo'[c] => vault'[c][v] = FreshVault[v]
             /\ vault[c][v].available /\ ~vault'[c][v].available => v = "registry" /\ c \in loginFailed'
  <2>1. todo' = todo /\ vault[d]["registry"].available
    BY <1>7 DEF RenewToken
  <2>2. CASE UNCHANGED vault
    BY <1>1, <2>1, <2>2
  <2>3. CASE /\ vault' = [vault EXCEPT ![d]["registry"].available = FALSE]
             /\ loginFailed' = loginFailed \union {d}
    <3>1. CASE d = c /\ v = "registry"
      BY <1>1, <2>1, <2>3, <3>1
    <3>2. CASE d # c \/ v # "registry"
      <4>1. vault'[c][v] = vault[c][v]
        BY <1>1, <2>3, <3>2
      <4>2. QED
        BY <1>1, <2>1, <4>1
    <3>3. QED
      BY <3>1, <3>2
  <2>4. QED
    BY <1>7, <2>2, <2>3 DEF RenewToken, RenewalFails
<1>8. ASSUME NEW d \in Containers, Restart(d)
      PROVE  /\ v \in todo'[c] => vault'[c][v] = FreshVault[v]
             /\ restarts' # restarts
  <2>1. /\ todo' = [todo EXCEPT ![d] = Modules]
        /\ vault' = [vault EXCEPT ![d] = FreshVault]
        /\ restarts' = restarts + 1
    BY <1>8 DEF Restart
  <2>2. restarts' # restarts
    BY <2>1 DEF TypeOK
  <2>3. QED
    BY <1>1, <2>1, <2>2
<1>9. QED
  BY <1>3, <1>4, <1>5, <1>6, <1>7, <1>8 DEF Next, Boot

LEMMA VaultInvariant == Spec => []VaultInv
<1>1. Init => VaultInv
  BY DEF Init, VaultInv
<1>2. TypeOK /\ VaultInv /\ [Next]_vars => VaultInv'
  <2>1. ASSUME TypeOK, VaultInv, Next PROVE VaultInv'
    BY <2>1, VaultStep DEF VaultInv
  <2>2. ASSUME VaultInv, UNCHANGED vars PROVE VaultInv'
    BY <2>2 DEF vars, VaultInv
  <2>3. QED
    BY <2>1, <2>2
<1>3. QED
  BY <1>1, <1>2, KeysTypeCorrect, PTL DEF Spec

\* Only a login that was repeated and failed, or a restart, takes Vault away
\* from a container that had it.
THEOREM VaultIsKept == Spec => KeepsVault
<1>1. TypeOK /\ VaultInv /\ [Next]_vars =>
        [\A c \in Containers :
           vault[c]["registry"].available /\ ~vault'[c]["registry"].available =>
             c \in loginFailed' \/ restarts' # restarts]_vars
  <2>1. "registry" \in WithVault
    BY DEF WithVault
  <2>2. QED
    BY <2>1, VaultStep
<1>2. QED
  BY <1>1, KeysTypeCorrect, VaultInvariant, PTL DEF Spec, KeepsVault

=============================================================================
