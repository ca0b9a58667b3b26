---------------------------- MODULE AccessProofs ----------------------------
(***************************************************************************)
(* Access for any number of requests, secrets, invites and devices: one    *)
(* secret per vault, one key per invite, none for a retired device.        *)
(***************************************************************************)
EXTENDS Access, TLAPS

-----------------------------------------------------------------------------
\* What a request is about fits the place it has reached.
VaultPcs == {"exists", "create", "stored", "upgrade", "sign"}
DevicePcs == {"lookup", "claim", "recheck", "sign_device"}

Fits(l, q) ==
    /\ l \in VaultPcs => q.secret \in ApiKeys
    /\ l \in DevicePcs => q.secret \in Invites /\ q.peer \in Peers
    /\ l \in {"get_peer", "retire"} => q.peer \in Peers

RequestsFit == \A r \in Requests : Fits(pc[r], req[r])

\* A request that was found to hold the vault's secret still does: this is
\* what lets the upgrade write without looking again.
SecretStillRight ==
    \A r \in Requests : pc[r] \in {"upgrade", "sign"} => req[r].secret = vault.key

\* A token that was not minted yet has no row that could say it is used.
UnbornUnused == \A i \in Invites : invites[i].age = "unborn" => ~invites[i].used

\* The key device_auth verified is still the device's key.
KeyStillRight ==
    \A r \in Requests : pc[r] \in {"recheck", "sign_device"} =>
        deviceKeys[req[r].peer].key = req[r].secret

VaultInv == OneVaultKey /\ SecretStillRight
InviteInv == InviteOnce /\ UnbornUnused
DeviceInv == KeyStillRight /\ DeviceTokenSound
IndInv == TypeOK /\ RequestsFit /\ VaultInv /\ InviteInv /\ DeviceInv

-----------------------------------------------------------------------------
\* The rows of TypeOK, and its requests.
RowsOK ==
    /\ vault \in VaultRow
    /\ (vault.key = None) <=> (vault.form = "none")
    /\ invites \in [Invites -> InviteRow]
    /\ deviceKeys \in [Peers -> KeyRow]
    /\ peers \in [Peers -> Names \cup {None}]
    /\ \A p \in Peers : deviceKeys[p].revoked => deviceKeys[p].key # None
    /\ told \subseteq ApiKeys
    /\ late \subseteq Requests

RequestsOK ==
    /\ pc \in [Requests -> PcValues]
    /\ req \in [Requests -> Request]
    /\ RequestsFit

LEMMA TypeSplit == (TypeOK /\ RequestsFit) <=> (RowsOK /\ RequestsOK)
BY DEF TypeOK, RowsOK, RequestsOK

LEMMA IndInit == Init => IndInv
BY AccessAssumption
   DEF Init, IndInv, TypeOK, RequestsFit, Fits, VaultInv, OneVaultKey, SecretStillRight, InviteInv, InviteOnce,
       KeysOf, UnbornUnused, DeviceInv, KeyStillRight, DeviceTokenSound, VaultPcs, DevicePcs, PcValues,
       VaultRow, InviteRow, KeyRow, NoKey, Request, NoReq, VaultOps

\* A request that moves to a place it fits keeps all requests in order.
LEMMA Moved ==
    ASSUME RequestsOK, NEW r \in Requests, NEW l \in PcValues, NEW q \in Request, Fits(l, q),
           pc' = [pc EXCEPT ![r] = l], req' = [req EXCEPT ![r] = q]
    PROVE  RequestsOK'
BY DEF RequestsOK, RequestsFit, Fits, VaultPcs, DevicePcs

LEMMA Continued ==
    ASSUME RequestsOK, NEW r \in Requests, NEW l \in PcValues, Fits(l, req[r]), GoTo(r, l)
    PROVE  RequestsOK'
<1>1. req[r] \in Request /\ req' = [req EXCEPT ![r] = req[r]]
  BY DEF RequestsOK, GoTo
<1> QED BY <1>1, Moved DEF GoTo

LEMMA Finished ==
    ASSUME RequestsOK, NEW r \in Requests, Finish(r)
    PROVE  RequestsOK'
<1>1. NoReq \in Request /\ Fits("idle", NoReq) /\ "idle" \in PcValues
  BY DEF NoReq, Request, Fits, VaultPcs, DevicePcs, PcValues
<1> QED BY <1>1, Moved DEF Finish

LEMMA Started ==
    ASSUME RequestsOK, NEW r \in Requests, NEW l \in PcValues, NEW q \in Request, Fits(l, q), Start(r, l, q)
    PROVE  RequestsOK'
BY Moved DEF Start

\* What a step does to the requests.
LEMMA RequestsStep == RequestsOK /\ [Next]_vars => RequestsOK'
<1> SUFFICES ASSUME RequestsOK, [Next]_vars PROVE RequestsOK'
  OBVIOUS
<1> USE DEF PcValues
<1>1. ASSUME NEW r \in Requests, VaultStep(r)
      PROVE  RequestsOK'
  <2> DEFINE Here == pc[r] \in VaultPcs /\ req[r].secret \in ApiKeys
  <2>0. Here => \A l \in VaultPcs : Fits(l, req[r])
    BY DEF Fits, VaultPcs, DevicePcs
  <2>1. CASE StartVault(r)
    <3>1. PICK o \in {"verify", "register"}, k \in ApiKeys :
              Start(r, "exists", [NoReq EXCEPT !.op = o, !.secret = k])
      BY <2>1 DEF StartVault
    <3> DEFINE q == [NoReq EXCEPT !.op = o, !.secret = k]
    <3>2. q \in Request /\ Fits("exists", q)
      BY DEF NoReq, Request, Fits, VaultPcs, DevicePcs, VaultOps
    <3> QED BY <3>1, <3>2, Started
  <2>2. CASE VaultCreate(r)
    <3>1. PICK k \in ApiKeys : Start(r, "create", [NoReq EXCEPT !.op = "cli_create", !.secret = k])
      BY <2>2 DEF VaultCreate
    <3> DEFINE q == [NoReq EXCEPT !.op = "cli_create", !.secret = k]
    <3>2. q \in Request /\ Fits("create", q)
      BY DEF NoReq, Request, Fits, VaultPcs, DevicePcs, VaultOps
    <3> QED BY <3>1, <3>2, Started
  <2>3. ASSUME VaultExists(r) \/ CreateVault(r) \/ VerifyVault(r) \/ UpgradeVault(r) \/ SignVault(r) \/ PrintSecret(r)
        PROVE  RequestsOK'
    <3>1. Here
      BY <2>3 DEF VaultExists, CreateVault, VerifyVault, UpgradeVault, SignVault, PrintSecret, VaultPcs,
                  RequestsOK, RequestsFit, Fits
    <3>2. Finish(r) \/ \E l \in VaultPcs : GoTo(r, l)
      BY <2>3 DEF VaultExists, CreateVault, VerifyVault, UpgradeVault, SignVault, PrintSecret, VaultPcs
    <3>3. VaultPcs \subseteq PcValues
      BY DEF VaultPcs
    <3> QED BY <2>0, <3>1, <3>2, <3>3, Finished, Continued
  <2> QED BY <1>1, <2>1, <2>2, <2>3 DEF VaultStep
<1>2. ASSUME NEW r \in Requests, DeviceStep(r)
      PROVE  RequestsOK'
  <2>1. ASSUME NEW i \in Invites, NEW p \in Peers, NEW o \in {"redeem", "device"},
               Start(r, "lookup", [NoReq EXCEPT !.op = o, !.secret = i, !.peer = p])
        PROVE  RequestsOK'
    <3> DEFINE q == [NoReq EXCEPT !.op = o, !.secret = i, !.peer = p]
    <3>1. q \in Request /\ Fits("lookup", q)
      BY DEF NoReq, Request, Fits, VaultPcs, DevicePcs
    <3> QED BY <2>1, <3>1, Started
  <2>2. CASE StartRedeem(r) \/ StartDevice(r)
    BY <2>1, <2>2 DEF StartRedeem, StartDevice
  <2>3. ASSUME RedeemLookup(r) \/ RedeemClaim(r) \/ DeviceLookup(r) \/ Recheck(r) \/ SignDevice(r)
        PROVE  RequestsOK'
    <3>1. req[r].secret \in Invites /\ req[r].peer \in Peers
      BY <2>3 DEF RedeemLookup, RedeemClaim, DeviceLookup, Recheck, SignDevice, DevicePcs,
                  RequestsOK, RequestsFit, Fits
    <3>2. Finish(r) \/ \E l \in DevicePcs : GoTo(r, l)
      BY <2>3 DEF RedeemLookup, RedeemClaim, DeviceLookup, Recheck, SignDevice, DevicePcs
    <3>3. DevicePcs \subseteq PcValues /\ \A l \in DevicePcs : Fits(l, req[r])
      BY <3>1 DEF DevicePcs, VaultPcs, Fits
    <3> QED BY <3>2, <3>3, Finished, Continued
  <2> QED BY <1>2, <2>2, <2>3 DEF DeviceStep
<1>3. ASSUME NEW r \in Requests, RetireStep(r)
      PROVE  RequestsOK'
  <2>1. CASE StartRetire(r)
    <3>1. PICK p \in Peers, n \in Names :
              Start(r, "get_peer", [NoReq EXCEPT !.op = "retire", !.peer = p, !.name = n])
      BY <2>1 DEF StartRetire
    <3> DEFINE q == [NoReq EXCEPT !.op = "retire", !.peer = p, !.name = n]
    <3>2. q \in Request /\ Fits("get_peer", q)
      BY DEF NoReq, Request, Fits, VaultPcs, DevicePcs
    <3> QED BY <3>1, <3>2, Started
  <2>2. CASE GetPeer(r)
    <3>1. Fits("retire", req[r])
      BY <2>2 DEF GetPeer, RequestsOK, RequestsFit, Fits, VaultPcs, DevicePcs
    <3> QED BY <2>2, <3>1, Finished, Continued DEF GetPeer
  <2>3. CASE Retire(r)
    BY <2>3, Finished DEF Retire
  <2> QED BY <1>3, <2>1, <2>2, <2>3 DEF RetireStep
<1>4. ASSUME NEW r \in Requests, Drop(r)
      PROVE  RequestsOK'
  BY <1>4, Finished DEF Drop
<1>5. CASE UNCHANGED <<pc, req>>
  BY <1>5 DEF RequestsOK, RequestsFit, Fits
<1> QED BY <1>1, <1>2, <1>3, <1>4, <1>5 DEF Next, Mint, InviteAges, Connect, PeerExpires, vars

\* Minting an invite makes its row, and removes or keeps the others.
LEMMA MintRows ==
    ASSUME RowsOK, NEW i \in Invites, Mint(i)
    PROVE  /\ invites' \in [Invites -> InviteRow]
           /\ ~invites'[i].used /\ invites'[i].age # "unborn"
           /\ \A j \in Invites \ {i} :
                /\ invites'[j].used <=> invites[j].used
                /\ invites'[j].age = "unborn" => invites[j].age = "unborn"
<1>1. invites' = [j \in Invites |-> invites'[j]]
  BY DEF Mint
<1>2. invites'[i] = [age |-> "fresh", used |-> FALSE]
  BY DEF Mint
<1>3. ASSUME NEW j \in Invites \ {i}
      PROVE  /\ invites'[j] \in InviteRow
             /\ invites'[j].used <=> invites[j].used
             /\ invites'[j].age = "unborn" => invites[j].age = "unborn"
  <2>1. invites[j] \in InviteRow
    BY DEF RowsOK
  <2>2. CASE invites[j].age = "dead"
    <3>1. invites'[j] = [invites[j] EXCEPT !.age = "gone"]
      BY <2>2 DEF Mint
    <3> QED BY <2>1, <3>1 DEF InviteRow
  <2>3. CASE invites[j].age # "dead"
    <3>1. invites'[j] = invites[j]
      BY <2>3 DEF Mint
    <3> QED BY <2>1, <3>1
  <2> QED BY <2>2, <2>3
<1>4. invites'[i] \in InviteRow
  BY <1>2 DEF InviteRow
<1>5. \A j \in Invites : invites'[j] \in InviteRow
  BY <1>3, <1>4
<1> QED BY <1>1, <1>2, <1>3, <1>5

\* What a step does to the rows.
LEMMA RowsStep == RowsOK /\ RequestsOK /\ [Next]_vars => RowsOK'
<1> SUFFICES ASSUME RowsOK, RequestsOK, [Next]_vars PROVE RowsOK'
  OBVIOUS
<1>1. CASE UNCHANGED <<rows, told>> /\ late' \subseteq late
  BY <1>1 DEF RowsOK, rows
<1>2. ASSUME NEW r \in Requests, CreateVault(r) \/ UpgradeVault(r)
      PROVE  RowsOK'
  <2>1. req[r].secret \in ApiKeys
    BY <1>2 DEF CreateVault, UpgradeVault, RequestsOK, RequestsFit, Fits, VaultPcs
  <2>2. vault' = vault \/ vault' = [key |-> req[r].secret, form |-> "argon2"]
    BY <1>2 DEF CreateVault, UpgradeVault
  <2>3. UNCHANGED <<invites, deviceKeys, peers, told, late>>
    BY <1>2 DEF CreateVault, UpgradeVault
  <2> QED BY <2>1, <2>2, <2>3, AccessAssumption DEF RowsOK, VaultRow
<1>3. ASSUME NEW r \in Requests, SignVault(r) \/ PrintSecret(r)
      PROVE  RowsOK'
  <2>1. req[r].secret \in ApiKeys
    BY <1>3 DEF SignVault, PrintSecret, RequestsOK, RequestsFit, Fits, VaultPcs
  <2> QED BY <1>3, <2>1 DEF SignVault, PrintSecret, RowsOK, rows
<1>4. ASSUME NEW r \in Requests, RedeemClaim(r)
      PROVE  RowsOK'
  <2>1. req[r].secret \in Invites /\ req[r].peer \in Peers
    BY <1>4 DEF RedeemClaim, RequestsOK, RequestsFit, Fits, DevicePcs
  <2> DEFINE i == req[r].secret
             q == req[r].peer
  <2>2. CASE UNCHANGED <<invites, deviceKeys>>
    BY <1>4, <2>2 DEF RedeemClaim, RowsOK
  <2>3. CASE /\ invites' = [invites EXCEPT ![i].used = TRUE]
             /\ deviceKeys' = [deviceKeys EXCEPT ![q] = [key |-> i, revoked |-> FALSE]]
    <3>1. invites' \in [Invites -> InviteRow]
      BY <2>1, <2>3 DEF RowsOK, InviteRow
    <3>2. deviceKeys' \in [Peers -> KeyRow]
      BY <2>1, <2>3 DEF RowsOK, KeyRow
    <3>3. \A p \in Peers : deviceKeys'[p].revoked => deviceKeys'[p].key # None
      BY <2>1, <2>3 DEF RowsOK, KeyRow
    <3> QED BY <1>4, <3>1, <3>2, <3>3 DEF RedeemClaim, RowsOK
  <2> QED BY <1>4, <2>2, <2>3 DEF RedeemClaim
<1>5. ASSUME NEW r \in Requests, Retire(r)
      PROVE  RowsOK'
  <2>1. req[r].peer \in Peers
    BY <1>5 DEF Retire, RequestsOK, RequestsFit, Fits
  <2> QED BY <1>5, <2>1 DEF Retire, RowsOK, KeyRow
<1>6. ASSUME NEW i \in Invites, Mint(i) \/ InviteAges(i)
      PROVE  RowsOK'
  <2>1. CASE Mint(i)
    BY <2>1, MintRows DEF Mint, RowsOK
  <2>2. CASE InviteAges(i)
    BY <2>2 DEF InviteAges, RowsOK, InviteRow
  <2> QED BY <1>6, <2>1, <2>2
<1>7. ASSUME NEW p \in Peers, Connect(p) \/ PeerExpires(p)
      PROVE  RowsOK'
  BY <1>7 DEF Connect, PeerExpires, RowsOK
<1> QED
  BY <1>1, <1>2, <1>3, <1>4, <1>5, <1>6, <1>7
  DEF Next, VaultStep, StartVault, VaultCreate, VaultExists, VerifyVault, DeviceStep, StartRedeem, RedeemLookup,
      StartDevice, DeviceLookup, Recheck, SignDevice, RetireStep, StartRetire, GetPeer, Drop, Start, rows, vars

LEMMA TypeStep == TypeOK /\ RequestsFit /\ [Next]_vars => TypeOK' /\ RequestsFit'
<1>1. (RowsOK /\ RequestsOK)' <=> (TypeOK /\ RequestsFit)'
  BY TypeSplit, PTL
<1> QED BY <1>1, TypeSplit, RequestsStep, RowsStep

-----------------------------------------------------------------------------
(* The steps that leave the rows alone.                                    *)

LEMMA StartsKeepRows ==
    ASSUME NEW r \in Requests, StartVault(r) \/ VaultCreate(r) \/ StartRedeem(r) \/ StartDevice(r) \/ StartRetire(r)
    PROVE  UNCHANGED <<vault, invites, deviceKeys, peers, told, late>>
BY DEF StartVault, VaultCreate, StartRedeem, StartDevice, StartRetire, Start, rows

\* The steps that write: every other one leaves the rows and told alone, and
\* takes at most its own request out of late.
LEMMA Writers ==
    ASSUME [Next]_vars
    PROVE  \/ \E r \in Requests : CreateVault(r) \/ UpgradeVault(r) \/ SignVault(r) \/ PrintSecret(r) \/ RedeemClaim(r) \/ Retire(r)
           \/ \E i \in Invites : Mint(i) \/ InviteAges(i)
           \/ \E p \in Peers : Connect(p) \/ PeerExpires(p)
           \/ UNCHANGED <<vault, invites, deviceKeys, peers, told>> /\ late' \subseteq late
<1>1. ASSUME NEW r \in Requests,
             VaultExists(r) \/ VerifyVault(r) \/ RedeemLookup(r) \/ DeviceLookup(r) \/ Recheck(r) \/ GetPeer(r)
      PROVE  UNCHANGED <<vault, invites, deviceKeys, peers, told, late>>
  BY <1>1 DEF VaultExists, VerifyVault, RedeemLookup, DeviceLookup, Recheck, GetPeer, rows
<1>2. ASSUME NEW r \in Requests, SignDevice(r) \/ Drop(r)
      PROVE  UNCHANGED <<vault, invites, deviceKeys, peers, told>> /\ late' \subseteq late
  BY <1>2 DEF SignDevice, Drop, rows
<1>3. CASE UNCHANGED vars
  BY <1>3 DEF vars
<1> QED BY <1>1, <1>2, <1>3, StartsKeepRows DEF Next, VaultStep, DeviceStep, RetireStep

(* The vault's secret.                                                     *)

\* The secret changes only while there is none, and the upgrade changes no
\* more than its form.
LEMMA SecretKept ==
    ASSUME TypeOK, SecretStillRight, [Next]_vars, Registered
    PROVE  vault'.key = vault.key /\ (vault.form = "argon2" => vault' = vault)
<1>1. vault = [key |-> vault.key, form |-> vault.form]
  BY DEF TypeOK, VaultRow
<1>2. CASE vault' = vault
  BY <1>2
<1>3. ASSUME NEW r \in Requests, UpgradeVault(r)
      PROVE  vault'.key = vault.key /\ (vault.form = "argon2" => vault' = vault)
  <2>1. vault' = [key |-> vault.key, form |-> "argon2"]
    BY <1>3 DEF UpgradeVault, SecretStillRight
  <2>2. vault'.key = vault.key
    BY <2>1
  <2>3. ASSUME vault.form = "argon2" PROVE vault' = vault
    BY <1>1, <2>1, <2>3
  <2> QED BY <2>2, <2>3
<1>4. vault' = vault \/ \E r \in Requests : UpgradeVault(r)
  BY Writers
  DEF CreateVault, SignVault, PrintSecret, RedeemClaim, Retire, Mint, InviteAges, Connect, PeerExpires, rows
<1> QED BY <1>2, <1>3, <1>4

\* A request that moves on: where it was, and that the others stay.
LEMMA NewlyRight ==
    ASSUME RequestsOK, [Next]_vars, NEW s \in Requests, pc'[s] \in {"upgrade", "sign"}
    PROVE  \/ pc[s] \in {"upgrade", "sign"} /\ req'[s] = req[s]
           \/ req'[s] = req[s] /\ req[s].secret = vault.key /\ vault' = vault
           \/ req'[s] = req[s] /\ vault'.key = req[s].secret
<1> USE DEF RequestsOK, GoTo, Finish, Start
<1>1. ASSUME NEW r \in Requests, VaultStep(r)
      PROVE  \/ pc[s] \in {"upgrade", "sign"} /\ req'[s] = req[s]
             \/ req'[s] = req[s] /\ req[s].secret = vault.key /\ vault' = vault
             \/ req'[s] = req[s] /\ vault'.key = req[s].secret
  <2>1. CASE StartVault(r) \/ VaultCreate(r) \/ VaultExists(r) \/ SignVault(r) \/ PrintSecret(r)
    BY <2>1 DEF StartVault, VaultCreate, VaultExists, SignVault, PrintSecret
  <2>2. CASE CreateVault(r)
    BY <2>2 DEF CreateVault
  <2>3. CASE VerifyVault(r)
    <3>1. CASE req[r].secret # vault.key
      BY <2>3, <3>1 DEF VerifyVault
    <3>2. CASE req[r].secret = vault.key
      BY <2>3, <3>2 DEF VerifyVault, rows
    <3> QED BY <3>1, <3>2
  <2>4. CASE UpgradeVault(r)
    BY <2>4 DEF UpgradeVault
  <2> QED BY <1>1, <2>1, <2>2, <2>3, <2>4 DEF VaultStep
<1>2. ASSUME NEW r \in Requests, DeviceStep(r)
      PROVE  pc[s] \in {"upgrade", "sign"} /\ req'[s] = req[s]
  BY <1>2 DEF DeviceStep, StartRedeem, RedeemLookup, RedeemClaim, StartDevice, DeviceLookup, Recheck, SignDevice
<1>3. ASSUME NEW r \in Requests, RetireStep(r) \/ Drop(r)
      PROVE  pc[s] \in {"upgrade", "sign"} /\ req'[s] = req[s]
  BY <1>3 DEF RetireStep, StartRetire, GetPeer, Retire, Drop
<1>4. CASE UNCHANGED <<pc, req>>
  BY <1>4
<1> QED BY <1>1, <1>2, <1>3, <1>4 DEF Next, Mint, InviteAges, Connect, PeerExpires, vars

LEMMA VaultInvStep ==
    ASSUME TypeOK, RequestsFit, VaultInv, [Next]_vars
    PROVE  VaultInv'
<1> USE DEF VaultInv
<1>0. RequestsOK
  BY TypeSplit
<1>1. SecretStillRight'
  <2> SUFFICES ASSUME NEW s \in Requests, pc'[s] \in {"upgrade", "sign"}
               PROVE  req'[s].secret = vault'.key
    BY DEF SecretStillRight
  <2>1. CASE pc[s] \in {"upgrade", "sign"} /\ req'[s] = req[s]
    <3>1. req[s].secret = vault.key /\ req[s].secret \in ApiKeys
      BY <2>1 DEF SecretStillRight, RequestsFit, Fits, VaultPcs
    <3>2. Registered
      BY <3>1, AccessAssumption DEF TypeOK, Registered
    <3> QED BY <2>1, <3>1, <3>2, SecretKept
  <2> QED BY <1>0, <2>1, NewlyRight
<1>2. told' \subseteq told \cup {vault.key}
  <2>1. ASSUME NEW r \in Requests, SignVault(r) \/ PrintSecret(r)
        PROVE  told' = told \cup {vault.key}
    BY <2>1 DEF SignVault, PrintSecret, SecretStillRight
  <2>2. CASE UNCHANGED told
    BY <2>2
  <2> QED
    BY <2>1, <2>2, Writers
    DEF CreateVault, UpgradeVault, RedeemClaim, Retire, Mint, InviteAges, Connect, PeerExpires
<1>3. told' # {} => Registered
  <2>1. told # {} => Registered
    BY AccessAssumption DEF OneVaultKey, TypeOK, Registered
  <2>2. ASSUME NEW r \in Requests, SignVault(r) \/ PrintSecret(r)
        PROVE  Registered
    <3>1. req[r].secret = vault.key /\ req[r].secret \in ApiKeys
      BY <2>2 DEF SignVault, PrintSecret, SecretStillRight, RequestsFit, Fits, VaultPcs
    <3> QED BY <3>1, AccessAssumption DEF TypeOK, Registered
  <2> QED
    BY <2>1, <2>2, Writers
    DEF CreateVault, UpgradeVault, RedeemClaim, Retire, Mint, InviteAges, Connect, PeerExpires
<1>4. OneVaultKey'
  BY <1>2, <1>3, SecretKept DEF OneVaultKey
<1> QED BY <1>1, <1>4

-----------------------------------------------------------------------------
(* Invites.                                                                *)

\* Only a redemption gives a device a key, and only if it had none.
LEMMA KeyRows ==
    ASSUME TypeOK, RequestsFit, [Next]_vars, NEW p \in Peers
    PROVE  \/ deviceKeys'[p].key = deviceKeys[p].key /\ (deviceKeys[p].revoked => deviceKeys'[p] = deviceKeys[p])
           \/ deviceKeys[p].key = None /\ ~deviceKeys[p].revoked
<1>1. ASSUME NEW r \in Requests, RedeemClaim(r)
      PROVE  deviceKeys'[p] = deviceKeys[p] \/ deviceKeys[p].key = None
  <2>1. req[r].peer \in Peers
    BY <1>1 DEF RedeemClaim, RequestsFit, Fits, DevicePcs
  <2> QED BY <1>1, <2>1 DEF RedeemClaim, TypeOK
<1>2. ASSUME NEW r \in Requests, Retire(r)
      PROVE  deviceKeys'[p].key = deviceKeys[p].key /\ (deviceKeys[p].revoked => deviceKeys'[p] = deviceKeys[p])
  <2>1. req[r].peer \in Peers
    BY <1>2 DEF Retire, RequestsFit, Fits
  <2>2. deviceKeys[p] = [key |-> deviceKeys[p].key, revoked |-> deviceKeys[p].revoked]
    BY DEF TypeOK, KeyRow
  <2>3. \/ deviceKeys'[p] = deviceKeys[p]
        \/ deviceKeys'[p] = [key |-> deviceKeys[p].key, revoked |-> TRUE]
    BY <1>2, <2>1, <2>2 DEF Retire, TypeOK, KeyRow
  <2>4. deviceKeys[p].revoked \in BOOLEAN
    BY DEF TypeOK, KeyRow
  <2>5. deviceKeys'[p].key = deviceKeys[p].key
    BY <2>3
  <2>6. CASE deviceKeys[p].revoked = TRUE
    <3>1. deviceKeys[p] = [key |-> deviceKeys[p].key, revoked |-> TRUE]
      BY <2>2, <2>6
    <3>2. deviceKeys'[p] = deviceKeys[p]
      BY <2>3, <3>1
    <3> QED BY <2>5, <3>2
  <2>7. CASE deviceKeys[p].revoked = FALSE
    BY <2>5, <2>7
  <2> QED BY <2>4, <2>6, <2>7
<1>3. CASE UNCHANGED deviceKeys
  BY <1>3
<1> QED
  BY <1>1, <1>2, <1>3, Writers
  DEF CreateVault, UpgradeVault, SignVault, PrintSecret, Mint, InviteAges, Connect, PeerExpires, rows, TypeOK

LEMMA InviteInvStep ==
    ASSUME TypeOK, RequestsFit, InviteInv, [Next]_vars
    PROVE  InviteInv'
<1> USE DEF InviteInv, InviteOnce, UnbornUnused, KeysOf
<1>0. RowsOK
  BY TypeSplit
<1>1. ASSUME NEW r \in Requests, RedeemClaim(r)
      PROVE  InviteInv'
  <2> DEFINE i == req[r].secret
             q == req[r].peer
  <2>1. i \in Invites /\ q \in Peers
    BY <1>1 DEF RedeemClaim, RequestsFit, Fits, DevicePcs
  <2>2. CASE UNCHANGED <<invites, deviceKeys>>
    BY <2>2
  <2>3. CASE /\ Claimable(i) /\ deviceKeys[q].key = None
             /\ invites' = [invites EXCEPT ![i].used = TRUE]
             /\ deviceKeys' = [deviceKeys EXCEPT ![q] = [key |-> i, revoked |-> FALSE]]
    <3>1. \A p \in Peers : deviceKeys[p].key # i
      BY <2>1, <2>3 DEF Claimable
    <3>2. \A p \in Peers : deviceKeys'[p].key = IF p = q THEN i ELSE deviceKeys[p].key
      BY <2>1, <2>3 DEF TypeOK
    <3>3. \A j \in Invites : /\ invites'[j].age = invites[j].age
                             /\ j # i => invites'[j] = invites[j]
      BY <2>1, <2>3 DEF TypeOK, InviteRow
    <3>4. invites'[i].used /\ invites[i].age # "unborn"
      BY <2>1, <2>3 DEF TypeOK, InviteRow, Claimable
    <3>5. \A j \in Invites : j # None
      BY AccessAssumption
    <3>6. UnbornUnused'
      BY <3>3, <3>4
    <3>7. ASSUME NEW j \in Invites
          PROVE  /\ \A a, b \in Peers : deviceKeys'[a].key = j /\ deviceKeys'[b].key = j => a = b
                 /\ invites'[j].used <=> \E a \in Peers : deviceKeys'[a].key = j
      <4>1. CASE j = i
        BY <2>1, <3>1, <3>2, <3>4, <4>1
      <4>2. CASE j # i
        BY <2>1, <2>3, <3>2, <3>3, <3>5, <4>2
      <4> QED BY <4>1, <4>2
    <3> QED BY <3>6, <3>7
  <2> QED BY <1>1, <2>2, <2>3 DEF RedeemClaim
<1>2. ASSUME \A p \in Peers : deviceKeys'[p].key = deviceKeys[p].key,
             \A j \in Invites : /\ invites'[j].used <=> invites[j].used
                                /\ invites'[j].age = "unborn" => invites[j].age = "unborn"
      PROVE  InviteInv'
  BY <1>2
<1>3. ASSUME NEW i \in Invites, Mint(i)
      PROVE  InviteInv'
  <2>1. ~invites[i].used
    BY <1>3 DEF Mint
  <2>2. \A j \in Invites : /\ invites'[j].used <=> invites[j].used
                           /\ invites'[j].age = "unborn" => invites[j].age = "unborn"
    BY <1>0, <1>3, <2>1, MintRows
  <2> QED BY <1>2, <1>3, <2>2 DEF Mint
<1>4. ASSUME NEW i \in Invites, InviteAges(i)
      PROVE  InviteInv'
  <2>1. \A j \in Invites : /\ invites'[j].used <=> invites[j].used
                           /\ invites'[j].age = "unborn" => invites[j].age = "unborn"
    BY <1>4 DEF InviteAges, TypeOK, InviteRow
  <2> QED BY <1>2, <1>4, <2>1 DEF InviteAges
<1>5. ASSUME NEW r \in Requests, Retire(r)
      PROVE  InviteInv'
  <2>1. req[r].peer \in Peers
    BY <1>5 DEF Retire, RequestsFit, Fits
  <2>2. \A p \in Peers : deviceKeys'[p].key = deviceKeys[p].key
    BY <1>5, <2>1 DEF Retire, TypeOK, KeyRow
  <2> QED BY <1>2, <1>5, <2>2 DEF Retire
<1>6. CASE UNCHANGED <<invites, deviceKeys>>
  BY <1>2, <1>6
<1> QED
  BY <1>1, <1>3, <1>4, <1>5, <1>6, Writers
  DEF CreateVault, UpgradeVault, SignVault, PrintSecret, Connect, PeerExpires, rows

-----------------------------------------------------------------------------
(* Device tokens.                                                          *)

\* A device_auth past its lookup was there before, or has just verified.
LEMMA NewlyVerified ==
    ASSUME TypeOK, [Next]_vars, NEW s \in Requests, pc'[s] \in {"recheck", "sign_device"}
    PROVE  /\ req'[s] = req[s]
           /\ \/ pc'[s] = pc[s]
              \/ /\ pc'[s] = "recheck" /\ deviceKeys' = deviceKeys
                 /\ deviceKeys[req[s].peer] = [key |-> req[s].secret, revoked |-> FALSE]
              \/ /\ pc'[s] = "sign_device" /\ pc[s] = "recheck" /\ deviceKeys' = deviceKeys
                 /\ ~deviceKeys[req[s].peer].revoked
<1> USE DEF TypeOK, GoTo, Finish, Start
<1>1. ASSUME NEW r \in Requests, VaultStep(r)
      PROVE  req'[s] = req[s] /\ pc'[s] = pc[s]
  BY <1>1 DEF VaultStep, StartVault, VaultCreate, VaultExists, CreateVault, VerifyVault, UpgradeVault, SignVault, PrintSecret
<1>2. ASSUME NEW r \in Requests, StartRedeem(r) \/ RedeemLookup(r) \/ RedeemClaim(r) \/ StartDevice(r) \/ SignDevice(r)
      PROVE  req'[s] = req[s] /\ pc'[s] = pc[s]
  BY <1>2 DEF StartRedeem, RedeemLookup, RedeemClaim, StartDevice, SignDevice
<1>3. ASSUME NEW r \in Requests, DeviceLookup(r), pc'[s] # pc[s]
      PROVE  /\ req'[s] = req[s] /\ pc'[s] = "recheck" /\ deviceKeys' = deviceKeys
             /\ deviceKeys[req[s].peer] = [key |-> req[s].secret, revoked |-> FALSE]
  BY <1>3 DEF DeviceLookup, rows
<1>4. ASSUME NEW r \in Requests, Recheck(r), pc'[s] # pc[s]
      PROVE  /\ req'[s] = req[s] /\ pc'[s] = "sign_device" /\ pc[s] = "recheck" /\ deviceKeys' = deviceKeys
             /\ ~deviceKeys[req[s].peer].revoked
  BY <1>4 DEF Recheck, rows
<1>5. ASSUME NEW r \in Requests, DeviceLookup(r) \/ Recheck(r), pc'[s] = pc[s]
      PROVE  req'[s] = req[s]
  BY <1>5 DEF DeviceLookup, Recheck
<1>6. ASSUME NEW r \in Requests, RetireStep(r) \/ Drop(r)
      PROVE  req'[s] = req[s] /\ pc'[s] = pc[s]
  BY <1>6 DEF RetireStep, StartRetire, GetPeer, Retire, Drop
<1>7. CASE UNCHANGED <<pc, req>>
  BY <1>7
<1> QED
  BY <1>1, <1>2, <1>3, <1>4, <1>5, <1>6, <1>7
  DEF Next, DeviceStep, Mint, InviteAges, Connect, PeerExpires, vars

\* Only device_auth gets to the recheck.
LEMMA LookupBefore ==
    ASSUME TypeOK, [Next]_vars, NEW s \in Requests, pc'[s] \in {"recheck", "sign_device"}, pc'[s] # pc[s]
    PROVE  pc[s] \in DevicePcs
<1>1. \E r \in Requests : DeviceStep(r)
  <2> USE DEF TypeOK, GoTo, Finish, Start
  <2>1. ASSUME NEW r \in Requests, VaultStep(r) \/ RetireStep(r) \/ Drop(r)
        PROVE  FALSE
    BY <2>1 DEF VaultStep, StartVault, VaultCreate, VaultExists, CreateVault, VerifyVault, UpgradeVault, SignVault, PrintSecret,
                RetireStep, StartRetire, GetPeer, Retire, Drop
  <2> QED BY <2>1 DEF Next, Mint, InviteAges, Connect, PeerExpires, vars
<1>2. PICK r \in Requests : DeviceStep(r)
  BY <1>1
<1> QED
  BY <1>2
  DEF DeviceStep, StartRedeem, RedeemLookup, RedeemClaim, StartDevice, DeviceLookup, Recheck, SignDevice,
      TypeOK, GoTo, Finish, Start, DevicePcs

\* Nobody leaves late but by signing or going away.
LEMMA LateKept ==
    ASSUME TypeOK, [Next]_vars, NEW s \in late, pc'[s] = "sign_device"
    PROVE  s \in late'
<1>1. ASSUME NEW r \in Requests, SignDevice(r) \/ Drop(r)
      PROVE  s \in late'
  <2>1. pc'[r] = "idle" /\ late' = late \ {r}
    BY <1>1 DEF SignDevice, Drop, Finish, TypeOK
  <2> QED BY <2>1
<1>2. ASSUME NEW r \in Requests, VaultStep(r)
      PROVE  late' = late
  BY <1>2, StartsKeepRows DEF VaultStep, VaultExists, CreateVault, VerifyVault, UpgradeVault, SignVault, PrintSecret
<1>3. ASSUME NEW r \in Requests, DeviceStep(r)
      PROVE  s \in late'
  BY <1>1, <1>3, StartsKeepRows DEF DeviceStep, RedeemLookup, RedeemClaim, DeviceLookup, Recheck
<1>4. ASSUME NEW r \in Requests, RetireStep(r)
      PROVE  s \in late'
  BY <1>4, StartsKeepRows DEF RetireStep, GetPeer, Retire
<1>5. CASE UNCHANGED late
  BY <1>5
<1> QED BY <1>1, <1>2, <1>3, <1>4, <1>5 DEF Next, Mint, InviteAges, Connect, PeerExpires, vars

\* A key that becomes revoked was revoked by a retirement, which notes every
\* device_auth that is past its recheck.
LEMMA NewlyRevoked ==
    ASSUME TypeOK, RequestsFit, [Next]_vars, NEW p \in Peers, deviceKeys'[p].revoked, ~deviceKeys[p].revoked,
           NEW s \in Requests, pc[s] = "sign_device", req[s].peer = p
    PROVE  s \in late'
<1>1. ASSUME NEW r \in Requests, RedeemClaim(r)
      PROVE  FALSE
  <2>1. req[r].peer \in Peers
    BY <1>1 DEF RedeemClaim, RequestsFit, Fits, DevicePcs
  <2>2. deviceKeys'[p] = deviceKeys[p] \/ deviceKeys'[p] = [key |-> req[r].secret, revoked |-> FALSE]
    BY <1>1, <2>1 DEF RedeemClaim, TypeOK
  <2> QED BY <2>2
<1>2. ASSUME NEW r \in Requests, Retire(r)
      PROVE  s \in late'
  <2>1. req[r].peer \in Peers
    BY <1>2 DEF Retire, RequestsFit, Fits
  <2>2. req[r].peer = p
    BY <1>2, <2>1 DEF Retire, TypeOK, KeyRow
  <2> QED BY <1>2, <2>2 DEF Retire
<1>3. CASE UNCHANGED deviceKeys
  BY <1>3
<1> QED
  BY <1>1, <1>2, <1>3, Writers
  DEF CreateVault, UpgradeVault, SignVault, PrintSecret, Mint, InviteAges, Connect, PeerExpires, rows

LEMMA DeviceInvStep ==
    ASSUME TypeOK, RequestsFit, DeviceInv, [Next]_vars
    PROVE  DeviceInv'
<1> USE DEF DeviceInv
<1>1. ASSUME NEW s \in Requests, pc'[s] \in {"recheck", "sign_device"}
      PROVE  /\ req'[s] = req[s] /\ req[s].peer \in Peers
             /\ deviceKeys'[req[s].peer].key = req[s].secret
  <2>1. req'[s] = req[s]
    BY <1>1, NewlyVerified
  <2>2. pc[s] \in DevicePcs \cup {"recheck"}
    <3>1. pc'[s] # pc[s] => pc[s] \in DevicePcs
      BY <1>1, LookupBefore
    <3> QED BY <1>1, <3>1 DEF DevicePcs
  <2>3. req[s].peer \in Peers /\ req[s].secret \in Invites
    BY <2>2 DEF RequestsFit, Fits, DevicePcs
  <2>4. deviceKeys[req[s].peer].key = req[s].secret
    <3>1. CASE pc[s] \in {"recheck", "sign_device"}
      BY <3>1 DEF KeyStillRight
    <3>2. CASE pc[s] \notin {"recheck", "sign_device"}
      <4>1. deviceKeys[req[s].peer] = [key |-> req[s].secret, revoked |-> FALSE]
        BY <1>1, <3>2, NewlyVerified
      <4> QED BY <4>1
    <3> QED BY <3>1, <3>2
  <2>5. deviceKeys'[req[s].peer].key = deviceKeys[req[s].peer].key
    BY <2>3, <2>4, KeyRows, AccessAssumption
  <2> QED BY <2>1, <2>3, <2>4, <2>5
<1>2. KeyStillRight'
  BY <1>1 DEF KeyStillRight
<1>3. ASSUME NEW s \in Requests, pc'[s] = "sign_device", deviceKeys'[req'[s].peer].revoked
      PROVE  s \in late'
  <2>1. req'[s] = req[s] /\ req[s].peer \in Peers
    BY <1>1, <1>3
  <2>2. CASE pc[s] = "sign_device"
    <3>1. CASE deviceKeys[req[s].peer].revoked
      BY <1>3, <2>2, <3>1, LateKept DEF DeviceTokenSound
    <3>2. CASE ~deviceKeys[req[s].peer].revoked
      BY <1>3, <2>1, <2>2, <3>2, NewlyRevoked
    <3> QED BY <3>1, <3>2
  <2>3. CASE pc[s] # "sign_device"
    BY <1>3, <2>1, <2>3, NewlyVerified
  <2> QED BY <2>2, <2>3
<1>4. DeviceTokenSound'
  BY <1>1, <1>3 DEF DeviceTokenSound
<1> QED BY <1>2, <1>4

-----------------------------------------------------------------------------
LEMMA IndStep == IndInv /\ [Next]_vars => IndInv'
BY TypeStep, VaultInvStep, InviteInvStep, DeviceInvStep DEF IndInv

LEMMA Invariance == Spec => []IndInv
BY IndInit, IndStep, PTL DEF Spec

\* Rows and requests stay well formed; in particular a retirement revokes
\* only keys that exist.
THEOREM AccessTypes == Spec => []TypeOK
BY Invariance, PTL DEF IndInv

\* However many register one vault at once, over HTTP and the CLI, and
\* whenever the row is upgraded: only holders of the stored secret get in.
THEOREM OnlyTheStoredSecret == Spec => []OneVaultKey
BY Invariance, PTL DEF IndInv, VaultInv

\* create_vault and the lazy upgrade never replace a secret.
THEOREM SecretNeverReplaced == Spec => VaultKeyKept
<1>1. IndInv /\ [Next]_vars =>
        [Registered => vault'.key = vault.key /\ (vault.form = "argon2" => vault' = vault)]_vars
  BY SecretKept DEF IndInv, VaultInv
<1> QED BY <1>1, Invariance, PTL DEF Spec, VaultKeyKept

\* The conditional UPDATE and the INSERT of redeem make an invite good for
\* one device, and a failed redemption leaves it unspent.
THEOREM InviteGoodForOne == Spec => []InviteOnce
BY Invariance, PTL DEF IndInv, InviteInv

\* verify, recheck, sign: device_auth honours every retirement that commits
\* before its recheck.
THEOREM RecheckHonoursRetirement == Spec => []DeviceTokenSound
BY Invariance, PTL DEF IndInv, DeviceInv

\* A revoked row stays, so the device never gets another key.
THEOREM RetirementIsFinal == Spec => RetiredStaysOut
<1>1. IndInv /\ [Next]_vars =>
        [\A p \in Peers : deviceKeys[p].revoked => deviceKeys'[p] = deviceKeys[p]]_vars
  BY KeyRows DEF IndInv
<1> QED BY <1>1, Invariance, PTL DEF Spec, RetiredStaysOut
=============================================================================
