------------------------------- MODULE Access -------------------------------
(***************************************************************************)
(* Who gets into one vault: registration and /auth/verify (src/lib.rs,     *)
(* src/db.rs), the operator CLI (src/cli.rs), invites and device keys      *)
(* (src/invites.rs), and the retirement of devices (src/lib.rs).           *)
(*                                                                         *)
(* A request is a sequence of queries and transactions; between two of     *)
(* them the database is free and Argon2 takes its time, so other requests, *)
(* the CLI in its own process, and the end of the request come in between. *)
(* Secrets are values that nobody guesses: a key verifies exactly if it is *)
(* the stored one.  A device key is named by the invite it was made for.   *)
(***************************************************************************)
CONSTANTS
    Requests,       \* requests and CLI commands in flight
    ApiKeys,        \* vault secrets that clients and the CLI come up with
    Invites,        \* invite tokens, each minted at most once
    Peers,          \* peer_ids
    Names,          \* device names
    None            \* SQL NULL or a missing row

ASSUME AccessAssumption ==
    None \notin ApiKeys \cup Invites \cup Peers \cup Names

VARIABLES
    vault,          \* the row of vaults: its secret and how that is stored
    invites,        \* invites[i]: the row of invite i
    deviceKeys,     \* deviceKeys[p]: the key p was given, and whether revoked
    peers,          \* peers[p]: the stored device name, or None
    pc, req,        \* the requests
    \* history variables
    told,           \* vault secrets whose holders were told they have access
    late            \* device_auths past their recheck when the device was retired

vars == <<vault, invites, deviceKeys, peers, pc, req, told, late>>

VaultRow == [key : ApiKeys \cup {None}, form : {"none", "plain", "argon2"}]
Registered == vault.form # "none"

\* An invite lives 15 minutes; redeem looks for it for a day, and then the
\* next mint removes it.
InviteRow == [age : {"unborn", "fresh", "expired", "dead", "gone"}, used : BOOLEAN]
KeyRow == [key : Invites \cup {None}, revoked : BOOLEAN]
NoKey == [key |-> None, revoked |-> FALSE]

VaultOps == {"verify", "register", "cli_create"}
Request == [op : VaultOps \cup {"none", "redeem", "device", "retire"},
            secret : ApiKeys \cup Invites \cup {None},
            peer : Peers \cup {None},
            name : Names \cup {None}]
NoReq == [op |-> "none", secret |-> None, peer |-> None, name |-> None]

PcValues == {"idle", "exists", "create", "stored", "upgrade", "sign",
             "lookup", "claim", "recheck", "sign_device", "get_peer", "retire"}

TypeOK ==
    /\ vault \in VaultRow
    /\ (vault.key = None) <=> (vault.form = "none")
    /\ invites \in [Invites -> InviteRow]
    /\ deviceKeys \in [Peers -> KeyRow]
    /\ peers \in [Peers -> Names \cup {None}]
    /\ pc \in [Requests -> PcValues]
    /\ req \in [Requests -> Request]
    /\ \A p \in Peers : deviceKeys[p].revoked => deviceKeys[p].key # None
    /\ told \subseteq ApiKeys
    /\ late \subseteq Requests

\* A new vault, or one from before secrets were hashed.
Init ==
    /\ vault \in {[key |-> None, form |-> "none"]} \cup [key : ApiKeys, form : {"plain"}]
    /\ invites = [i \in Invites |-> [age |-> "unborn", used |-> FALSE]]
    /\ deviceKeys = [p \in Peers |-> NoKey]
    /\ peers = [p \in Peers |-> None]
    /\ pc = [r \in Requests |-> "idle"]
    /\ req = [r \in Requests |-> NoReq]
    /\ told = {}
    /\ late = {}

rows == <<vault, invites, deviceKeys, peers>>

GoTo(r, l) == pc' = [pc EXCEPT ![r] = l] /\ UNCHANGED req

\* The request ends, answered or dropped.
Finish(r) ==
    /\ pc' = [pc EXCEPT ![r] = "idle"]
    /\ req' = [req EXCEPT ![r] = NoReq]

Start(r, l, q) ==
    /\ pc[r] = "idle"
    /\ pc' = [pc EXCEPT ![r] = l]
    /\ req' = [req EXCEPT ![r] = q]
    /\ UNCHANGED <<rows, told, late>>

\* hyper drops the handler of a client that goes away; the CLI is killed.
Drop(r) ==
    /\ pc[r] # "idle"
    /\ Finish(r)
    /\ late' = late \ {r}
    /\ UNCHANGED <<rows, told>>

-----------------------------------------------------------------------------
(* The vault's own secret.                                                 *)

\* A "register" request brings the right admin token, a "verify" does not.
StartVault(r) ==
    \E o \in {"verify", "register"}, k \in ApiKeys :
        Start(r, "exists", [NoReq EXCEPT !.op = o, !.secret = k])

\* The admin token is looked at only when the vault does not exist.
VaultExists(r) ==
    /\ pc[r] = "exists"
    /\ IF Registered THEN GoTo(r, "stored")
        ELSE IF req[r].op = "register" THEN GoTo(r, "create") ELSE Finish(r)
    /\ UNCHANGED <<rows, told, late>>

\* vault_create of the CLI asks for no token, and makes up the secret itself
\* when the vault does not exist.
VaultCreate(r) ==
    /\ ~Registered
    /\ \E k \in ApiKeys : Start(r, "create", [NoReq EXCEPT !.op = "cli_create", !.secret = k])

CreateVaultReplaces(r) ==
    /\ pc[r] = "create"
    /\ vault' = [key |-> req[r].secret, form |-> "argon2"]
    /\ GoTo(r, "sign")
    /\ UNCHANGED <<invites, deviceKeys, peers, told, late>>

CreateVaultTrusts(r) ==
    /\ pc[r] = "create"
    /\ vault' = IF Registered THEN vault ELSE [key |-> req[r].secret, form |-> "argon2"]
    /\ GoTo(r, "sign")
    /\ UNCHANGED <<invites, deviceKeys, peers, told, late>>

\* INSERT OR IGNORE, after the secret was hashed.  The loser of a race tries
\* its secret against the winner's, but the CLI gives up.
CreateVault(r) ==
    /\ pc[r] = "create"
    /\ \/ /\ ~Registered
          /\ vault' = [key |-> req[r].secret, form |-> "argon2"]
          /\ GoTo(r, "sign")
       \/ /\ Registered
          /\ UNCHANGED vault
          /\ IF req[r].op = "cli_create" THEN Finish(r) ELSE GoTo(r, "stored")
    /\ UNCHANGED <<invites, deviceKeys, peers, told, late>>

\* verify_vault reads the row and compares; a plaintext row is upgraded.
VerifyVault(r) ==
    /\ pc[r] = "stored"
    /\ IF req[r].secret # vault.key THEN Finish(r)
        ELSE GoTo(r, IF vault.form = "plain" THEN "upgrade" ELSE "sign")
    /\ UNCHANGED <<rows, told, late>>

UpgradeVault(r) ==
    /\ pc[r] = "upgrade"
    /\ vault' = [key |-> req[r].secret, form |-> "argon2"]
    /\ GoTo(r, "sign")
    /\ UNCHANGED <<invites, deviceKeys, peers, told, late>>

SignVault(r) ==
    /\ pc[r] = "sign" /\ req[r].op # "cli_create"
    /\ told' = told \cup {req[r].secret}
    /\ Finish(r)
    /\ UNCHANGED <<rows, late>>

\* The CLI prints the secret it made up.
PrintSecret(r) ==
    /\ pc[r] = "sign" /\ req[r].op = "cli_create"
    /\ told' = told \cup {req[r].secret}
    /\ Finish(r)
    /\ UNCHANGED <<rows, late>>

-----------------------------------------------------------------------------
(* Invites and device keys.                                                *)

\* mint_invite, for the holder of a token or for the CLI, which has checked
\* that the vault exists: old rows go, a new one is made.
Mint(i) ==
    /\ Registered
    /\ invites[i].age = "unborn"
    /\ invites' = [j \in Invites |->
            CASE j = i -> [age |-> "fresh", used |-> FALSE]
              [] invites[j].age = "dead" -> [invites[j] EXCEPT !.age = "gone"]
              [] OTHER -> invites[j]]
    /\ UNCHANGED <<vault, deviceKeys, peers, pc, req, told, late>>

\* Time passes: 15 minutes, then a day.
InviteAges(i) ==
    /\ \/ invites[i].age = "fresh" /\ invites' = [invites EXCEPT ![i].age = "expired"]
       \/ invites[i].age = "expired" /\ invites' = [invites EXCEPT ![i].age = "dead"]
    /\ UNCHANGED <<vault, deviceKeys, peers, pc, req, told, late>>

StartRedeem(r) ==
    \E i \in Invites, p \in Peers :
        Start(r, "lookup", [NoReq EXCEPT !.op = "redeem", !.secret = i, !.peer = p])

RedeemLookup(r) ==
    /\ pc[r] = "lookup" /\ req[r].op = "redeem"
    /\ IF invites[req[r].secret].age \in {"fresh", "expired"} THEN GoTo(r, "claim") ELSE Finish(r)
    /\ UNCHANGED <<rows, told, late>>

ClaimableAgain(i) == invites[i].age = "fresh"

\* The WHERE clause of the conditional UPDATE.
Claimable(i) == invites[i].age = "fresh" /\ ~invites[i].used

RedeemReplaces(r) ==
    /\ pc[r] = "claim"
    /\ LET i == req[r].secret
           p == req[r].peer IN
        IF Claimable(i) /\ (deviceKeys[p].key = None \/ deviceKeys[p].revoked)
            THEN /\ invites' = [invites EXCEPT ![i].used = TRUE]
                 /\ deviceKeys' = [deviceKeys EXCEPT ![p] = [key |-> i, revoked |-> FALSE]]
            ELSE UNCHANGED <<invites, deviceKeys>>
    /\ Finish(r)
    /\ UNCHANGED <<vault, peers, told, late>>

\* One transaction: mark the invite used if it still can be, and insert the
\* key.  A peer that ever had a key violates the primary key, and the
\* transaction rolls back; so does one that finds the row gone.
RedeemClaim(r) ==
    /\ pc[r] = "claim"
    /\ LET i == req[r].secret
           p == req[r].peer IN
        IF Claimable(i) /\ deviceKeys[p].key = None
            THEN /\ invites' = [invites EXCEPT ![i].used = TRUE]
                 /\ deviceKeys' = [deviceKeys EXCEPT ![p] = [key |-> i, revoked |-> FALSE]]
            ELSE UNCHANGED <<invites, deviceKeys>>
    /\ Finish(r)
    /\ UNCHANGED <<vault, peers, told, late>>

StartDevice(r) ==
    \E i \in Invites, p \in Peers :
        Start(r, "lookup", [NoReq EXCEPT !.op = "device", !.secret = i, !.peer = p])

\* Read the key that is not revoked, and verify it with Argon2.
DeviceLookup(r) ==
    /\ pc[r] = "lookup" /\ req[r].op = "device"
    /\ IF deviceKeys[req[r].peer] = [key |-> req[r].secret, revoked |-> FALSE]
        THEN GoTo(r, "recheck") ELSE Finish(r)
    /\ UNCHANGED <<rows, told, late>>

RecheckSkipped(r) ==
    /\ pc[r] = "recheck"
    /\ GoTo(r, "sign_device")
    /\ UNCHANGED <<rows, told, late>>

\* ensure_not_revoked
Recheck(r) ==
    /\ pc[r] = "recheck"
    /\ IF deviceKeys[req[r].peer].key # None /\ ~deviceKeys[req[r].peer].revoked
        THEN GoTo(r, "sign_device") ELSE Finish(r)
    /\ UNCHANGED <<rows, told, late>>

SignDevice(r) ==
    /\ pc[r] = "sign_device"
    /\ Finish(r)
    /\ late' = late \ {r}
    /\ UNCHANGED <<rows, told>>

-----------------------------------------------------------------------------
(* Devices.                                                                *)

\* A WebSocket connection with any token of the vault: upsert_peer.  Peer
\* ids and names are what the client says they are.
Connect(p) ==
    /\ Registered
    /\ \E n \in Names : peers' = [peers EXCEPT ![p] = n]
    /\ UNCHANGED <<vault, invites, deviceKeys, pc, req, told, late>>

\* expire_stale_peers (Retention)
PeerExpires(p) ==
    /\ peers[p] # None
    /\ peers' = [peers EXCEPT ![p] = None]
    /\ UNCHANGED <<vault, invites, deviceKeys, pc, req, told, late>>

StartRetire(r) ==
    \E p \in Peers, n \in Names :
        Start(r, "get_peer", [NoReq EXCEPT !.op = "retire", !.peer = p, !.name = n])

\* An unknown peer, or another name than the stored one, ends it; the count
\* of tombstones that follows changes nothing.
GetPeer(r) ==
    /\ pc[r] = "get_peer"
    /\ IF peers[req[r].peer] = req[r].name THEN GoTo(r, "retire") ELSE Finish(r)
    /\ UNCHANGED <<rows, told, late>>

RetireUpserts(r) ==
    /\ pc[r] = "retire"
    /\ deviceKeys' = [deviceKeys EXCEPT ![req[r].peer].revoked = TRUE]
    /\ peers' = [peers EXCEPT ![req[r].peer] = None]
    /\ late' = late \cup {s \in Requests : pc[s] = "sign_device" /\ req[s].peer = req[r].peer}
    /\ Finish(r)
    /\ UNCHANGED <<vault, invites, told>>

\* One transaction: revoke the key, delete the peer.
Retire(r) ==
    /\ pc[r] = "retire"
    /\ LET p == req[r].peer IN
        /\ deviceKeys' = IF deviceKeys[p].key = None THEN deviceKeys
                         ELSE [deviceKeys EXCEPT ![p].revoked = TRUE]
        /\ peers' = [peers EXCEPT ![p] = None]
        /\ late' = late \cup {s \in Requests : pc[s] = "sign_device" /\ req[s].peer = p}
    /\ Finish(r)
    /\ UNCHANGED <<vault, invites, told>>

-----------------------------------------------------------------------------
VaultStep(r) ==
    \/ StartVault(r) \/ VaultCreate(r) \/ VaultExists(r) \/ CreateVault(r)
    \/ VerifyVault(r) \/ UpgradeVault(r) \/ SignVault(r) \/ PrintSecret(r)
DeviceStep(r) ==
    \/ StartRedeem(r) \/ RedeemLookup(r) \/ RedeemClaim(r)
    \/ StartDevice(r) \/ DeviceLookup(r) \/ Recheck(r) \/ SignDevice(r)
RetireStep(r) == StartRetire(r) \/ GetPeer(r) \/ Retire(r)

Next ==
    \/ \E r \in Requests : VaultStep(r) \/ DeviceStep(r) \/ RetireStep(r) \/ Drop(r)
    \/ \E i \in Invites : Mint(i) \/ InviteAges(i)
    \/ \E p \in Peers : Connect(p) \/ PeerExpires(p)

Spec == Init /\ [][Next]_vars

-----------------------------------------------------------------------------
(* Properties.                                                             *)

\* Of all who race to register a vault, over HTTP and the CLI, only holders
\* of the secret that is stored are told that they have access.
OneVaultKey == told \subseteq {vault.key}

\* A registered vault keeps its secret; the lazy upgrade, which writes after
\* a slow hash without looking again, may only change how it is stored.
VaultKeyKept ==
    [][Registered => vault'.key = vault.key /\ (vault.form = "argon2" => vault' = vault)]_vars

KeysOf(i) == {p \in Peers : deviceKeys[p].key = i}

\* However redemptions race, an invite gives at most one device a key, and
\* it is spent exactly if it did: a redemption that fails leaves it usable.
InviteOnce ==
    \A i \in Invites :
        /\ \A p, q \in KeysOf(i) : p = q
        /\ invites[i].used <=> KeysOf(i) # {}

\* device_auth signs only for the key the device was given, and for a
\* retired device only if it was past its recheck when that committed.
DeviceTokenSound ==
    \A r \in Requests : pc[r] = "sign_device" =>
        /\ deviceKeys[req[r].peer].key = req[r].secret
        /\ deviceKeys[req[r].peer].revoked => r \in late

\* Retirement is final: the key stays revoked, and the peer_id never gets
\* another one.
RetiredStaysOut ==
    [][\A p \in Peers : deviceKeys[p].revoked => deviceKeys'[p] = deviceKeys[p]]_vars
=============================================================================
