------------------------------- MODULE Secrets -------------------------------
(* Restricted encryption (secrets/service.py) over the macOS keychain.  The *)
(* wrapping key is made by the first probe that finds none; probes, sealing *)
(* and the replacement of a blob file are steps of their own, and nothing   *)
(* excludes another process between them.  A secret is known by its value,  *)
(* a blob by the key it is wrapped with and the nonce it was given.         *)
EXTENDS PlatformStore

CONSTANTS Plaintexts,       \* secrets that are encrypted
          MaxSecretCalls    \* bound of a behaviour

VARIABLES keychain,   \* the wrapping key in the keychain, 0 for none
          blobfile,   \* the blob under ops/encrypted
          approvedFor,    \* ids of blobs whose decryption was approved
          minted,     \* wrapping keys and nonces generated so far
          scall,      \* the call of each caller
          sbudget     \* bounds: calls, deaths

svars == <<keychain, blobfile, approvedFor, minted, scall, sbudget>>

NoBlob == [id |-> 0, under |-> 0, plain |-> "none", version |-> 0]
Blobs == [id : Nat, under : Nat, plain : Plaintexts \cup {"none"}, version : Nat]
SecIdle == [step |-> "idle", plain |-> "none", old |-> NoBlob, new |-> NoBlob]

SecretCalls == [step : {"idle", "probe", "add", "approve", "seal", "write"},
                plain : Plaintexts \cup {"none"}, old : Blobs, new : Blobs]

SecretTypeOK ==
    /\ keychain \in Nat /\ minted \in Nat /\ approvedFor \subseteq 1..minted
    /\ blobfile \in Blobs
    /\ scall \in [Callers -> SecretCalls]

SecretInit ==
    /\ keychain = 0 /\ blobfile = NoBlob /\ approvedFor = {} /\ minted = 0
    /\ scall = [c \in Callers |-> SecIdle]
    /\ sbudget = [calls |-> 0, deaths |-> 0]

-----------------------------------------------------------------------------
SecretCall(c, call) ==
    /\ scall[c] = SecIdle
    /\ sbudget.calls < MaxSecretCalls
    /\ sbudget' = [sbudget EXCEPT !.calls = @ + 1]
    /\ scall' = [scall EXCEPT ![c] = call]
    /\ UNCHANGED <<keychain, blobfile, approvedFor, minted>>

SecGo(c, step) == scall' = [scall EXCEPT ![c].step = step]
SecEnd(c) == scall' = [scall EXCEPT ![c] = SecIdle]

\* encrypt_to_path.
EncryptToPath(c, plain) == SecretCall(c, [SecIdle EXCEPT !.step = "probe", !.plain = plain])

\* _rotate_path reads the blob file first.
RotatePath(c) ==
    /\ blobfile # NoBlob
    /\ SecretCall(c, [SecIdle EXCEPT !.step = "probe", !.old = blobfile])

\* An approval names the blob by its id and hash.
ApproveDecrypt ==
    /\ blobfile # NoBlob /\ blobfile.id \notin approvedFor
    /\ approvedFor' = approvedFor \cup {blobfile.id}
    /\ UNCHANGED <<keychain, blobfile, minted, scall, sbudget>>

-----------------------------------------------------------------------------
\* MacOSKeychainProvider._probe: find the key, make it when there is none.
Probe(c) ==
    /\ scall[c].step = "probe"
    /\ SecGo(c, IF keychain = 0 THEN "add" ELSE IF scall[c].old # NoBlob THEN "approve" ELSE "seal")
    /\ UNCHANGED <<keychain, blobfile, approvedFor, minted, sbudget>>

\* A key that replaces the one in the keychain (add-generic-password -U).
KeyAccepted == TRUE

\* add-generic-password refuses an entry that exists: the provider is then
\* unavailable to this call.
KeyAbsent == keychain = 0

AddKey(c) ==
    /\ scall[c].step = "add"
    /\ IF KeyAbsent THEN /\ keychain' = minted + 1 /\ minted' = minted + 1 /\ SecGo(c, "probe")
                    ELSE SecEnd(c) /\ UNCHANGED <<keychain, minted>>
    /\ UNCHANGED <<blobfile, approvedFor, sbudget>>

\* _open: the data key unwraps under the key the provider gives now.
Opens(blob) == blob.under = keychain

\* decrypt: the approval is for this blob, and the blob opens.
Decrypt(c) ==
    LET old == scall[c].old IN
    /\ scall[c].step = "approve"
    /\ IF old.id \in approvedFor /\ Opens(old)
       THEN scall' = [scall EXCEPT ![c].step = "seal", ![c].plain = old.plain]
       ELSE SecEnd(c)
    /\ UNCHANGED <<keychain, blobfile, approvedFor, minted, sbudget>>

\* _encrypt: a fresh data key and nonce, wrapped with the provider's key; a
\* rotation counts the key version up.  The probe before it finds the key.
Sealed(c) == [id |-> minted + 1, under |-> keychain, plain |-> scall[c].plain, version |-> scall[c].old.version + 1]

\* A rotation opens its result again before it goes on.
Seal(c) ==
    /\ scall[c].step = "seal"
    /\ scall' = [scall EXCEPT ![c].step = "write", ![c].new = Sealed(c)]
    /\ minted' = minted + 1
    /\ UNCHANGED <<keychain, blobfile, approvedFor, sbudget>>

\* write_text_atomic replaces the file, whatever it holds by now.
WriteBlob(c) ==
    /\ scall[c].step = "write"
    /\ blobfile' = scall[c].new
    /\ SecEnd(c)
    /\ UNCHANGED <<keychain, approvedFor, minted, sbudget>>

SecretDies(c) ==
    /\ scall[c] # SecIdle
    /\ sbudget.deaths < MaxDeaths
    /\ sbudget' = [sbudget EXCEPT !.deaths = @ + 1]
    /\ SecEnd(c)
    /\ UNCHANGED <<keychain, blobfile, approvedFor, minted>>

SecretNext ==
    \/ ApproveDecrypt
    \/ \E c \in Callers :
        \/ \E plain \in Plaintexts : EncryptToPath(c, plain)
        \/ RotatePath(c) \/ Probe(c) \/ AddKey(c) \/ Decrypt(c) \/ Seal(c) \/ WriteBlob(c) \/ SecretDies(c)

-----------------------------------------------------------------------------
\* What was sealed can be opened (AVAILABLE "requires a proven keychain
\* round-trip"): the blob on disk and every blob about to be written is
\* wrapped with the key that is in the keychain, although two first calls may
\* both have found none.
BlobsOpen ==
    /\ blobfile # NoBlob => Opens(blobfile)
    /\ \A c \in Callers : scall[c].step = "write" => Opens(scall[c].new)

\* Nothing is read, sealed or on disk before there is a key.
KeyComesFirst ==
    keychain = 0 => /\ blobfile = NoBlob
                    /\ \A c \in Callers : scall[c].step \notin {"approve", "seal", "write"}

\* Blobs carry ids that were given out.
IdsMinted ==
    /\ blobfile = NoBlob \/ blobfile.id \in 1..minted
    /\ \A c \in Callers : scall[c].step = "write" => scall[c].new.id \in 1..minted

\* The inductive invariant behind BlobsOpen.
SecretInv == SecretTypeOK /\ BlobsOpen /\ KeyComesFirst /\ IdsMinted
=============================================================================
