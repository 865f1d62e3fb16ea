------------------------------- MODULE Vault -------------------------------
(***************************************************************************)
(* What the devices of one account seal and the server keeps without being *)
(* able to open it: the account's vault key, sealed under its passphrase   *)
(* (db_identity/vault.rs, schema/security.rs, db_identity/accounts.rs),    *)
(* and under that key the settings that are synced (db/settings.rs) and    *)
(* the backups (db_vault.rs, vault_http.rs, schema_vault.rs).              *)
(*                                                                         *)
(* A handler is a chain of statements, each with its own hold of the       *)
(* database.  A key is known by the device that generated it, a sealed     *)
(* thing by what it is sealed under.  How a device treats its key is not   *)
(* in the server: it generates one when it signs in and there is none,     *)
(* uses it once it knows that it was enrolled, and seals it again when it  *)
(* changes the passphrase.  The second factor and the limits of a sign-in  *)
(* are in Identity, what a label may say is left out.  Two readings of the *)
(* clock differ, and the clock does not go back.                           *)
(***************************************************************************)
EXTENDS Integers, FiniteSets

CONSTANTS
  Phones,       \* the devices of the account
  NoKey,        \* no device
  Phrases,      \* passphrases
  Keep,         \* KEEP_PER_ACCOUNT
  MaxCalls      \* bound: calls, restarts and turns of the switch in all

ASSUME VaultAssumption ==
  /\ NoKey \notin Phones /\ Phrases # {}
  /\ Keep \in Nat \ {0} /\ MaxCalls \in Nat

VARIABLES
  phrase,       \* users.passphrase_hash
  envelope,     \* users.vault_key_wrapped: the key, and under which phrase
  settings,     \* synced_settings.settings_blob: the key it is sealed under
  backups,      \* vault_backups
  switch,       \* Feature::CloudBackups
  signedIn,     \* devices whose token is live
  typed,        \* the passphrase every device last signed in with
  holds,        \* the vault key every device has
  handler,      \* the call every device is in
  instant,      \* readings of the clock so far
  calls,        \* calls left
  accepted,     \* history: backups that were answered with 201
  deleted,      \* history: backups an account's device had removed
  strayed       \* history: an enrolment or a change of passphrase landed
                \* that had been made without knowing of the other

server == <<phrase, envelope, settings, backups, switch, signedIn, instant>>
client == <<typed, holds>>
history == <<accepted, deleted, strayed>>
vaultVars == <<server, client, handler, calls, history>>

NoEnvelope == [key |-> NoKey, phrase |-> NoKey]
Resting == [op |-> "none", at |-> "none", old |-> NoKey, new |-> NoKey,
            found |-> NoEnvelope, stamp |-> 0]
In(d, op, step) == handler[d].op = op /\ handler[d].at = step
Step(d, h) == handler' = [handler EXCEPT ![d] = h]
Enter(d, step) == Step(d, [handler[d] EXCEPT !.at = step])
Leave(d) == Step(d, Resting)
Counted(h, d) ==
  /\ calls > 0 /\ calls' = calls - 1
  /\ handler[d] = Resting /\ Step(d, h)
Bearer(d) == d \in signedIn

(* Signing in: the passphrase is verified, then the envelope is read, then *)
(* the token is minted, and the device opens what it was handed with it.   *)
CallSignIn(d) ==
  /\ Counted([Resting EXCEPT !.op = "sign in", !.at = "verify",
                             !.old = phrase], d)
  /\ UNCHANGED <<server, client, history>>

Verify(d) ==
  /\ In(d, "sign in", "verify")
  /\ IF handler[d].old = phrase THEN Enter(d, "envelope") ELSE Leave(d)
  /\ UNCHANGED <<server, client, calls, history>>

(* vault_envelope *)
VaultEnvelope(d) ==
  /\ In(d, "sign in", "envelope")
  /\ Step(d, [handler[d] EXCEPT !.at = "mint", !.found = envelope])
  /\ UNCHANGED <<server, client, calls, history>>

Mint(d) ==
  /\ In(d, "sign in", "mint")
  /\ signedIn' = signedIn \cup {d}
  /\ typed' = [typed EXCEPT ![d] = handler[d].old]
  /\ holds' = IF handler[d].found.phrase = handler[d].old
              THEN [holds EXCEPT ![d] = handler[d].found.key] ELSE holds
  /\ Leave(d)
  /\ UNCHANGED <<phrase, envelope, settings, backups, switch, instant, calls,
                 history>>

(* vaultKeyEnvelope, for a device that has no key: the account's owner     *)
(* types the passphrase that opens it                                      *)
Fetch(d) ==
  /\ calls > 0 /\ calls' = calls - 1
  /\ Bearer(d) /\ holds[d] = NoKey /\ handler[d] = Resting
  /\ holds' = [holds EXCEPT ![d] = envelope.key]
  /\ UNCHANGED <<server, typed, handler, history>>

(* enrolVaultKey, sent by a device that signed in and has no key           *)
CallEnrol(d) ==
  /\ Bearer(d) /\ typed[d] # NoKey /\ holds[d] = NoKey
  /\ Counted([Resting EXCEPT !.op = "enrol", !.at = "enrol",
                             !.new = typed[d]], d)
  /\ UNCHANGED <<server, client, history>>

(* A bug: the last to enrol wins. *)
Enrolled_Mutant(sealed) == sealed

(* WHERE vault_key_wrapped IS NULL *)
Enrolled(sealed) == IF envelope = NoEnvelope THEN sealed ELSE envelope

(* enrol_vault_key.  The answer may be lost, and with it that the key is   *)
(* the account's.                                                          *)
EnrolVaultKey(d) ==
  /\ In(d, "enrol", "enrol")
  /\ envelope' = Enrolled([key |-> d, phrase |-> handler[d].new])
  /\ holds' \in {holds, [holds EXCEPT ![d] = IF envelope = NoEnvelope
                                             THEN d ELSE NoKey]}
  /\ strayed' = IF envelope = NoEnvelope /\ handler[d].new # phrase
                THEN TRUE ELSE strayed
  /\ Leave(d)
  /\ UNCHANGED <<phrase, settings, backups, switch, signedIn, instant, typed,
                 calls, accepted, deleted>>

(* changePassphrase: both halves of the envelope or neither *)
CallChange(d) ==
  \E p \in Phrases \ {phrase} :
    /\ Bearer(d)
    /\ Counted([Resting EXCEPT !.op = "change", !.at = "verify",
                  !.old = phrase, !.new = p,
                  !.found = IF holds[d] = NoKey THEN NoEnvelope
                            ELSE [key |-> holds[d], phrase |-> p]], d)
    /\ UNCHANGED <<server, client, history>>

(* change_passphrase: the one it knows is verified under a hold of its own *)
VerifyCurrent(d) ==
  /\ In(d, "change", "verify")
  /\ IF handler[d].old = phrase THEN Enter(d, "write") ELSE Leave(d)
  /\ UNCHANGED <<server, client, calls, history>>

Resealed(sealed) == IF sealed = NoEnvelope THEN envelope ELSE sealed

(* the passphrase and the envelope in one transaction *)
ChangePassphrase(d) ==
  /\ In(d, "change", "write")
  /\ phrase' = handler[d].new
  /\ envelope' = Resealed(handler[d].found)
  /\ strayed' = IF handler[d].found = NoEnvelope /\ envelope # NoEnvelope
                THEN TRUE ELSE strayed
  /\ Enter(d, "revoke")
  /\ UNCHANGED <<settings, backups, switch, signedIn, instant, client, calls,
                 accepted, deleted>>

(* revoke_all_tokens, whose failure is not looked at *)
RevokeAll(d) ==
  /\ In(d, "change", "revoke")
  /\ signedIn' \in {{}, signedIn}
  /\ Leave(d)
  /\ UNCHANGED <<phrase, envelope, settings, backups, switch, instant, client,
                 calls, history>>

(* updateSyncedSettings: a blob takes the place of another *)
UpsertSettings(d) ==
  /\ calls > 0 /\ calls' = calls - 1
  /\ Bearer(d) /\ holds[d] # NoKey /\ handler[d] = Resting
  /\ settings' = holds[d]
  /\ UNCHANGED <<phrase, envelope, backups, switch, signedIn, instant, client,
                 handler, history>>

(* put_backup, behind the switch; the clock is read before the database is *)
(* taken                                                                   *)
PutBackup(d) ==
  /\ switch /\ Bearer(d) /\ holds[d] # NoKey
  /\ Counted([Resting EXCEPT !.op = "backup", !.at = "store",
                             !.stamp = instant + 1], d)
  /\ instant' = instant + 1
  /\ UNCHANGED <<phrase, envelope, settings, backups, switch, signedIn, client,
                 history>>

Newer(S, b) == {c \in S : c.at > b.at}

(* A bug: what was read before the newest came is kept. *)
Newest_Mutant(S) == {b \in S : Cardinality(S \ (Newer(S, b) \cup {b})) < Keep}

(* ORDER BY created_at DESC LIMIT KEEP_PER_ACCOUNT *)
Newest(S) == {b \in S : Cardinality(Newer(S, b)) < Keep}

(* store_vault_backup.  A backup that is trimmed in the transaction that   *)
(* stores it, as one that waited while newer ones came is, cannot be read  *)
(* back; the transaction is undone and the device told that it failed      *)
StoreVaultBackup(d) ==
  /\ In(d, "backup", "store")
  /\ LET new == [at |-> handler[d].stamp, key |-> holds[d]]
         kept == Newest(backups \cup {new})
     IN IF new \in kept
          THEN backups' = kept /\ accepted' = accepted \cup {new}
          ELSE UNCHANGED <<backups, accepted>>
  /\ Leave(d)
  /\ UNCHANGED <<phrase, envelope, settings, switch, signedIn, instant, client,
                 calls, deleted, strayed>>

(* deleteVaultBackup, with the switch on or off *)
DeleteVaultBackup(d) ==
  \E b \in backups :
    /\ calls > 0 /\ calls' = calls - 1
    /\ Bearer(d) /\ handler[d] = Resting
    /\ backups' = backups \ {b}
    /\ deleted' = deleted \cup {b}
    /\ UNCHANGED <<phrase, envelope, settings, switch, signedIn, instant,
                   client, handler, accepted, strayed>>

Turn ==
  /\ calls > 0 /\ calls' = calls - 1
  /\ switch' = ~switch
  /\ UNCHANGED <<phrase, envelope, settings, backups, signedIn, instant,
                 client, handler, history>>

(* The server restarts: what handlers had left to do is not done *)
Reboot ==
  /\ calls > 0 /\ calls' = calls - 1
  /\ handler' = [d \in Phones |-> Resting]
  /\ UNCHANGED <<server, client, history>>

VaultInit ==
  /\ phrase \in Phrases
  /\ envelope = NoEnvelope /\ settings = NoKey /\ backups = {} /\ switch = TRUE
  /\ signedIn = {} /\ instant = 0
  /\ typed = [d \in Phones |-> NoKey] /\ holds = typed
  /\ handler = [d \in Phones |-> Resting]
  /\ calls \in 0..MaxCalls
  /\ accepted = {} /\ deleted = {} /\ strayed = FALSE

VaultNext ==
  \/ \E d \in Phones :
       \/ CallSignIn(d) \/ Verify(d) \/ VaultEnvelope(d) \/ Mint(d) \/ Fetch(d)
       \/ CallEnrol(d) \/ EnrolVaultKey(d)
       \/ CallChange(d) \/ VerifyCurrent(d) \/ ChangePassphrase(d)
       \/ RevokeAll(d) \/ UpsertSettings(d)
       \/ PutBackup(d) \/ StoreVaultBackup(d) \/ DeleteVaultBackup(d)
  \/ Turn \/ Reboot

VaultSpec == VaultInit /\ [][VaultNext]_vaultVars

(***************************************************************************)
(* Properties.                                                             *)
(***************************************************************************)
VaultTypeOK ==
  /\ phrase \in Phrases
  /\ envelope \in {NoEnvelope} \cup [key : Phones, phrase : Phrases]
  /\ backups \subseteq [at : 1..instant, key : Phones]
  /\ signedIn \subseteq Phones /\ holds \in [Phones -> Phones \cup {NoKey}]

(* Whatever is sealed, on the server or yet to be sealed by a device, is   *)
(* sealed under the one key that was enrolled, however many devices found  *)
(* none and generated theirs (db_identity/vault.rs:31-34).                 *)
OneKey ==
  /\ \A d \in Phones : holds[d] \in {NoKey, envelope.key}
  /\ settings \in {NoKey, envelope.key}
  /\ \A b \in backups : b.key = envelope.key

(* The passphrase that signs a new device in opens the envelope it is      *)
(* handed, however changes of the passphrase cross each other and sign-ins *)
(* (schema/security.rs:160-170), unless one was changed by a device that   *)
(* did not know of the envelope, or the key was enrolled under a           *)
(* passphrase changed since the device signed in with it.                  *)
PassphraseOpens == envelope = NoEnvelope \/ strayed \/ envelope.phrase = phrase

(* What the devices of an account seal can be opened again by whoever      *)
(* signs in with its passphrase.                                           *)
KeyIsFoundAgain == VaultTypeOK /\ OneKey /\ PassphraseOpens

(* A backup the server said it keeps is there until it is deleted or as    *)
(* many newer ones were kept, however stores cross; and no more are kept   *)
(* (db_vault.rs:79-127).                                                   *)
BackupsAreKept ==
  /\ Cardinality(backups) <= Keep
  /\ \A b \in accepted \ backups :
       b \in deleted \/ Cardinality(Newer(accepted, b)) >= Keep
=============================================================================
