---------------------------- MODULE MCCatalogue ----------------------------
(* A behaviour is one of Catalogue or of Vault, which share nothing: the     *)
(* other one has nothing to spend.                                           *)
(* Catalogue: two accounts; three encodings in a chain, the middle one alike *)
(* to both ends and the ends not to each other, and an excerpt of all three. *)
(* Vault: two devices.                                                       *)
EXTENDS Catalogue, Vault, TLC
CONSTANTS t1, t2, t3, t4, s1, s2, s3, s4, A, B, x, y, z
CONSTANTS c1, c2, d1, d2, u, v
Twins == {{c1, c2}, {d1, d2}}
Other(k) == CHOOSE l \in UNION Twins : l # k /\ {k, l} \in Twins
Symmetry ==
  {[k \in UNION Twins |-> IF swapped THEN Other(k) ELSE k] :
     swapped \in BOOLEAN}
MCSound ==
  [t \in {t1, t2, t3, t4} |->
     CASE t = t1 -> <<1, 2, 3, 4, 5, 6, 7, 8, 9>>
       [] t = t2 -> <<1, 2, 3, 4, 5, 6, 7, 8, 10>>
       [] t = t3 -> <<1, 2, 3, 4, 5, 6, 7, 10, 11>>
       [] t = t4 -> <<1, 2, 3, 4, 5, 6>>]
MCLength == [t \in {t1, t2, t3, t4} |-> IF t = t4 THEN 1 ELSE 2]
MCModel == [t \in {t1, t2, t3, t4} |-> 1]
MCNorm == [s \in {s1, s2, s3, s4} |->
             IF s = s4 THEN Nobody ELSE IF s = s3 THEN B ELSE A]
MCPublished ==
  {[take |-> t1, name |-> s1, words |-> FALSE, credit |-> TRUE, source |-> TRUE],
   [take |-> t2, name |-> s3, words |-> TRUE, credit |-> TRUE, source |-> FALSE],
   [take |-> t2, name |-> Nobody, words |-> TRUE, credit |-> FALSE,
    source |-> TRUE],
   [take |-> t3, name |-> s2, words |-> FALSE, credit |-> FALSE,
    source |-> FALSE],
   [take |-> t4, name |-> s4, words |-> FALSE, credit |-> FALSE,
    source |-> TRUE]}
MCAsked == {[name |-> s2, known |-> TRUE], [name |-> s3, known |-> FALSE],
            [name |-> s4, known |-> FALSE]}
MCPlayed == {[s \in {x, y, z} |-> IF s = x THEN 2 ELSE IF s = y THEN 1 ELSE 0]}
Nothing == [p \in Parts |-> 0]
MCBudgets ==
  {Nothing,
   [Nothing EXCEPT !["publishes"] = 3],
   [Nothing EXCEPT !["publishes"] = 2, !["crashes"] = 1],
   [Nothing EXCEPT !["publishes"] = 2, !["pulls"] = 2, !["seconds"] = 1],
   [Nothing EXCEPT !["publishes"] = 2, !["follows"] = 1, !["pulls"] = 1,
                   !["seconds"] = 1],
   [Nothing EXCEPT !["publishes"] = 1, !["follows"] = 2, !["pulls"] = 1,
                   !["seconds"] = 1],
   [Nothing EXCEPT !["plays"] = 3, !["charts"] = 1, !["days"] = 4],
   [Nothing EXCEPT !["plays"] = 1, !["charts"] = 1, !["vectors"] = 3,
                   !["settings"] = 2],
   [Nothing EXCEPT !["vectors"] = 5, !["similar"] = 1]}

MCInit ==
  /\ Init /\ VaultInit /\ phrase = u
  /\ calls = IF left = Nothing THEN MaxCalls ELSE 0

InCatalogue == UNCHANGED vaultVars
InVault == UNCHANGED vars
MCNext ==
  \/ \E c \in Clients :
       \/ (CallPublish(c) /\ InCatalogue) \/ (Entry(c) /\ InCatalogue)
       \/ (Match(c) /\ InCatalogue) \/ (File(c) /\ InCatalogue)
       \/ (FileSource(c) /\ InCatalogue) \/ (ReadName(c) /\ InCatalogue)
       \/ (Upsert(c) /\ InCatalogue) \/ (Link(c) /\ InCatalogue)
       \/ (CallFollow(c) /\ InCatalogue) \/ (Follow(c) /\ InCatalogue)
       \/ (Unfollow(c) /\ InCatalogue) \/ (Pull(c) /\ InCatalogue)
       \/ (Watch(c) /\ InCatalogue) \/ (CallPlays(c) /\ InCatalogue)
       \/ (Count(c) /\ InCatalogue) \/ (CallChart(c) /\ InCatalogue)
       \/ (ReadTracks(c) /\ InCatalogue) \/ (ReadRanks(c) /\ InCatalogue)
       \/ (PopularTracks(c) /\ InCatalogue) \/ (Agree(c) /\ InCatalogue)
       \/ (Submit(c) /\ InCatalogue) \/ (Similar(c) /\ InCatalogue)
  \/ (Toggle /\ InCatalogue) \/ (Second /\ InCatalogue)
  \/ (Midnight /\ InCatalogue) \/ (Restart /\ InCatalogue)
  \/ \E d \in Phones :
       \/ (CallSignIn(d) /\ InVault) \/ (Verify(d) /\ InVault)
       \/ (VaultEnvelope(d) /\ InVault) \/ (Mint(d) /\ InVault)
       \/ (Fetch(d) /\ InVault) \/ (CallEnrol(d) /\ InVault)
       \/ (EnrolVaultKey(d) /\ InVault) \/ (CallChange(d) /\ InVault)
       \/ (VerifyCurrent(d) /\ InVault) \/ (ChangePassphrase(d) /\ InVault)
       \/ (RevokeAll(d) /\ InVault) \/ (UpsertSettings(d) /\ InVault)
       \/ (PutBackup(d) /\ InVault) \/ (StoreVaultBackup(d) /\ InVault)
       \/ (DeleteVaultBackup(d) /\ InVault)
  \/ (Turn /\ InVault) \/ (Reboot /\ InVault)

MCSpec == MCInit /\ [][MCNext]_<<vars, vaultVars>>
=============================================================================
