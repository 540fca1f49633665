--------------------------- MODULE DialCall_proof ---------------------------
(* What DialCall promises holds for any hosts, secrets and settings.       *)
EXTENDS DialCall, TLAPS

\* While the calls before RasDial are made, the entry is already the one of
\* this host; and while SaveConfig writes, the keys behind it are those of
\* m_Config unless one of the writes has failed.
DialInv ==
  /\ config \in Config /\ file \in File
  /\ pc \in Calls
  /\ pc \in {"password", "key", "dial"} => entry = RasEntry
  /\ pc = "key" => L2tp
  /\ pc = "dial" => IF L2tp THEN key = info.key ELSE password = info.pass
  /\ ~stale /\ pc \in {"dns2", "mode"} => file["dns1"] = config["dns1"]
  /\ ~stale /\ pc = "mode" => file["dns2"] = config["dns2"]
  /\ ~stale /\ pc \notin Keys => \A k \in Keys : ReadConfig(file)[k] = config[k]

\* A value of the file that is one of the key's is read as it is.
LEMMA ReadsBack ==
  ASSUME NEW f \in File, NEW k \in Keys, f[k] \in Values(k)
  PROVE  ReadConfig(f)[k] = f[k]
  BY MissingAssumption DEF ReadConfig, Values, Keys

\* With its defaults ReadConfig always returns complete settings.
LEMMA ReadConfigType ==
  ASSUME NEW f \in File
  PROVE  ReadConfig(f) \in Config
<1>1. \A k \in Keys : ReadConfig(f)[k] \in Values(k)
  BY DefaultAssumption DEF ReadConfig, File, Config
<1>2. \A k \in Keys : Values(k) \subseteq Dns \cup {0, 1}
  BY DEF Values
<1> QED  BY <1>1, <1>2 DEF ReadConfig, Config

\* The invariant holds after the first ReadConfig.
LEMMA DialInvInit == Init => DialInv
<1> SUFFICES ASSUME Init PROVE DialInv
  OBVIOUS
<1>1. config \in Config
  BY ReadConfigType DEF Init
<1> QED  BY <1>1 DEF Init, DialInv, Calls, Keys

\* No RAS call, write, failure or restart breaks the invariant.
LEMMA DialInvNext == DialInv /\ [Next]_vars => DialInv'
<1> SUFFICES ASSUME DialInv, [Next]_vars PROVE DialInv'
  OBVIOUS
<1> USE DEF DialInv, Calls, Keys
<1>1. CASE UNCHANGED vars
  BY <1>1 DEF vars, settings, phonebook, RasEntry, L2tp, ReadConfig
<1>2. CASE Connect
  BY <1>2 DEF Connect, settings, phonebook, RasEntry, L2tp, ReadConfig
<1>3. CASE Dial
  BY <1>3 DEF Dial, settings, phonebook, RasEntry, L2tp, ReadConfig
<1>4. CASE Edit
  BY <1>4 DEF Edit, settings, phonebook, RasEntry, L2tp, ReadConfig
<1>5. CASE SaveSettings
  BY <1>5 DEF SaveSettings, settings, phonebook, RasEntry, L2tp, ReadConfig
<1>6. CASE Restart
  BY <1>6, ReadConfigType DEF Restart, settings, phonebook, RasEntry, L2tp
<1>7. ASSUME NEW ok \in BOOLEAN, SetEntryProperties(ok) PROVE DialInv'
  BY <1>7 DEF SetEntryProperties, settings, phonebook, RasEntry, L2tp, ReadConfig
<1>8. ASSUME NEW ok \in BOOLEAN, SetCredentials(ok) PROVE DialInv'
  BY <1>8 DEF SetCredentials, settings, phonebook, RasEntry, L2tp, ReadConfig
<1>9. ASSUME NEW ok \in BOOLEAN, SetPreSharedKey(ok) PROVE DialInv'
  BY <1>9 DEF SetPreSharedKey, settings, phonebook, RasEntry, L2tp, ReadConfig
<1>10. ASSUME NEW ok \in BOOLEAN, WriteKey(ok) PROVE DialInv'
  <2>1. pc \in Keys /\ config' = config /\ config \in Config
    BY <1>10 DEF WriteKey, settings
  <2>2. config[pc] \in Values(pc)
    BY <2>1 DEF Config
  <2>3. file' = file \/ file' = [file EXCEPT ![pc] = config[pc]]
    BY <1>10 DEF WriteKey
  <2>4. file' \in File
    <3>1. Values(pc) \subseteq Dns \cup {0, 1}
      BY DEF Values
    <3> QED  BY <2>1, <2>2, <2>3, <3>1 DEF File
  <2>5. pc' = NextKey[pc] /\ pc' \in {"dns2", "mode", "idle"}
    BY <1>10 DEF WriteKey, NextKey
  <2>6. ~stale' => ~stale /\ file' = [file EXCEPT ![pc] = config[pc]]
    BY <1>10 DEF WriteKey
  <2>7. ~stale' /\ pc' \in {"dns2", "mode"} => file'["dns1"] = config["dns1"]
    BY <2>1, <2>5, <2>6 DEF NextKey, File
  <2>8. ~stale' /\ pc' = "mode" => file'["dns2"] = config["dns2"]
    BY <2>1, <2>5, <2>6 DEF NextKey, File
  <2>9. ~stale' /\ pc' \notin Keys =>
          \A k \in Keys : ReadConfig(file')[k] = config[k]
    <3> SUFFICES ASSUME ~stale', pc' \notin Keys, NEW k \in Keys
                 PROVE  ReadConfig(file')[k] = config[k]
      OBVIOUS
    <3>1. pc = "mode"
      BY <2>1, <2>5 DEF NextKey
    <3>2. file'[k] = config[k]
      BY <2>1, <2>6, <3>1 DEF File
    <3> QED  BY <2>1, <2>4, <3>2, ReadsBack DEF Config
  <2> QED
    BY <1>10, <2>1, <2>4, <2>5, <2>7, <2>8, <2>9 DEF WriteKey, phonebook
<1> QED
  BY <1>1, <1>2, <1>3, <1>4, <1>5, <1>6, <1>7, <1>8, <1>9, <1>10 DEF Next

\* Whatever earlier dials, edits, failures and runs have left in the phonebook,
\* RasDial finds the entry, key or password of this host and of the settings in
\* force.
THEOREM DialAlwaysAsShown == Spec => []DialsWhatIsShown
<1>1. DialInv => DialsWhatIsShown
  BY DEF DialInv, DialsWhatIsShown
<1> QED  BY <1>1, DialInvInit, DialInvNext, PTL DEF Spec

\* A restart reads back the settings in force unless one of their writes has
\* failed, for any defaults and any contents of yvpn.conf to begin with.
THEOREM SettingsSurviveRestart == Spec => []RestartKeepsSettings
<1>1. DialInv => RestartKeepsSettings
  <2> SUFFICES ASSUME DialInv, pc \notin Keys, ~stale
               PROVE  ReadConfig(file) = config
    BY DEF RestartKeepsSettings
  <2>1. \A k \in Keys : ReadConfig(file)[k] = config[k]
    BY DEF DialInv
  <2> QED  BY <2>1 DEF DialInv, ReadConfig, Config
<1> QED  BY <1>1, DialInvInit, DialInvNext, PTL DEF Spec

\* The keys of the settings have values of their kind.
LEMMA ConfigValues ==
  ASSUME config \in Config
  PROVE  config["mode"] \in {0, 1} /\ config["dns1"] \in Dns /\ config["dns2"] \in Dns
  BY DEF Config, Keys, Values

\* The entry the four functions fill in is a record of the phonebook.
LEMMA EntryType ==
  ASSUME config \in Config, info \in Info
  PROVE  RasEntry \in [addr : Addrs, strategy : {"PptpOnly", "L2tpOnly"}, usesKey : BOOLEAN,
                       gateway : BOOLEAN, dns : Dns \X Dns]
<1>1. info.addr \in Addrs
  BY DEF Info
<1>2. (IF L2tp THEN "L2tpOnly" ELSE "PptpOnly") \in {"PptpOnly", "L2tpOnly"}
  OBVIOUS
<1>3. L2tp \in BOOLEAN /\ (config["mode"] # 0) \in BOOLEAN
  BY DEF L2tp
<1>4. <<config["dns1"], config["dns2"]>> \in Dns \X Dns
  BY ConfigValues
<1> QED  BY <1>1, <1>2, <1>3, <1>4, Zenon DEF RasEntry

\* No RAS call, write or restart takes a variable out of its type.
LEMMA TypeOKNext == TypeOK /\ DialInv /\ [Next]_vars => TypeOK'
<1> SUFFICES ASSUME TypeOK, DialInv, [Next]_vars PROVE TypeOK'
  OBVIOUS
<1>0. pc' \in Calls /\ config' \in Config /\ file' \in File
  BY DialInvNext DEF DialInv
<1> USE DEF TypeOK
<1>1. CASE UNCHANGED vars
  BY <1>0, <1>1 DEF vars, settings, phonebook
<1>2. CASE Connect \/ Dial
  BY <1>0, <1>2 DEF Connect, Dial, settings, phonebook
<1>3. CASE Edit
  BY <1>0, <1>3 DEF Edit, settings, phonebook
<1>4. CASE SaveSettings \/ Restart
  BY <1>0, <1>4 DEF SaveSettings, Restart, settings, phonebook
<1>5. ASSUME NEW ok \in BOOLEAN, SetEntryProperties(ok) PROVE TypeOK'
  <2>1. entry' = RasEntry \/ entry' = entry
    BY <1>5 DEF SetEntryProperties
  <2> HIDE DEF TypeOK
  <2>2. entry' = Missing \/ entry' \in
          [addr : Addrs, strategy : {"PptpOnly", "L2tpOnly"}, usesKey : BOOLEAN,
           gateway : BOOLEAN, dns : Dns \X Dns]
    BY <2>1, EntryType, Zenon DEF TypeOK
  <2>3. UNCHANGED <<xp, info, settings, password, key>>
    BY <1>5 DEF SetEntryProperties
  <2> QED  BY <1>0, <2>2, <2>3, Zenon DEF TypeOK, settings
<1>6. ASSUME NEW ok \in BOOLEAN, SetCredentials(ok) PROVE TypeOK'
  <2>1. info.pass \in Secrets
    BY DEF Info
  <2> QED  BY <1>0, <1>6, <2>1 DEF SetCredentials, settings
<1>7. ASSUME NEW ok \in BOOLEAN, SetPreSharedKey(ok) PROVE TypeOK'
  <2>1. info.key \in Secrets
    BY DEF Info
  <2> QED  BY <1>0, <1>7, <2>1 DEF SetPreSharedKey, settings
<1>8. ASSUME NEW ok \in BOOLEAN, WriteKey(ok) PROVE TypeOK'
  <2>1. stale' \in BOOLEAN
    BY <1>8 DEF WriteKey
  <2> QED  BY <1>0, <1>8, <2>1 DEF WriteKey, phonebook
<1> QED  BY <1>1, <1>2, <1>3, <1>4, <1>5, <1>6, <1>7, <1>8 DEF Next

\* Phonebook, settings and file hold what the functions put there, whatever failed.
THEOREM TypeCorrect == Spec => []TypeOK
<1>1. Init => TypeOK
  <2> SUFFICES ASSUME Init PROVE TypeOK
    OBVIOUS
  <2>1. config \in Config
    BY ReadConfigType DEF Init
  <2> QED  BY <2>1 DEF Init, TypeOK, Calls
<1>2. TypeOK /\ DialInv /\ [Next]_vars => TypeOK'
  BY TypeOKNext
<1> QED  BY <1>1, <1>2, DialInvInit, DialInvNext, PTL DEF Spec
=============================================================================
