------------------------------ MODULE DialCall ------------------------------
(***************************************************************************)
(* How one host is dialled: the chain of RAS calls in ConnectionVPN,       *)
(* ConnectionVPNXP, ConnectionL2tpVPN and ConnectionL2tpVPNXP, which write *)
(* the phonebook conf.yvpn before they dial, and the settings they use,    *)
(* m_Config, kept in yvpn.conf by ReadConfig and SaveConfig.               *)
(*                                                                         *)
(* Every RAS call and every write to yvpn.conf may fail, the process may   *)
(* end between any two of them, and phonebook and yvpn.conf outlive it.    *)
(***************************************************************************)
EXTENDS Naturals

CONSTANTS
  Addrs,    \* addresses of the host, each with its kind of encryption
  Secrets,  \* passwords and pre-shared keys
  Dns,      \* DNS servers
  Default,  \* the settings ReadConfig takes for keys yvpn.conf does not have
  Missing   \* a key or a phonebook item that is not there

Keys == {"dns1", "dns2", "mode"}
Values(k) == IF k = "mode" THEN {0, 1} ELSE Dns
Config == {c \in [Keys -> Dns \cup {0, 1}] : \A k \in Keys : c[k] \in Values(k)}

ASSUME DefaultAssumption == Default \in Config
ASSUME MissingAssumption == Missing \notin Dns \cup {0, 1} \cup Secrets

VARIABLES
  xp,        \* m_bXp
  info,      \* the INFO of the host
  config,    \* m_Config
  file,      \* section NETWORK of yvpn.conf
  entry,     \* phonebook: the properties of YVPNConnect<id>
  password,  \* phonebook: its password
  key,       \* phonebook: its pre-shared key
  pc,        \* the call the UI thread makes next
  stale      \* history: a write of the current settings has failed

settings == <<config, file, stale>>
phonebook == <<entry, password, key>>
vars == <<xp, info, settings, phonebook, pc>>

Info == [addr : Addrs, pass : Secrets, key : Secrets, type : 0..1]
File == {f \in [Keys -> Dns \cup {0, 1, Missing}] :
           \A k \in Keys : f[k] \in Values(k) \cup {Missing}}
Calls == {"idle", "entry", "password", "key", "dial"} \cup Keys

L2tp == info.type = 1

\* The RASENTRY the four functions fill in.  Mode 0, the local one, leaves the
\* default route alone.
RasEntry ==
  [addr |-> info.addr,
   strategy |-> IF L2tp THEN "L2tpOnly" ELSE "PptpOnly",
   usesKey |-> L2tp,
   gateway |-> config["mode"] # 0,
   dns |-> <<config["dns1"], config["dns2"]>>]

TypeOK ==
  /\ xp \in BOOLEAN
  /\ info \in Info
  /\ config \in Config
  /\ file \in File
  /\ entry = Missing \/ entry \in
       [addr : Addrs, strategy : {"PptpOnly", "L2tpOnly"}, usesKey : BOOLEAN,
        gateway : BOOLEAN, dns : Dns \X Dns]
  /\ password \in Secrets \cup {Missing}
  /\ key \in Secrets \cup {Missing}
  /\ pc \in Calls
  /\ stale \in BOOLEAN

\* Mutant of ReadConfig: a key that is not there has no default.
ReadConfigAsItIs(f) == [k \in Keys |-> f[k]]

ReadConfig(f) == [k \in Keys |-> IF f[k] = Missing THEN Default[k] ELSE f[k]]

Init ==
  /\ xp \in BOOLEAN
  /\ info \in Info
  /\ file \in File
  /\ config = ReadConfig(file)
  /\ entry = Missing /\ password = Missing /\ key = Missing
  /\ pc = "idle"
  /\ stale = FALSE

-----------------------------------------------------------------------------
(* Dialling; "ok" is what the RAS call of the step returns.                *)

\* The click on a host that is not connected.
Connect ==
  /\ pc = "idle"
  /\ pc' = "entry"
  /\ UNCHANGED <<xp, info, settings, phonebook>>

SetEntryProperties(ok) ==
  /\ pc = "entry"
  /\ entry' = IF ok THEN RasEntry ELSE entry
  /\ pc' = IF ok THEN "password" ELSE "idle"
  /\ UNCHANGED <<xp, info, settings, password, key>>

\* User name and password.  For L2TP the result is not looked at, and except
\* on XP the mask passed is that of the pre-shared key.
SetCredentials(ok) ==
  /\ pc = "password"
  /\ password' = IF ok /\ (xp \/ ~L2tp) THEN info.pass ELSE password
  /\ key' = IF ok /\ ~xp /\ L2tp THEN info.pass ELSE key
  /\ pc' = IF L2tp THEN "key" ELSE IF ok THEN "dial" ELSE "idle"
  /\ UNCHANGED <<xp, info, settings, entry>>

\* Mutant of SetPreSharedKey: dials whatever the second call returns.
SetPreSharedKeyUnchecked(ok) ==
  /\ pc = "key"
  /\ key' = IF ok THEN info.key ELSE key
  /\ pc' = "dial"
  /\ UNCHANGED <<xp, info, settings, entry, password>>

SetPreSharedKey(ok) ==
  /\ pc = "key"
  /\ key' = IF ok THEN info.key ELSE key
  /\ pc' = IF ok THEN "dial" ELSE "idle"
  /\ UNCHANGED <<xp, info, settings, entry, password>>

\* RasDial reads the phonebook and returns; what becomes of the call is the
\* subject of VpnSession.
Dial ==
  /\ pc = "dial"
  /\ pc' = "idle"
  /\ UNCHANGED <<xp, info, settings, phonebook>>

\* The host is edited and saved between two dials.
Edit ==
  /\ pc = "idle"
  /\ info' \in Info
  /\ UNCHANGED <<xp, settings, phonebook, pc>>

-----------------------------------------------------------------------------
(* The settings.                                                           *)

\* save2btn: the page is copied to m_Config, then SaveConfig writes the keys.
SaveSettings ==
  /\ pc = "idle"
  /\ config' \in Config
  /\ stale' = FALSE
  /\ pc' = "dns1"
  /\ UNCHANGED <<xp, info, file, phonebook>>

\* Mutant of NextKey: SaveConfig stops before the mode.
NextKeyStopsEarly == [dns1 |-> "dns2", dns2 |-> "idle", mode |-> "idle"]

NextKey == [dns1 |-> "dns2", dns2 |-> "mode", mode |-> "idle"]

\* WritePrivateProfileString; its result is not looked at.
WriteKey(ok) ==
  /\ pc \in Keys
  /\ file' = IF ok THEN [file EXCEPT ![pc] = config[pc]] ELSE file
  /\ stale' = (stale \/ ~ok)
  /\ pc' = NextKey[pc]
  /\ UNCHANGED <<xp, info, config, phonebook>>

\* The process ends, at any point, and is started again.
Restart ==
  /\ config' = ReadConfig(file)
  /\ stale' = FALSE
  /\ pc' = "idle"
  /\ UNCHANGED <<xp, info, file, phonebook>>

Next ==
  \/ Connect \/ Dial \/ Edit \/ SaveSettings \/ Restart
  \/ \E ok \in BOOLEAN : \/ SetEntryProperties(ok)
                         \/ SetCredentials(ok)
                         \/ SetPreSharedKey(ok)
                         \/ WriteKey(ok)

Spec == Init /\ [][Next]_vars

-----------------------------------------------------------------------------
(* Properties.                                                             *)

\* When RasDial is called, the phonebook holds what this host and the settings
\* in force ask for and nothing an earlier dial, edit, failure or run has left
\* there: the entry, for L2TP the pre-shared key although the call before wrote
\* the password in its place, for PPTP the password.
DialsWhatIsShown ==
  pc = "dial" =>
    /\ entry = RasEntry
    /\ IF L2tp THEN key = info.key ELSE password = info.pass

\* Outside SaveConfig, a restart dials with the settings the window dials with
\* now, unless a write of theirs has failed.
RestartKeepsSettings ==
  pc \notin Keys /\ ~stale => ReadConfig(file) = config
=============================================================================
