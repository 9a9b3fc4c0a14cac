---------------------------- MODULE MCParamRpc -----------------------------
(* ParamRpc with a parameter of each sort: with a key, with an effect, read *)
(* from elsewhere than written, in memory, computed, read-only, without a   *)
(* key, known to one standard only.                                         *)
EXTENDS ParamRpc

MCParam == {"PeriodicInformInterval", "DNSServer0Real", "DNSServer1Real",
            "PingDiagState", "SpeedTestEnable", "PacketLostTestEnable",
            "ManageSerURL", "STBID", "MACAddress", "UpTime", "UserID2",
            "AuthURLBackup", "BrowserURL2", "UserPassword"}
MCNoNameCu == {"AuthURLBackup"}
MCNoNameOther == {"UserID2", "BrowserURL2"}
MCTypeOf == [p \in MCParam |->
  CASE p = "PeriodicInformInterval" -> "unsignedInt"
    [] p \in {"SpeedTestEnable", "PacketLostTestEnable"} -> "boolean"
    [] OTHER -> "string"]
MCWritable == MCParam \ {"UpTime", "MACAddress", "STBID"}
MCInMemory == {"PingDiagState", "SpeedTestEnable", "PacketLostTestEnable"}
MCKeyOf == [p \in {"PeriodicInformInterval", "DNSServer0Real", "DNSServer1Real",
                   "ManageSerURL", "STBID", "MACAddress", "AuthURLBackup",
                   "UserPassword"} |-> p]
           @@ ("BrowserURL2" :> "AuthURLBackup")
MCFirstKey == "config:version"
MCConfigured == ("DNSServer0Real" :> "DNSServer0") @@ ("DNSServer1Real" :> "DNSServer1")
MCComputed == "UpTime" :> "1800"
MCPresetCu == {"ManageSerURL", "STBID", "AuthURLBackup", "BrowserURL2"}
MCPresetKey == {"ManageSerURL", "STBID", "AuthURLBackup"}
MCPresetCtc == {"ManageSerURL", "STBID", "AuthURLBackup"}
MCBelow == "Device.LAN." :> <<"DNSServer0Real", "DNSServer1Real", "PingDiagState">>
MCKey == Range(MCKeyOf) \cup Range(MCConfigured)
         \cup {MCFirstKey, "LocalManageServerUrl"}
MCVal == {"", "true", "false", "60", "-1", "1800", "a", "00..60", "00.."}
\* 300 zeros and 60, for which no key has room; and the first 255 of them.
MCFits == [k \in MCKey |-> MCVal \ {"00..60", "00.."}]
MCCut == [v \in MCVal |-> IF v = "00..60" THEN "00.." ELSE v]
MCBoolText == {"true", "false"}
MCIntText == {"60", "-1", "1800", "00..60", "00.."}
MCNegText == {"-1"}

Files(local) == [k \in MCKey |->
  CASE k = "PeriodicInformInterval" -> "60"
    [] k = "LocalManageServerUrl" -> local
    [] OTHER -> ""]
MCFirstDisk == {Files(""), Files("a")}

E(name, value) == [form |-> "ok", name |-> name, value |-> value]
Bad(form) == [form |-> form, name |-> "", value |-> <<"">>]
Entries == {E("PeriodicInformInterval", <<v>>) : v \in {"60", "1800", "00..60"}}
           \cup {E("DNSServer0Real", <<"60">>), E("ManageSerURL", <<"a">>),
                 E("PacketLostTestEnable", <<"true">>)}
           \cup {E(DNSServers, v) : v \in {<<"a">>, <<"60", "a">>, <<"60", "00..60">>}}
Wrong == {E("PeriodicInformInterval", <<v>>) : v \in {"-1", "a"}}
         \cup {E("UpTime", <<"60">>), E("none", <<"60">>),
               Bad("malformed"), Bad("longName"), Bad("longValue")}
Alone == {E("PacketLostTestEnable", <<"false">>), E("UserID2", <<"a">>),
          E("PingDiagState", <<"00..60">>), E("ManageSerURL", <<"00..60">>), E("SpeedTestEnable", <<"true">>)}
MCValueLists == {<<>>} \cup {<<e>> : e \in Entries \cup Wrong \cup Alone}
                \cup {<<e, f>> : e, f \in Entries}
                \cup {<<e, w>> : e \in {E("PingDiagState", <<"a">>),
                                        E("ManageSerURL", <<"a">>)} \cup Wrong, w \in Wrong}

A(name, value, meant) == [form |-> "ok", name |-> name, value |-> value, meant |-> meant]
BadA(form) == [form |-> form, name |-> "", value |-> <<0>>, meant |-> TRUE]
AEntries == {A("ManageSerURL", <<v>>, m) : v \in 0 .. 2, m \in BOOLEAN}
            \cup {A(DNSServers, <<1, 0>>, TRUE), A("PingDiagState", <<2>>, TRUE),
                 A("BrowserURL2", <<0>>, TRUE)}
MCAttributeLists == {<<e>> : e \in AEntries} \cup {<<e, f>> : e, f \in AEntries}
  \cup {<<e, w>> : e \in AEntries, w \in {A("ManageSerURL", <<9>>, TRUE), A("UpTime", <<1>>, FALSE),
                                          A("none", <<1>>, TRUE), BadA("malformed")}}
  \cup {<<A("none", <<1>>, TRUE), BadA("malformed")>>}
MCPasswords == {"UserPassword"}
MCNameLists == {<<"STBID", "UserPassword">>, <<"Device.LAN.", DNSServers>>, <<"none", "UpTime">>}
=============================================================================
