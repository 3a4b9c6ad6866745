------------------------ MODULE InterfaceDNSProofs ------------------------
(***************************************************************************)
(* What SetDNS leaves behind, for any number of calls, servers and search  *)
(* lists: proofs of InterfaceDNS.                                          *)
(***************************************************************************)
EXTENDS InterfaceDNS, TLAPS

InRegistry == {"nameServer", "searchList", "notify"}

(* Where the goroutine in SetDNS is tells what it knows: no result yet,    *)
(* arguments that were accepted, a Windows without the system call.        *)
CallInv ==
  /\ pc \in {"dns"} \cup InRegistry => result = "none"
  /\ pc \in InRegistry => Accepted /\ ~api
  /\ result = "ok" => Accepted

(* The other family is left alone at every step.                           *)
OtherInv ==
  ~moved => \A f \in Families : f # args.family => store[f] = before[f]

(* How far the settings of the family have got: nothing is written before  *)
(* the key is open, then the servers, then the search list.                *)
ProgressInv ==
  ~moved /\ args.family \in Families =>
    LET now == store[args.family]
        old == before[args.family]
    IN  /\ pc \in {"dns", "nameServer"} => now = old
        /\ pc = "searchList" =>
             now.servers = args.servers /\ now.domains = old.domains
        /\ pc = "notify" => now = NewSetting
        /\ result = "ok" => now = NewSetting /\ (api => resolver = store)
        /\ result = "err" => /\ now.domains = old.domains
                             /\ api => now.servers = old.servers

Inv == TypeOK /\ CallInv /\ OtherInv /\ ProgressInv

(* The two registry values are written one at a time: each write changes   *)
(* one field of a setting.                                                 *)
LEMMA SettingFields ==
  ASSUME NEW s \in Setting
  PROVE  /\ \A v \in Lists :
              LET t == [s EXCEPT !.servers = v]
              IN  t \in Setting /\ t.servers = v /\ t.domains = s.domains
         /\ \A d \in Domains :
              LET t == [s EXCEPT !.domains = d]
              IN  t \in Setting /\ t.servers = s.servers /\ t.domains = d
         /\ s = [servers |-> s.servers, domains |-> s.domains]
BY DEF Setting

(* MibIPInterfaceRow.get returns a row that SetIpInterfaceEntry takes,     *)
(* whatever Windows gave it.                                               *)
LEMMA GetRowAccepted ==
  ASSUME NEW r \in MibIPInterfaceRow
  PROVE  LET q == [GetRow(r) EXCEPT !.mtu = "tunnel"]
         IN  q \in MibIPInterfaceRow /\ q.site <= MaxSite(q.family)
<1>1. CASE r.site > MaxSite(r.family)
  <2>1. GetRow(r) = [mtu |-> r.mtu, family |-> r.family,
                     site |-> IF r.family = "inet" THEN 0 ELSE 128]
    BY <1>1 DEF GetRow, MibIPInterfaceRow
  <2> QED
    BY <2>1 DEF MibIPInterfaceRow, MaxSite, MTUs, Families
<1>2. CASE ~(r.site > MaxSite(r.family))
  BY <1>2 DEF GetRow, MibIPInterfaceRow, MaxSite, MTUs, Families
<1> QED
  BY <1>1, <1>2

(* A machine on which nothing has been set satisfies Inv.                  *)
LEMMA InitInv == Init => Inv
<1> SUFFICES ASSUME Init PROVE Inv
  OBVIOUS
<1> USE DNSAssumption DEF Init
<1>1. TypeOK
  <2>1. api \in BOOLEAN
    OBVIOUS
  <2>2. Empty \in Setting
    BY DEF Empty, Setting
  <2>3. entry \in MibIPInterfaceRow
    BY DEF MibIPInterfaceRow, MTUs, Sites
  <2>4. args \in [family : Families \cup {"unspec"}, servers : Lists,
                  domains : Domains]
    OBVIOUS
  <2>5. /\ 0 \in 0 .. MaxCalls /\ 0 \in 0 .. MaxSize
        /\ 0 \in 0 .. MaxSize + InitialSize
    OBVIOUS
  <2>6. \A i \in DOMAIN args.servers : FamilyOf[args.servers[i]] = args.family
    OBVIOUS
  <2> QED
    BY <2>1, <2>2, <2>3, <2>4, <2>5, <2>6 DEF TypeOK
<1>2. CallInv /\ OtherInv /\ ProgressInv
  BY DEF CallInv, OtherInv, ProgressInv, InRegistry, Families
<1> QED
  BY <1>1, <1>2 DEF Inv

(* Every step of SetDNS, of the MTU change, of DNS and of the machine      *)
(* preserves Inv.                                                          *)
LEMMA StepInv == Inv /\ [Next]_vars => Inv'
<1> SUFFICES ASSUME Inv, [Next]_vars PROVE Inv'
  OBVIOUS
<1> USE DNSAssumption DEF Inv
<1>a. /\ store \in [Families -> Setting] /\ resolver \in [Families -> Setting]
      /\ before \in [Families -> Setting]
      /\ entry \in MibIPInterfaceRow /\ row \in MibIPInterfaceRow
  BY DEF TypeOK
<1>b. args.servers \in Lists /\ args.domains \in Domains
  BY DEF TypeOK
<1>c. NewSetting \in Setting /\ Empty \in Setting
  BY <1>b DEF NewSetting, Setting, Empty
<1>d. \A f \in Families :
        /\ [store[f] EXCEPT !.servers = args.servers] \in Setting
        /\ [store[f] EXCEPT !.domains = args.domains] \in Setting
  BY <1>a, <1>b, SettingFields
<1>1. ASSUME NEW f \in Families \cup {"unspec"}, NEW list \in Lists,
               NEW d \in Domains, SetDNS(f, list, d) PROVE Inv'
  <2>1. TypeOK'
    <3>1. api' \in BOOLEAN
      BY <1>1, Zenon DEF SetDNS, setter, reader, system, TypeOK
    <3>2. /\ args' \in [family : Families \cup {"unspec"}, servers : Lists,
                      domains : Domains]
          /\ args'.servers = Filter(f, list) /\ args'.family = f
      BY <1>1, FilterAssumption DEF SetDNS
    <3>3. \A i \in DOMAIN args'.servers :
            FamilyOf[args'.servers[i]] = args'.family
      BY <3>2, FilterAssumption
    <3> QED
      BY <1>1, <3>1, <3>2, <3>3, <1>a, <1>b, <1>c, <1>d
      DEF SetDNS, setter, reader, system, TypeOK
  <2>2. CallInv'
    BY <1>1 DEF SetDNS, setter, reader, system, CallInv, InRegistry, Accepted
  <2>3. OtherInv'
    BY <1>1, <1>a DEF SetDNS, setter, reader, system, OtherInv
  <2>4. ProgressInv'
    BY <1>1, <1>a
    DEF SetDNS, setter, reader, system, ProgressInv, CallInv, InRegistry,
        NewSetting, Accepted
  <2> QED
    BY <2>1, <2>2, <2>3, <2>4
<1>2. ASSUME SetDNSRefused PROVE Inv'
  <2>1. TypeOK'
    <3>1. api' \in BOOLEAN
      BY <1>2, Zenon
      DEF SetDNSRefused, Settings, Goes, Returns, setter, reader, system,
          TypeOK
    <3> QED
      BY <1>2, <3>1, <1>a, <1>b, <1>c, <1>d
      DEF SetDNSRefused, Settings, Goes, Returns, setter, reader, system,
          TypeOK
  <2>2. CallInv'
    BY <1>2
    DEF SetDNSRefused, Settings, Goes, Returns, setter, reader, system,
        CallInv, InRegistry, Accepted
  <2>3. OtherInv'
    BY <1>2, <1>a
    DEF SetDNSRefused, Settings, Goes, Returns, setter, reader, system,
        OtherInv
  <2>4. ProgressInv'
    BY <1>2, <1>a
    DEF SetDNSRefused, Settings, Goes, Returns, setter, reader, system,
        ProgressInv, CallInv, InRegistry,
        NewSetting, Accepted
  <2> QED
    BY <2>1, <2>2, <2>3, <2>4
<1>3. ASSUME SetInterfaceDnsSettings PROVE Inv'
  <2>0. args.family \in Families
    BY <1>3 DEF SetInterfaceDnsSettings, CallInv, InRegistry, Accepted
  <2>1. TypeOK'
    <3>1. api' \in BOOLEAN
      BY <1>3, Zenon
      DEF SetInterfaceDnsSettings, Settings, Goes, Returns, setter, reader,
          system, TypeOK
    <3> QED
      BY <1>3, <2>0, <3>1, <1>a, <1>b, <1>c, <1>d
      DEF SetInterfaceDnsSettings, Settings, Goes, Returns, setter, reader,
          system, TypeOK
  <2>2. CallInv'
    BY <1>3, <2>0
    DEF SetInterfaceDnsSettings, Settings, Goes, Returns, setter, reader,
        system, CallInv, InRegistry, Accepted
  <2>3. OtherInv'
    BY <1>3, <2>0, <1>a
    DEF SetInterfaceDnsSettings, Settings, Goes, Returns, setter, reader,
        system, OtherInv
  <2>4. ProgressInv'
    BY <1>3, <2>0, <1>a
    DEF SetInterfaceDnsSettings, Settings, Goes, Returns, setter, reader,
        system, ProgressInv, CallInv, InRegistry,
        NewSetting, Accepted
  <2> QED
    BY <2>1, <2>2, <2>3, <2>4
<1>4. ASSUME OpenKey PROVE Inv'
  <2>1. TypeOK'
    <3>1. api' \in BOOLEAN
      BY <1>4, Zenon
      DEF OpenKey, Settings, Goes, Returns, setter, reader, system, TypeOK
    <3> QED
      BY <1>4, <3>1, <1>a, <1>b, <1>c, <1>d
      DEF OpenKey, Settings, Goes, Returns, setter, reader, system, TypeOK
  <2>2. CallInv'
    BY <1>4
    DEF OpenKey, Settings, Goes, Returns, setter, reader, system, CallInv,
        InRegistry, Accepted
  <2>3. OtherInv'
    BY <1>4, <1>a
    DEF OpenKey, Settings, Goes, Returns, setter, reader, system, OtherInv
  <2>4. ProgressInv'
    BY <1>4, <1>a
    DEF OpenKey, Settings, Goes, Returns, setter, reader, system,
        ProgressInv, CallInv, InRegistry,
        NewSetting, Accepted
  <2> QED
    BY <2>1, <2>2, <2>3, <2>4
<1>5. ASSUME SetNameServer PROVE Inv'
  <2>0. args.family \in Families
    BY <1>5 DEF SetNameServer, CallInv, InRegistry, Accepted
  <2>n. LET t == [store[args.family] EXCEPT !.servers = args.servers]
        IN  t.servers = args.servers /\ t.domains = store[args.family].domains
    BY <2>0, <1>a, <1>b, SettingFields
  <2>1. TypeOK'
    <3>1. api' \in BOOLEAN
      BY <1>5, Zenon
      DEF SetNameServer, Settings, Goes, Returns, setter, reader, system,
          TypeOK
    <3>2. store' \in [Families -> Setting]
      BY <1>5, <2>0, <1>a, <1>d DEF SetNameServer, Settings
    <3> QED
      BY <1>5, <2>0, <3>1, <3>2, <1>a, <1>b, <1>c, <1>d
      DEF SetNameServer, Settings, Goes, Returns, setter, reader, system,
          TypeOK
  <2>2. CallInv'
    BY <1>5, <2>0, <2>n
    DEF SetNameServer, Settings, Goes, Returns, setter, reader, system,
        CallInv, InRegistry, Accepted
  <2>3. OtherInv'
    BY <1>5, <2>0, <2>n, <1>a
    DEF SetNameServer, Settings, Goes, Returns, setter, reader, system,
        OtherInv
  <2>4. ProgressInv'
    BY <1>5, <2>0, <2>n, <1>a
    DEF SetNameServer, Settings, Goes, Returns, setter, reader, system,
        ProgressInv, CallInv, InRegistry,
        NewSetting, Accepted
  <2> QED
    BY <2>1, <2>2, <2>3, <2>4
<1>6. ASSUME SetSearchList PROVE Inv'
  <2>0. args.family \in Families
    BY <1>6 DEF SetSearchList, CallInv, InRegistry, Accepted
  <2>m. ~moved => store[args.family].servers = args.servers
    BY <1>6, <2>0 DEF SetSearchList, ProgressInv
  <2>t. store[args.family] \in Setting
    BY <2>0, <1>a
  <2>n. ~moved => [store[args.family] EXCEPT !.domains = args.domains]
                   = NewSetting
    BY <2>m, <2>t DEF NewSetting, Setting
  <2>1. TypeOK'
    <3>1. api' \in BOOLEAN
      BY <1>6, Zenon
      DEF SetSearchList, Settings, Goes, Returns, setter, reader, system,
          TypeOK
    <3>2. store' \in [Families -> Setting]
      BY <1>6, <2>0, <1>a, <1>d DEF SetSearchList, Settings
    <3> QED
      BY <1>6, <2>0, <3>1, <3>2, <1>a, <1>b, <1>c, <1>d
      DEF SetSearchList, Settings, Goes, Returns, setter, reader, system,
          TypeOK
  <2>2. CallInv'
    BY <1>6, <2>0, <2>n
    DEF SetSearchList, Settings, Goes, Returns, setter, reader, system,
        CallInv, InRegistry, Accepted
  <2>3. OtherInv'
    BY <1>6, <2>0, <2>n, <1>a
    DEF SetSearchList, Settings, Goes, Returns, setter, reader, system,
        OtherInv
  <2>4. ProgressInv'
    BY <1>6, <2>0, <2>n, <1>a
    DEF SetSearchList, Settings, Goes, Returns, setter, reader, system,
        ProgressInv, CallInv, InRegistry,
        NewSetting, Accepted
  <2> QED
    BY <2>1, <2>2, <2>3, <2>4
<1>7. ASSUME RegistryFails PROVE Inv'
  <2>1. TypeOK'
    <3>1. api' \in BOOLEAN
      BY <1>7, Zenon
      DEF RegistryFails, Settings, Goes, Returns, setter, reader, system,
          TypeOK
    <3> QED
      BY <1>7, <3>1, <1>a, <1>b, <1>c, <1>d
      DEF RegistryFails, Settings, Goes, Returns, setter, reader, system,
          TypeOK
  <2>2. CallInv'
    BY <1>7
    DEF RegistryFails, Settings, Goes, Returns, setter, reader, system,
        CallInv, InRegistry, Accepted
  <2>3. OtherInv'
    BY <1>7, <1>a
    DEF RegistryFails, Settings, Goes, Returns, setter, reader, system,
        OtherInv
  <2>4. ProgressInv'
    BY <1>7, <1>a
    DEF RegistryFails, Settings, Goes, Returns, setter, reader, system,
        ProgressInv, CallInv, InRegistry,
        NewSetting, Accepted
  <2> QED
    BY <2>1, <2>2, <2>3, <2>4
<1>8. ASSUME ParamChange PROVE Inv'
  <2>1. TypeOK'
    <3>1. api' \in BOOLEAN
      BY <1>8, Zenon
      DEF ParamChange, Settings, Goes, Returns, setter, reader, system, TypeOK
    <3> QED
      BY <1>8, <3>1, <1>a, <1>b, <1>c, <1>d
      DEF ParamChange, Settings, Goes, Returns, setter, reader, system, TypeOK
  <2>2. CallInv'
    BY <1>8
    DEF ParamChange, Settings, Goes, Returns, setter, reader, system,
        CallInv, InRegistry, Accepted
  <2>3. OtherInv'
    BY <1>8, <1>a
    DEF ParamChange, Settings, Goes, Returns, setter, reader, system, OtherInv
  <2>4. ProgressInv'
    BY <1>8, <1>a
    DEF ParamChange, Settings, Goes, Returns, setter, reader, system,
        ProgressInv, CallInv, InRegistry,
        NewSetting, Accepted
  <2> QED
    BY <2>1, <2>2, <2>3, <2>4
<1>9. ASSUME NotifyFails PROVE Inv'
  <2>1. TypeOK'
    <3>1. api' \in BOOLEAN
      BY <1>9, Zenon
      DEF NotifyFails, Settings, Goes, Returns, setter, reader, system, TypeOK
    <3> QED
      BY <1>9, <3>1, <1>a, <1>b, <1>c, <1>d
      DEF NotifyFails, Settings, Goes, Returns, setter, reader, system, TypeOK
  <2>2. CallInv'
    BY <1>9
    DEF NotifyFails, Settings, Goes, Returns, setter, reader, system,
        CallInv, InRegistry, Accepted
  <2>3. OtherInv'
    BY <1>9, <1>a
    DEF NotifyFails, Settings, Goes, Returns, setter, reader, system, OtherInv
  <2>4. ProgressInv'
    BY <1>9, <1>a
    DEF NotifyFails, Settings, Goes, Returns, setter, reader, system,
        ProgressInv, CallInv, InRegistry,
        NewSetting, Accepted
  <2> QED
    BY <2>1, <2>2, <2>3, <2>4
<1>10. ASSUME IPInterface PROVE Inv'
  <2>1. TypeOK'
    <3>1. api' \in BOOLEAN
      BY <1>10, Zenon DEF IPInterface, Goes, setter, reader, system, TypeOK
    <3>2. row' \in MibIPInterfaceRow /\ row'.site <= MaxSite(row'.family)
      BY <1>10, <1>a, GetRowAccepted DEF IPInterface
    <3> QED
      BY <1>10, <3>1, <3>2, <1>a, <1>b, <1>c, <1>d
      DEF IPInterface, Goes, setter, reader, system, TypeOK
  <2>2. CallInv'
    BY <1>10
    DEF IPInterface, Goes, setter, reader, system, CallInv, InRegistry,
        Accepted
  <2>3. OtherInv'
    BY <1>10, <1>a DEF IPInterface, Goes, setter, reader, system, OtherInv
  <2>4. ProgressInv'
    BY <1>10, <1>a
    DEF IPInterface, Goes, setter, reader, system, ProgressInv, CallInv,
        InRegistry,
        NewSetting, Accepted
  <2> QED
    BY <2>1, <2>2, <2>3, <2>4
<1>11. ASSUME SetRow PROVE Inv'
  <2>1. TypeOK'
    <3>1. api' \in BOOLEAN
      BY <1>11, Zenon DEF SetRow, Goes, setter, reader, system, TypeOK
    <3> QED
      BY <1>11, <3>1, <1>a, <1>b, <1>c, <1>d
      DEF SetRow, Goes, setter, reader, system, TypeOK
  <2>2. CallInv'
    BY <1>11
    DEF SetRow, Goes, setter, reader, system, CallInv, InRegistry, Accepted
  <2>3. OtherInv'
    BY <1>11, <1>a DEF SetRow, Goes, setter, reader, system, OtherInv
  <2>4. ProgressInv'
    BY <1>11, <1>a
    DEF SetRow, Goes, setter, reader, system, ProgressInv, CallInv,
        InRegistry,
        NewSetting, Accepted
  <2> QED
    BY <2>1, <2>2, <2>3, <2>4
<1>12. ASSUME DNS PROVE Inv'
  <2>1. TypeOK'
    <3>1. api' \in BOOLEAN
      BY <1>12, Zenon DEF DNS, setter, reader, system, TypeOK
    <3> QED
      BY <1>12, <3>1, <1>a, <1>b, <1>c, <1>d
      DEF DNS, setter, reader, system, TypeOK
  <2>2. CallInv'
    BY <1>12 DEF DNS, setter, reader, system, CallInv, InRegistry, Accepted
  <2>3. OtherInv'
    BY <1>12, <1>a DEF DNS, setter, reader, system, OtherInv
  <2>4. ProgressInv'
    BY <1>12, <1>a
    DEF DNS, setter, reader, system, ProgressInv, CallInv, InRegistry,
        NewSetting, Accepted
  <2> QED
    BY <2>1, <2>2, <2>3, <2>4
<1>13. ASSUME Listed PROVE Inv'
  <2>1. TypeOK'
    <3>1. api' \in BOOLEAN
      BY <1>13, Zenon DEF Listed, setter, reader, system, TypeOK
    <3> QED
      BY <1>13, <3>1, <1>a, <1>b, <1>c, <1>d
      DEF Listed, setter, reader, system, TypeOK
  <2>2. CallInv'
    BY <1>13 DEF Listed, setter, reader, system, CallInv, InRegistry, Accepted
  <2>3. OtherInv'
    BY <1>13, <1>a DEF Listed, setter, reader, system, OtherInv
  <2>4. ProgressInv'
    BY <1>13, <1>a
    DEF Listed, setter, reader, system, ProgressInv, CallInv, InRegistry,
        NewSetting, Accepted
  <2> QED
    BY <2>1, <2>2, <2>3, <2>4
<1>14. ASSUME ListFails PROVE Inv'
  <2>1. TypeOK'
    <3>1. api' \in BOOLEAN
      BY <1>14, Zenon DEF ListFails, setter, reader, system, TypeOK
    <3> QED
      BY <1>14, <3>1, <1>a, <1>b, <1>c, <1>d
      DEF ListFails, setter, reader, system, TypeOK
  <2>2. CallInv'
    BY <1>14
    DEF ListFails, setter, reader, system, CallInv, InRegistry, Accepted
  <2>3. OtherInv'
    BY <1>14, <1>a DEF ListFails, setter, reader, system, OtherInv
  <2>4. ProgressInv'
    BY <1>14, <1>a
    DEF ListFails, setter, reader, system, ProgressInv, CallInv, InRegistry,
        NewSetting, Accepted
  <2> QED
    BY <2>1, <2>2, <2>3, <2>4
<1>15. ASSUME Overflow PROVE Inv'
  <2>1. TypeOK'
    <3>1. api' \in BOOLEAN
      BY <1>15, Zenon DEF Overflow, setter, reader, system, TypeOK
    <3> QED
      BY <1>15, <3>1, <1>a, <1>b, <1>c, <1>d
      DEF Overflow, setter, reader, system, TypeOK
  <2>2. CallInv'
    BY <1>15
    DEF Overflow, setter, reader, system, CallInv, InRegistry, Accepted
  <2>3. OtherInv'
    BY <1>15, <1>a DEF Overflow, setter, reader, system, OtherInv
  <2>4. ProgressInv'
    BY <1>15, <1>a
    DEF Overflow, setter, reader, system, ProgressInv, CallInv, InRegistry,
        NewSetting, Accepted
  <2> QED
    BY <2>1, <2>2, <2>3, <2>4
<1>16. ASSUME AdaptersChange PROVE Inv'
  <2>1. TypeOK'
    <3>1. api' \in BOOLEAN
      BY <1>16, Zenon DEF AdaptersChange, setter, reader, system, TypeOK
    <3> QED
      BY <1>16, <3>1, <1>a, <1>b, <1>c, <1>d
      DEF AdaptersChange, setter, reader, system, TypeOK
  <2>2. CallInv'
    BY <1>16
    DEF AdaptersChange, setter, reader, system, CallInv, InRegistry, Accepted
  <2>3. OtherInv'
    BY <1>16, <1>a DEF AdaptersChange, setter, reader, system, OtherInv
  <2>4. ProgressInv'
    BY <1>16, <1>a
    DEF AdaptersChange, setter, reader, system, ProgressInv, CallInv,
        InRegistry,
        NewSetting, Accepted
  <2> QED
    BY <2>1, <2>2, <2>3, <2>4
<1>17. ASSUME Restart PROVE Inv'
  <2>1. TypeOK'
    <3>1. api' \in BOOLEAN
      BY <1>17, Zenon DEF Restart, setter, reader, system, TypeOK
    <3> QED
      BY <1>17, <3>1, <1>a, <1>b, <1>c, <1>d
      DEF Restart, setter, reader, system, TypeOK
  <2>2. CallInv'
    BY <1>17
    DEF Restart, setter, reader, system, CallInv, InRegistry, Accepted
  <2>3. OtherInv'
    BY <1>17, <1>a DEF Restart, setter, reader, system, OtherInv
  <2>4. ProgressInv'
    BY <1>17, <1>a
    DEF Restart, setter, reader, system, ProgressInv, CallInv, InRegistry,
        NewSetting, Accepted
  <2> QED
    BY <2>1, <2>2, <2>3, <2>4
<1>18. ASSUME NEW f \in Families, OthersSet(f, Empty) PROVE Inv'
  <2>1. TypeOK'
    <3>1. api' \in BOOLEAN
      BY <1>18, Zenon DEF OthersSet, setter, reader, system, TypeOK
    <3> QED
      BY <1>18, <3>1, <1>a, <1>b, <1>c, <1>d
      DEF OthersSet, setter, reader, system, TypeOK
  <2>2. CallInv'
    BY <1>18
    DEF OthersSet, setter, reader, system, CallInv, InRegistry, Accepted
  <2>3. OtherInv'
    BY <1>18, <1>a DEF OthersSet, setter, reader, system, OtherInv
  <2>4. ProgressInv'
    BY <1>18, <1>a
    DEF OthersSet, setter, reader, system, ProgressInv, CallInv, InRegistry,
        NewSetting, Accepted
  <2> QED
    BY <2>1, <2>2, <2>3, <2>4
<1>19. ASSUME UNCHANGED vars PROVE Inv'
  <2>1. TypeOK'
    <3>1. api' \in BOOLEAN
      BY <1>19, Zenon DEF vars, setter, reader, system, TypeOK
    <3> QED
      BY <1>19, <3>1, <1>a, <1>b, <1>c, <1>d
      DEF vars, setter, reader, system, TypeOK
  <2>2. CallInv'
    BY <1>19 DEF vars, setter, reader, system, CallInv, InRegistry, Accepted
  <2>3. OtherInv'
    BY <1>19, <1>a DEF vars, setter, reader, system, OtherInv
  <2>4. ProgressInv'
    BY <1>19, <1>a
    DEF vars, setter, reader, system, ProgressInv, CallInv, InRegistry,
        NewSetting, Accepted
  <2> QED
    BY <2>1, <2>2, <2>3, <2>4
<1>20. ASSUME NEW f \in Families, FlushDNS(f) PROVE Inv'
  BY <1>20, <1>1 DEF FlushDNS
<1>21. ASSUME NEW list \in Lists, ConfigureDNS(Append(list, Garbage))
       PROVE  Inv'
  <2>1. SetDNS("inet", list, NoDomains)
    BY <1>21, FilterAssumption DEF ConfigureDNS
  <2> QED
    BY <2>1, <1>1 DEF Families
<1> HIDE DEF Inv
<1> QED
  BY <1>1, <1>2, <1>3, <1>4, <1>5, <1>6, <1>7, <1>8, <1>9, <1>10, <1>11,
     <1>12, <1>13, <1>14, <1>15, <1>16, <1>17, <1>18, <1>19, <1>20, <1>21
  DEF Next, Setter, Reader

(* Inv holds of every state of the settings.                               *)
LEMMA InvAlways == Spec => []Inv
BY InitInv, StepInv, PTL DEF Spec

(* Type correctness of SetDNS, of the change of the MTU and of DNS: the    *)
(* servers kept are of the family of the call, the row that goes back with *)
(* the MTU is one Windows takes, the buffer never exceeds its bound.       *)
THEOREM TypeCorrect == Spec => []TypeOK
<1>1. Inv => TypeOK
  BY DEF Inv
<1> QED
  BY <1>1, InvAlways, PTL

(* SetDNS that returned nil has set exactly what it was given, for any     *)
(* sequence of calls, failed ones among them: NilMeansSet.                 *)
THEOREM SuccessIsComplete == Spec => []NilMeansSet
<1>1. Inv => NilMeansSet
  BY DEF Inv, NilMeansSet, CallInv, ProgressInv, Accepted
<1> QED
  BY <1>1, InvAlways, PTL

(* A SetDNS that fails, at whichever of its steps, has at worst changed    *)
(* the servers and not the search list, never the other family:            *)
(* FailureIsPartialAtWorst.                                                *)
THEOREM FailureIsBounded == Spec => []FailureIsPartialAtWorst
<1>1. Inv => FailureIsPartialAtWorst
  BY DEF Inv, FailureIsPartialAtWorst, OtherInv, ProgressInv
<1> QED
  BY <1>1, InvAlways, PTL
=============================================================================
