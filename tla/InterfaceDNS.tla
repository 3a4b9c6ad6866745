---------------------------- MODULE InterfaceDNS ----------------------------
(***************************************************************************)
(* The settings of an interface that are not rows of a table: its DNS      *)
(* servers and search list (SetDNS, FlushDNS and DNS of winipcfg/luid.go,  *)
(* GetAdaptersAddresses of winipcfg.go) and its MTU (IPInterface and Set), *)
(* as windev's ConfigureRouting and its cleanup change them.               *)
(*                                                                         *)
(* Windows before 10 1809 has no call to set the servers: SetDNS writes    *)
(* two values of the registry, one after the other, and tells the DNS      *)
(* client service, which goes on with what it read last until it is told   *)
(* or restarts.  One goroutine changes the settings, other programs do so  *)
(* too; another goroutine is in DNS while adapters come and go.            *)
(***************************************************************************)
EXTENDS Integers, Sequences

CONSTANTS
  Servers,       \* addresses of DNS servers
  FamilyOf,      \* "inet" or "inet6" for each of them
  Domains,       \* search lists, one of them empty, one that UTF-16 refuses
  NoDomains, BadDomains,
  Lists,         \* the lists of servers callers give
  Garbage,       \* an entry of the configuration that is no address
  InitialSize,   \* the size of the first buffer (15000 bytes in the code)
  MaxSize,       \* bound: what the list of adapters may take
  MaxCalls       \* bound: calls that change settings

ASSUME DNSAssumption ==
  /\ FamilyOf \in [Servers -> {"inet", "inet6"}] /\ Garbage \notin Servers
  /\ {NoDomains, BadDomains} \subseteq Domains /\ NoDomains # BadDomains
  /\ Lists \subseteq Seq(Servers) /\ <<>> \in Lists
  /\ InitialSize \in Nat /\ MaxSize \in Nat /\ MaxCalls \in Nat

Families == {"inet", "inet6"}
MTUs     == {"default", "tunnel"}
Sites    == {32, 33, 128, 129}   \* SitePrefixLength
Setting  == [servers : Lists, domains : Domains]
MibIPInterfaceRow == [mtu : MTUs, family : Families, site : 0 .. 255]
Empty    == [servers |-> <<>>, domains |-> NoDomains]

VARIABLES
  api,        \* this Windows has SetInterfaceDnsSettings
  store,      \* the settings of each family, in the system's keeping
  resolver,   \* the settings the DNS client works with
  entry,      \* the interface's entry: MTU and SitePrefixLength
  pc, calls,  \* the goroutine that changes settings
  args,       \* of its call: family, filteredServers and domains
  row,        \* the MibIPInterfaceRow it has in hand
  result,
  before,     \* store when the call was made
  moved,      \* another program changed store since then
  need,       \* the bytes the list of adapters takes
  rpc,        \* the goroutine in DNS
  size        \* its buffer

setter == <<pc, calls, args, row, result, before, moved>>
reader == <<rpc, size>>
system == <<api, store, resolver, entry, need>>
vars   == <<setter, reader, system>>

Init ==
  /\ api \in BOOLEAN
  /\ store = [f \in Families |-> Empty] /\ resolver = store
  /\ entry \in [mtu : {"default"}, family : Families, site : Sites]
  /\ pc = "idle" /\ calls = 0
  /\ args = [family |-> "unspec", servers |-> <<>>, domains |-> NoDomains]
  /\ row = entry /\ result = "none" /\ before = store /\ moved = FALSE
  /\ need = 0 /\ rpc = "idle" /\ size = 0

(* A step of SetDNS that leaves S in the system's keeping.                 *)
Settings(S) ==
  /\ store' = S
  /\ UNCHANGED <<api, entry, need, reader, calls, args, row, before, moved>>

Goes(label)  == pc' = label /\ UNCHANGED result
Returns(res) == pc' = "idle" /\ result' = res

-----------------------------------------------------------------------------
(* SetDNS.  The servers of the other family are passed over; nothing is    *)
(* written before the arguments and the GUID are known to be good.         *)

Filter(f, list) == SelectSeq(list, LAMBDA s : FamilyOf[s] = f)

(* Mutant: the servers are not filtered.                                   *)
SetDNSUnfiltered(f, list, domains) ==
  /\ pc = "idle" /\ calls < MaxCalls
  /\ pc' = "dns" /\ calls' = calls + 1
  /\ args' = [family |-> f, servers |-> list, domains |-> domains]
  /\ before' = store /\ moved' = FALSE /\ result' = "none"
  /\ UNCHANGED <<system, reader, row>>

SetDNS(f, list, domains) ==
  /\ pc = "idle" /\ calls < MaxCalls
  /\ pc' = "dns" /\ calls' = calls + 1
  /\ args' = [family |-> f, servers |-> Filter(f, list), domains |-> domains]
  /\ before' = store /\ moved' = FALSE /\ result' = "none"
  /\ UNCHANGED <<system, reader, row>>

FlushDNS(f) == SetDNS(f, <<>>, NoDomains)

(* ConfigureRouting: the entries of the configuration that parse, if any.  *)
Parsed(entries) == SelectSeq(entries, LAMBDA s : s # Garbage)

ConfigureDNS(entries) ==
  /\ Parsed(entries) # <<>>
  /\ SetDNS("inet", Parsed(entries), NoDomains)

(* The lists are closed under both filters, and a filter drops what it     *)
(* should: what the two loops compute on the lists callers give.           *)
ASSUME FilterAssumption ==
  \A list \in Lists :
    /\ Parsed(Append(list, Garbage)) = list
    /\ \A f \in Families \cup {"unspec"} :
         /\ Filter(f, list) \in Lists
         /\ \A i \in DOMAIN Filter(f, list) : FamilyOf[Filter(f, list)[i]] = f

(* Mutant: the previous settings are cleared before the arguments are      *)
(* looked at.                                                              *)
SetDNSRefusedCleared ==
  /\ pc = "dns" /\ Returns("err")
  /\ Settings([f \in Families |-> IF f = args.family THEN Empty ELSE store[f]])
  /\ UNCHANGED resolver

(* A wrong family, a string that is no UTF-16, or no GUID for the LUID.    *)
SetDNSRefused ==
  /\ pc = "dns" /\ Returns("err")
  /\ Settings(store) /\ UNCHANGED resolver

Accepted == args.family \in Families /\ args.domains # BadDomains

NewSetting == [servers |-> args.servers, domains |-> args.domains]

SetInterfaceDnsSettings ==
  /\ pc = "dns" /\ Accepted /\ api /\ Returns("ok")
  /\ Settings([store EXCEPT ![args.family] = NewSetting])
  /\ resolver' = store'

(* ERROR_PROC_NOT_FOUND, and the registry key can be opened.               *)
OpenKey ==
  /\ pc = "dns" /\ Accepted /\ ~api /\ Goes("nameServer")
  /\ Settings(store) /\ UNCHANGED resolver

SetNameServer ==
  /\ pc = "nameServer" /\ Goes("searchList")
  /\ Settings([store EXCEPT ![args.family].servers = args.servers])
  /\ UNCHANGED resolver

(* Mutant: an empty search list is not written.                            *)
SetSearchListIfAny ==
  /\ pc = "searchList" /\ Goes("notify")
  /\ Settings(IF args.domains = NoDomains THEN store
              ELSE [store EXCEPT ![args.family].domains = args.domains])
  /\ UNCHANGED resolver

SetSearchList ==
  /\ pc = "searchList" /\ Goes("notify")
  /\ Settings([store EXCEPT ![args.family].domains = args.domains])
  /\ UNCHANGED resolver

RegistryFails ==
  /\ pc \in {"nameServer", "searchList"} /\ Returns("err")
  /\ Settings(store) /\ UNCHANGED resolver

(* dnscache is told to read its parameters again ...                       *)
ParamChange ==
  /\ pc = "notify" /\ Returns("ok")
  /\ Settings(store) /\ resolver' = store

(* ... unless the service manager or the service cannot be opened.         *)
NotifyFails ==
  /\ pc = "notify" /\ Returns("ok")
  /\ Settings(store) /\ UNCHANGED resolver

-----------------------------------------------------------------------------
(* The MTU: the entry is read, changed in one field and written back.      *)

MaxSite(f) == IF f = "inet" THEN 32 ELSE 128

(* MibIPInterfaceRow.get: SetIpInterfaceEntry refuses what                 *)
(* GetIpInterfaceEntry may return as SitePrefixLength.                     *)
GetRow(r) ==
  IF r.site > MaxSite(r.family)
  THEN [r EXCEPT !.site = IF r.family = "inet" THEN 0 ELSE 128] ELSE r

IPInterface ==
  /\ pc = "idle" /\ calls < MaxCalls /\ Goes("mtu")
  /\ calls' = calls + 1
  /\ row' = [GetRow(entry) EXCEPT !.mtu = "tunnel"]
  /\ UNCHANGED <<system, reader, args, before, moved>>

SetRow ==
  /\ pc = "mtu" /\ Goes("idle")
  /\ entry' \in {row, entry}
  /\ UNCHANGED <<api, store, resolver, need, reader, calls, args, row, before,
                 moved>>

-----------------------------------------------------------------------------
(* DNS, over the loop of GetAdaptersAddresses.                             *)

DNS ==
  /\ rpc = "idle" /\ rpc' = "list"
  /\ size' = InitialSize
  /\ UNCHANGED <<setter, system>>

(* The buffer is large enough, or the call fails: an overflow that asks    *)
(* for no more than there was, or any other error, ends the loop.          *)
Listed ==
  /\ rpc = "list" /\ rpc' = "idle"
  /\ need <= size /\ size' = 0
  /\ UNCHANGED <<setter, system>>

ListFails ==
  /\ rpc = "list" /\ rpc' = "idle" /\ size' = 0
  /\ UNCHANGED <<setter, system>>

(* Mutant: a new buffer of the first size for every attempt.               *)
OverflowSameSize ==
  /\ rpc = "list" /\ need > size
  /\ UNCHANGED vars

(* ERROR_BUFFER_OVERFLOW with the size it takes: try again with that much. *)
Overflow ==
  /\ rpc = "list" /\ need > size
  /\ size' = need
  /\ UNCHANGED <<setter, system, rpc>>

Reader == Listed \/ Overflow

-----------------------------------------------------------------------------
(* The machine: adapters come and go, the DNS client restarts, another     *)
(* program sets the servers of the interface or its metric.                *)
AdaptersChange ==
  /\ rpc # "idle" /\ need' \in 0 .. MaxSize
  /\ UNCHANGED <<setter, reader, api, store, resolver, entry>>

Restart ==
  /\ resolver # store
  /\ resolver' = store
  /\ UNCHANGED <<setter, api, store, entry, need, reader>>

OthersSet(f, s) ==
  /\ pc # "idle" /\ ~moved
  /\ moved' = TRUE
  /\ store' = [store EXCEPT ![f] = s]
  /\ resolver' = store'
  /\ UNCHANGED <<api, entry, need, pc, calls, args, row, result, before,
                 reader>>

Setter ==
  \/ SetDNSRefused \/ SetInterfaceDnsSettings \/ OpenKey \/ SetNameServer
  \/ SetSearchList \/ RegistryFails \/ ParamChange \/ NotifyFails \/ SetRow

Next ==
  \/ \E f \in Families \cup {"unspec"}, list \in Lists, d \in Domains :
       SetDNS(f, list, d)
  \/ \E f \in Families : FlushDNS(f)
  \/ \E list \in Lists : ConfigureDNS(Append(list, Garbage))
  \/ Setter \/ IPInterface
  \/ DNS \/ Reader \/ ListFails
  \/ AdaptersChange \/ Restart
  \/ \E f \in Families : OthersSet(f, Empty)

Spec == Init /\ [][Next]_vars

(* The goroutine in DNS is scheduled.  Nothing is assumed of the setter or *)
(* of the machine: the adapters may come and go for ever.                  *)
FairSpec == Spec /\ WF_vars(Reader)

-----------------------------------------------------------------------------
(* The variables have their types, the servers a call has kept are of its  *)
(* family, and the row that goes back with the MTU is one that Windows     *)
(* takes.                                                                  *)
TypeOK ==
  /\ api \in BOOLEAN
  /\ {store, resolver, before} \subseteq [Families -> Setting]
  /\ {entry, row} \subseteq MibIPInterfaceRow
  /\ pc = "mtu" => row.site <= MaxSite(row.family)
  /\ pc \in {"idle", "dns", "nameServer", "searchList", "notify", "mtu"}
  /\ calls \in 0 .. MaxCalls /\ result \in {"none", "ok", "err"}
  /\ args \in [family : Families \cup {"unspec"}, servers : Lists,
              domains : Domains]
  /\ \A i \in DOMAIN args.servers : FamilyOf[args.servers[i]] = args.family
  /\ rpc \in {"idle", "list"} /\ need \in 0 .. MaxSize
  /\ size \in 0 .. MaxSize + InitialSize

(* SetDNS that returned nil has left exactly the servers of its family and *)
(* the search list it was given, also after an earlier call that failed    *)
(* half-way through the registry; with the system call, the DNS client     *)
(* works with them already.                                                *)
NilMeansSet ==
  result = "ok" /\ pc = "idle" /\ ~moved =>
    /\ store[args.family] = NewSetting
    /\ api => resolver = store

(* SetDNS of one family leaves the other's settings alone, at every step   *)
(* and wherever it fails.  One that failed has changed nothing, or the     *)
(* servers and not the search list, the latter only on a Windows without   *)
(* the system call.                                                        *)
FailureIsPartialAtWorst ==
  ~moved => \A f \in Families :
    /\ f # args.family => store[f] = before[f]
    /\ result = "err" => /\ store[f].domains = before[f].domains
                         /\ api => store[f].servers = before[f].servers

(* DNS returns, though the list of adapters keeps outgrowing the buffer it *)
(* was just given: every attempt has a larger one, and the list a bound.   *)
DNSReturns == rpc = "list" ~> rpc = "idle"
=============================================================================
