--------------------------- MODULE InterfaceTable ---------------------------
(***************************************************************************)
(* The addresses or the routes of one interface (winipcfg/luid.go): Add,   *)
(* Delete, Flush, Set and SetForFamily of IPAddresses and of Routes.  Both *)
(* tables belong to the machine: each call to Windows is atomic, but       *)
(* between two of them Windows and other programs add and remove rows, and *)
(* any of them may fail.  A flush works on a copy of the table.            *)
(*                                                                         *)
(* The two families of methods differ in three things, kept as the value   *)
(* of kind: FlushRoutes returns the last error of its deletions and        *)
(* FlushIPAddresses ignores them; DeleteRoute looks the row up first; and  *)
(* a route is told apart by its prefix length and next hop, an address by  *)
(* the address alone.                                                      *)
(***************************************************************************)
EXTENDS SockAddr, Sequences, FiniteSets

CONSTANTS
  Self, Other,   \* the LUID of the methods' receiver, and another one
  Items,         \* what callers ask for: a netip.Prefix and a next hop
  OtherItems,    \* the rows of the other interface
  MaxLen,        \* bound: rows given to one call
  MaxMeddle      \* bound: rows others add or remove in the course of a call

ASSUME TableAssumption ==
  /\ Self # Other
  /\ MaxLen \in Nat /\ MaxMeddle \in Nat
  /\ OtherItems \subseteq Items
  /\ \A i \in Items :
       /\ i.dst = PrefixFrom(i.dst.addr, i.dst.bits)
       /\ i.dst.addr \in Addr /\ i.dst.bits \in -1 .. 128 /\ i.hop \in Addr

Sets == {"set", "setForFamily", "flush"}

VARIABLES
  kind,      \* which of the two tables this is
  table,
  pc, op,    \* where the call is, and which one it is
  family,    \* its family, AF_UNSPEC for Set
  data,      \* the rows it has yet to add or to delete
  snap,      \* the rows of the copy it has yet to delete
  err,       \* FlushRoutes' err
  result,
  wanted,    \* what it was asked for
  before,    \* the table when it was called
  added, removed   \* what others have done to the table since

call   == <<op, family, wanted, before>>
others == <<added, removed>>
vars   == <<kind, table, pc, data, snap, err, result, call, others>>

(* A row, of either table: an address has no next hop.                     *)
Row == [luid : {Self, Other}, dst : [raw : RawSockaddrInet, len : Byte],
        hop : RawSockaddrInet]

(* The row AddIPAddress, AddRoute and the Delete methods build, from a     *)
(* zeroed one, and whether they can: the addresses must be valid.          *)
Build(luid, i) ==
  [luid |-> luid,
   dst  |-> SetPrefix([raw |-> Zeroed, len |-> 0], i.dst),
   hop  |-> IF kind = "route" THEN SetAddr(Zeroed, i.hop) ELSE Zeroed]
Valid(i) == IsValid(i.dst.addr) /\ (kind = "route" => IsValid(i.hop))
Rows(luid, S) == {Build(luid, i) : i \in {j \in S : Valid(j)}}

(* The rows of T Windows takes for r.                                      *)
Matching(T, r) ==
  {q \in T : /\ q.luid = r.luid /\ q.dst.raw = r.dst.raw
             /\ kind = "route" => q.dst.len = r.dst.len /\ q.hop = r.hop}

InFamily(f, fam) == f = "unspec" \/ fam = f

(* The rows of T a flush with family f is about.                           *)
Scope(T, f) == {r \in T : r.luid = Self /\ InFamily(f, r.dst.raw.family)}

(* What a reader of a row is told it is about, and what it should be told  *)
(* of a row that was asked for.                                            *)
Read(r)  == [dst |-> PrefixOf(r.dst),
             hop |-> IF kind = "route" THEN AddrOf(r.hop) ELSE Invalid]
Asked(i) == [dst |-> i.dst,
             hop |-> IF kind = "route" THEN Kept(i.hop) ELSE Invalid]

(* No two rows of T are the same to Windows.                               *)
Keyed(T) == \A r \in T : Matching(T, r) = {r}

Init ==
  /\ kind \in {"address", "route"}
  /\ \E S \in SUBSET Items :
       table = Rows(Self, S) \cup Rows(Other, OtherItems)
  /\ Keyed(table)
  /\ pc = "idle" /\ op = "none" /\ family = "unspec"
  /\ data = <<>> /\ snap = {} /\ err = FALSE /\ result = "none"
  /\ wanted = {} /\ before = table /\ added = {} /\ removed = {}

Returns(answer) ==
  /\ pc' = "returned"
  /\ result' = answer
  /\ UNCHANGED <<kind, call, others>>

Goes(label) == pc' = label /\ UNCHANGED <<kind, result, call, others>>

-----------------------------------------------------------------------------
(* SetForFamily passes over the rows of the other family.                  *)
Call(o, f, d) ==
  /\ pc = "idle"
  /\ o \notin {"setForFamily", "flush"} => f = "unspec"
  /\ o = "delete" => Len(d) = 1
  /\ o = "flush" => d = <<>>
  /\ op' = o /\ family' = f /\ data' = d
  /\ pc' = CASE o \in Sets -> "snapshot"
             [] o = "add"  -> "add"
             [] OTHER -> IF kind = "route" THEN "get" ELSE "remove"
  /\ wanted' = {Asked(d[i]) :
                   i \in {j \in DOMAIN d : InFamily(f, d[j].dst.addr.is)}}
  /\ before' = table
  /\ UNCHANGED <<kind, table, snap, err, result, others>>

(* Mutant: the copy is not filtered by interface.                          *)
SnapshotAll ==
  /\ pc = "snapshot" /\ Goes("delete")
  /\ snap' = {r \in table : InFamily(family, r.dst.raw.family)}
  /\ UNCHANGED <<table, data, err>>

Snapshot ==
  /\ pc = "snapshot" /\ Goes("delete")
  /\ snap' = Scope(table, family)
  /\ UNCHANGED <<table, data, err>>

SnapshotFails ==
  /\ pc = "snapshot" /\ Returns("err")
  /\ UNCHANGED <<table, data, snap, err>>

Delete(r) ==
  /\ pc = "delete" /\ Goes(pc) /\ r \in snap \cap table
  /\ table' = table \ {r}
  /\ snap' = snap \ {r}
  /\ UNCHANGED <<data, err>>

(* Mutant: FlushRoutes ignores the errors, as FlushIPAddresses does.       *)
DeleteFailsSilently(r) ==
  /\ pc = "delete" /\ Goes(pc) /\ r \in snap
  /\ snap' = snap \ {r}
  /\ UNCHANGED <<table, data, err>>

(* Delete fails: always when the row has gone since the copy was made.     *)
DeleteFails(r) ==
  /\ pc = "delete" /\ Goes(pc) /\ r \in snap
  /\ snap' = snap \ {r}
  /\ err' = (err \/ kind = "route")
  /\ UNCHANGED <<table, data>>

FlushDone ==
  /\ pc = "delete" /\ snap = {}
  /\ IF err \/ op = "flush" THEN Returns(IF err THEN "err" ELSE "ok")
     ELSE Goes("add")
  /\ UNCHANGED <<table, data, snap, err>>

-----------------------------------------------------------------------------
(* The rows are added in turn, up to the first that fails.                 *)

(* Mutant: SetForFamily adds every row.                                    *)
SkipsNothing(item) == FALSE

Skips(item) == ~InFamily(family, item.dst.addr.is)

AddSkip ==
  /\ pc = "add" /\ Goes(pc) /\ data # <<>> /\ Skips(Head(data))
  /\ data' = Tail(data)
  /\ UNCHANGED <<table, snap, err>>

Add ==
  /\ pc = "add" /\ Goes(pc) /\ data # <<>> /\ ~Skips(Head(data))
  /\ Valid(Head(data))
  /\ LET new == Build(Self, Head(data))
     IN  Matching(table, new) = {} /\ table' = table \cup {new}
  /\ data' = Tail(data)
  /\ UNCHANGED <<snap, err>>

(* An invalid address, or Create fails: always when there is such a row.   *)
AddFails ==
  /\ pc = "add" /\ data # <<>> /\ ~Skips(Head(data)) /\ Returns("err")
  /\ UNCHANGED <<table, data, snap, err>>

AddDone ==
  /\ pc = "add" /\ data = <<>> /\ Returns("ok")
  /\ UNCHANGED <<table, data, snap, err>>

-----------------------------------------------------------------------------
(* DeleteRoute gets the row and deletes it; DeleteIPAddress only deletes.  *)

Get ==
  /\ pc = "get" /\ Goes("remove")
  /\ Valid(Head(data)) /\ Matching(table, Build(Self, Head(data))) # {}
  /\ UNCHANGED <<table, data, snap, err>>

Remove ==
  /\ pc = "remove" /\ Returns("ok")
  /\ Valid(Head(data))
  /\ \E r \in Matching(table, Build(Self, Head(data))) : table' = table \ {r}
  /\ UNCHANGED <<data, snap, err>>

RemoveFails ==
  /\ pc \in {"get", "remove"} /\ Returns("err")
  /\ UNCHANGED <<table, data, snap, err>>

-----------------------------------------------------------------------------
(* Windows and other programs, while a call is under way.                  *)
Meddle ==
  /\ pc \notin {"idle", "returned"}
  /\ Cardinality(added \cup removed) < MaxMeddle
  /\ UNCHANGED <<kind, pc, data, snap, err, result, call>>

OthersAdd(r) ==
  /\ Meddle /\ Matching(table, r) = {}
  /\ table' = table \cup {r}
  /\ added' = added \cup {r} /\ removed' = removed \ {r}

OthersRemove(r) ==
  /\ Meddle
  /\ table' = table \ {r}
  /\ removed' = removed \cup {r} /\ added' = added \ {r}

Lists == UNION {[1 .. n -> Items] : n \in 0 .. MaxLen}

Next ==
  \/ \E o \in Sets \cup {"add", "delete"}, f \in Families \cup {"unspec"},
        d \in Lists : Call(o, f, d)
  \/ Snapshot \/ SnapshotFails \/ FlushDone
  \/ \E r \in snap : Delete(r) \/ DeleteFails(r)
  \/ AddSkip \/ Add \/ AddFails \/ AddDone
  \/ Get \/ Remove \/ RemoveFails
  \/ \E r \in Rows(Self, Items) \cup Rows(Other, Items) : OthersAdd(r)
  \/ \E r \in table : OthersRemove(r)

Spec == Init /\ [][Next]_vars

-----------------------------------------------------------------------------
(* The variables have their types; a flush deletes only rows in its scope. *)
TypeOK ==
  /\ kind \in {"address", "route"}
  /\ \A r \in table \cup before \cup added \cup removed : r \in Row
  /\ pc \in {"idle", "snapshot", "delete", "add", "get", "remove", "returned"}
  /\ op \in Sets \cup {"none", "add", "delete"}
  /\ family \in Families \cup {"unspec"}
  /\ data \in Seq(Items) /\ Len(data) <= MaxLen
  /\ snap = Scope(snap, family)
  /\ err \in BOOLEAN /\ (kind = "address" => ~err)
  /\ result \in {"none", "ok", "err"}

(* Delete names a row: an address whatever its prefix length, a route with *)
(* its prefix length and next hop.                                         *)
Names(w, r) ==
  Read(r).dst.addr = w.dst.addr /\ (kind = "route" => Read(r) = w)

(* What the call under way may change: the rows of the interface and the   *)
(* family it was called for, or, for Add and Delete, the rows it names.    *)
Touches(T) ==
  IF op \in Sets THEN Scope(T, family)
  ELSE {r \in T : r.luid = Self /\ IF op = "delete"
                                  THEN \E w \in wanted : Names(w, r)
                                  ELSE Read(r) \in wanted}

(* A call never touches a row of another interface, of a family it was not *)
(* called for, or that it does not name, whoever else changes the table    *)
(* and wherever it fails.                                                  *)
OutOfScopeKept ==
  LET expected == (before \cup added) \ removed
  IN  pc # "idle" => table \ Touches(table) = expected \ Touches(expected)

(* The rows asked for that the call has not come to, the one it failed at  *)
(* among them.                                                             *)
Pending ==
  {Asked(data[i]) :
     i \in {j \in DOMAIN data : InFamily(family, data[j].dst.addr.is)}}

(* What a call returns tells what it did, but for the doing of others in   *)
(* the meantime.  Set, SetForFamily and Add that return nil have added     *)
(* every row asked for, and it reads as what was asked; one that fails has *)
(* added the rows before the one it failed at.  A Set of routes never      *)
(* leaves old rows beside new ones: no row that was not asked for is left, *)
(* or the flush failed and nothing was added.  A Delete that returns nil   *)
(* has left no row with its key.                                           *)
ResultIsExact ==
  pc = "returned" =>
    /\ op # "delete" =>
         wanted \ (IF result = "ok" THEN {} ELSE Pending)
           \subseteq {Read(r) : r \in Scope(table, family) \cup removed}
    /\ kind = "route" /\ op \in Sets =>
         \/ {Read(r) : r \in Scope(table, family) \ added} \subseteq wanted
         \/ result = "err" /\ Scope(table, family) \subseteq before \cup added
    /\ op = "delete" /\ result = "ok" => \A r \in Touches(table) : r \in added
=============================================================================
