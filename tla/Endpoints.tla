------------------------------- MODULE Endpoints -------------------------------
(***************************************************************************)
(* Which broker address the phone tries first (android Endpoints.kt).      *)
(*                                                                         *)
(* An address is a host name or four decimal fields.  A name is known by   *)
(* whether it ends in ".local"; a field by its value, or NoNumber when it  *)
(* is not an integer.                                                      *)
(***************************************************************************)
EXTENDS Integers, Sequences, Ordering

NoNumber == -1

Name(mdns)    == [kind |-> "name", mdns |-> mdns]
Dotted(parts) == [kind |-> "dotted", parts |-> parts]

Octet == 0 .. 255

\* Mutant of IsLocal: the second block ends one field early.
IsLocalShort(host) ==
  IF host.kind = "name" THEN host.mdns
  ELSE LET o == host.parts IN
    /\ Len(o) = 4
    /\ \A i \in 1 .. 4 : o[i] \in Octet
    /\ \/ o[1] = 10
       \/ o[1] = 172 /\ o[2] \in 16 .. 30
       \/ o[1] = 192 /\ o[2] = 168
       \/ o[1] = 169 /\ o[2] = 254

\* isLocal()
IsLocal(host) ==
  IF host.kind = "name" THEN host.mdns
  ELSE LET o == host.parts IN
    /\ Len(o) = 4
    /\ \A i \in 1 .. 4 : o[i] \in Octet
    /\ \/ o[1] = 10
       \/ o[1] = 172 /\ o[2] \in 16 .. 31
       \/ o[1] = 192 /\ o[2] = 168
       \/ o[1] = 169 /\ o[2] = 254

-----------------------------------------------------------------------------
(* order(): hosts is the provisioned sequence, local the set of those that *)
(* are local.                                                              *)

NoHost == "none"

\* filter{}, filterNot{} and minus keep the order of the positions they keep.
AtPlaces(hosts, places) == [k \in DOMAIN InOrder(places) |-> hosts[InOrder(places)[k]]]

Those(hosts, S) == AtPlaces(hosts, { i \in DOMAIN hosts : hosts[i] \in S })
Others(hosts, S) == AtPlaces(hosts, { i \in DOMAIN hosts : hosts[i] \notin S })

LastFirst(base, worked) ==
  IF \E i \in DOMAIN base : base[i] = worked
  THEN <<worked>> \o Others(base, {worked})
  ELSE base

Base(hosts, local, onLocalNetwork) ==
  IF onLocalNetwork THEN hosts ELSE Others(hosts, local) \o Those(hosts, local)

Order(hosts, local, onLocalNetwork, worked) ==
  LastFirst(Base(hosts, local, onLocalNetwork), worked)

-----------------------------------------------------------------------------
(* What they are for.                                                      *)

\* The address blocks, as ranges of the first 24 bits of an address.
Prefix(o) == (o[1] * 256 + o[2]) * 256 + o[3]
Block(first, size) == Prefix(first) .. (Prefix(first) + size - 1)

Private ==
  Block(<<10, 0, 0>>, 65536) \cup Block(<<172, 16, 0>>, 4096) \cup
  Block(<<192, 168, 0>>, 256) \cup Block(<<169, 254, 0>>, 256)

\* The rank order() sorts by: what last worked, then what can be reached, then
\* what the provisioning put first (Endpoints.kt:32-35).
Position(s, h) == CHOOSE i \in DOMAIN s : s[i] = h
Rank(hosts, local, onLocalNetwork, worked, h) ==
  <<IF h = worked THEN 0 ELSE 1,
    IF ~ onLocalNetwork /\ h \in local THEN 1 ELSE 0,
    Position(hosts, h)>>

Before(r, s) ==
  \E i \in 1 .. 3 : r[i] < s[i] /\ \A j \in 1 .. (i - 1) : r[j] = s[j]

Names == {"a", "b", "c"}

Provisionings ==
  { s \in UNION { [1 .. n -> Names] : n \in 0 .. 3 } :
      \A i, j \in DOMAIN s : s[i] = s[j] => i = j }

\* The fields either side of every bound isLocal() compares with.
Fields == {NoNumber, 0, 9, 10, 11, 15, 16, 31, 32, 167, 168, 169, 172, 192, 253, 254, 255, 256}
Edges  == {NoNumber, 0, 255, 256}
Addresses == (Fields \X Fields \X Edges \X Edges) \cup (Fields \X Fields \X Edges)

\* An address is local exactly when it lies in one of the private or link-local
\* blocks (Endpoints.kt:17-28).
LocalIsPrivate ==
  \A parts \in Addresses :
    IsLocal(Dotted(parts)) <=>
      /\ Len(parts) = 4 /\ \A i \in 1 .. 4 : parts[i] \in Octet
      /\ Prefix(parts) \in Private

Ranked(hosts, local, onLocalNetwork, worked) ==
  LET tried == Order(hosts, local, onLocalNetwork, worked)
      rank(h) == Rank(hosts, local, onLocalNetwork, worked, h)
  IN  /\ Len(tried) = Len(hosts)
      /\ \A i \in DOMAIN hosts : \E k \in DOMAIN tried : tried[k] = hosts[i]
      /\ \A i, k \in DOMAIN tried : i < k => Before(rank(tried[i]), rank(tried[k]))

\* order() tries every provisioned address once, best rank first: no address of a
\* network the phone is not on comes before one that can be reached, unless it is
\* the one that last worked (Endpoints.kt:5-14 and 30-39).
OrderRanks ==
  \A hosts \in Provisionings, local \in SUBSET Names, onLocalNetwork \in BOOLEAN,
     worked \in Names \cup {NoHost} : Ranked(hosts, local, onLocalNetwork, worked)
=============================================================================
