------------------------------ MODULE NetNames ------------------------------
(***************************************************************************)
(* The host name and the name servers, php-net/net.c.  The host name is in *)
(* the kernel and in a property of the configuration dataset; how names    *)
(* are resolved is in the property dns, which is DHCP or not there, and in *)
(* resolv.conf.  What is in two places is written one after the other, and *)
(* nobody looks whether the dataset took a property.                       *)
(***************************************************************************)
EXTENDS Integers, FiniteSets

CONSTANTS
  HostNames,
  Resolvers,    \* what dns_set may be given: a domain and its servers
  Unset,        \* nothing there
  DhcpMode,     \* the value of the property dns
  NameProcs,
  NameCalls,    \* bound on calls
  NameDeaths,   \* bound on deaths
  NameRefuses   \* whether the kernel and the file system may refuse

ASSUME NamesAssumption ==
  /\ Unset \notin HostNames \cup Resolvers \cup {DhcpMode} /\ DhcpMode \notin Resolvers
  /\ NameCalls \in Nat /\ NameDeaths \in Nat /\ NameRefuses \in BOOLEAN

VARIABLES
  hostname, hostprop,   \* the host name: the kernel's, the stored one
  dnsprop, resconf,     \* the property dns, and resolv.conf
  npc, narg,            \* per process: where it is, and the argument
  hostleft,             \* history: only one of the names has been set
  dnstold,              \* history: what dns_get may answer
  nturns,               \* history: no two calls have overlapped
  ncalls, ndeaths

nameVars == <<hostname, hostprop, dnsprop, resconf, npc, narg, hostleft, dnstold, nturns,
              ncalls, ndeaths>>

NamesInit ==
  /\ hostname \in HostNames /\ hostprop \in {hostname, Unset}
  /\ dnsprop \in {Unset, DhcpMode} /\ resconf = Unset
  /\ npc = [p \in NameProcs |-> "idle"] /\ narg = [p \in NameProcs |-> Unset]
  /\ hostleft = (hostprop = Unset) /\ dnstold = {dnsprop} /\ nturns = TRUE
  /\ ncalls = 0 /\ ndeaths = 0

NameAt(p, step) == npc[p] = step
NameGoes(p, step) == npc' = [npc EXCEPT ![p] = step]

BeginName(p, arg, step) ==
  /\ NameAt(p, "idle") /\ ncalls < NameCalls
  /\ narg' = [narg EXCEPT ![p] = arg]
  /\ NameGoes(p, step)
  /\ nturns' = (nturns /\ \A q \in NameProcs : NameAt(q, "idle"))
  /\ ncalls' = ncalls + 1
  /\ UNCHANGED <<hostname, hostprop, dnsprop, resconf, hostleft, dnstold, ndeaths>>

-----------------------------------------------------------------------------
(* The host name                                                           *)

\* the name it has already is refused, whatever is stored
CallHostname(p) == \E h \in HostNames \ {hostname} : BeginName(p, h, "sethostname")

SetHostname(p) ==
  /\ NameAt(p, "sethostname")
  /\ \/ hostname' = narg[p] /\ NameGoes(p, "hostprop")
     \/ NameRefuses /\ NameGoes(p, "idle") /\ UNCHANGED hostname
  /\ UNCHANGED <<hostprop, dnsprop, resconf, narg, hostleft, dnstold, nturns, ncalls, ndeaths>>

\* Mutant: the property is written when it is not there only.
StoreHostnameOnce(p) ==
  /\ NameAt(p, "hostprop")
  /\ hostprop' = (IF hostprop = Unset THEN narg[p] ELSE hostprop) /\ hostleft' = FALSE
  /\ NameGoes(p, "idle")
  /\ UNCHANGED <<hostname, dnsprop, resconf, narg, dnstold, nturns, ncalls, ndeaths>>

StoreHostname(p) ==
  /\ NameAt(p, "hostprop")
  /\ \/ hostprop' = narg[p] /\ hostleft' = FALSE
     \/ NameRefuses /\ hostleft' = TRUE /\ UNCHANGED hostprop
  /\ NameGoes(p, "idle")
  /\ UNCHANGED <<hostname, dnsprop, resconf, narg, dnstold, nturns, ncalls, ndeaths>>

-----------------------------------------------------------------------------
(* dns_set, dns_set_dhcp and dns_unset, which are told what dns_get is to  *)
(* answer: one of Resolvers, DhcpMode or Unset                             *)

DnsGet == IF dnsprop = DhcpMode THEN DhcpMode ELSE resconf

CallDns(p) == \E d \in Resolvers \cup {DhcpMode, Unset} : BeginName(p, d, "dnsprop")

\* the call did not do all it should: what was, what it wanted, or neither
DnsHalf(p) == dnstold' = dnstold \cup {narg[p], Unset}
DnsWhole(p) == dnstold' = {narg[p]}

\* Mutant: only dns_unset takes the property away.
WriteDnsPropUnset(p) ==
  /\ NameAt(p, "dnsprop")
  /\ dnsprop' = (IF narg[p] \in Resolvers THEN dnsprop ELSE narg[p]) /\ UNCHANGED dnstold
  /\ NameGoes(p, "open")
  /\ UNCHANGED <<hostname, hostprop, resconf, narg, hostleft, nturns, ncalls, ndeaths>>

WriteDnsProp(p) ==
  /\ NameAt(p, "dnsprop")
  /\ \/ dnsprop' = (IF narg[p] = DhcpMode THEN DhcpMode ELSE Unset) /\ NameGoes(p, "open")
     \/ NameRefuses /\ NameGoes(p, "openhalf") /\ UNCHANGED dnsprop
  /\ UNCHANGED <<hostname, hostprop, resconf, narg, hostleft, dnstold, nturns, ncalls, ndeaths>>

\* resolv.conf is emptied; dns_set gives up when it is refused, the others do not mind
OpenResconf(p) ==
  /\ npc[p] \in {"open", "openhalf"}
  /\ \/ /\ resconf' = Unset
        /\ IF narg[p] \in Resolvers
           THEN NameGoes(p, IF NameAt(p, "open") THEN "write" ELSE "writehalf") /\ UNCHANGED dnstold
           ELSE NameGoes(p, "idle") /\ IF NameAt(p, "open") THEN DnsWhole(p) ELSE DnsHalf(p)
     \/ NameRefuses /\ NameGoes(p, "idle") /\ DnsHalf(p) /\ UNCHANGED resconf
  /\ UNCHANGED <<hostname, hostprop, dnsprop, narg, hostleft, nturns, ncalls, ndeaths>>

\* the lines are written by fclose
WriteResconf(p) ==
  /\ npc[p] \in {"write", "writehalf"}
  /\ resconf' = narg[p]
  /\ NameGoes(p, "idle")
  /\ IF NameAt(p, "write") THEN DnsWhole(p) ELSE DnsHalf(p)
  /\ UNCHANGED <<hostname, hostprop, dnsprop, narg, hostleft, nturns, ncalls, ndeaths>>

DieNames(p) ==
  /\ npc[p] # "idle" /\ ndeaths < NameDeaths
  /\ NameGoes(p, "idle")
  /\ hostleft' = (hostleft \/ NameAt(p, "hostprop"))
  /\ IF npc[p] \in {"sethostname", "hostprop"} THEN UNCHANGED dnstold ELSE DnsHalf(p)
  /\ ndeaths' = ndeaths + 1
  /\ UNCHANGED <<hostname, hostprop, dnsprop, resconf, narg, nturns, ncalls>>

NamesNext == \E p \in NameProcs :
  \/ CallHostname(p) \/ SetHostname(p) \/ StoreHostname(p)
  \/ CallDns(p) \/ WriteDnsProp(p) \/ OpenResconf(p) \/ WriteResconf(p)
  \/ DieNames(p)
NamesSpec == NamesInit /\ [][NamesNext]_nameVars

-----------------------------------------------------------------------------
(* Properties.                                                             *)

NamesAtRest == nturns /\ \A p \in NameProcs : NameAt(p, "idle")

\* set_hostname (451): while calls take turns, the name the kernel has is the one that
\* is stored for the next start, unless nothing was ever stored, or the call that set it
\* last died or was refused in between.  (Such a call cannot be repeated: the kernel
\* has the name already.)
HostNameStored == NamesAtRest => hostleft \/ hostprop = hostname

\* dns_set, dns_set_dhcp, dns_unset (1324-1450): while calls take turns, dns_get answers
\* what the last of them was told, whatever was set before in either place; behind a
\* call that died or was refused a part it answers the same, what it did or nothing,
\* and never servers nobody asked for since the last call that was whole.
DnsAsTold == NamesAtRest => DnsGet \in dnstold
=============================================================================
