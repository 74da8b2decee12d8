----------------------------- MODULE Addresses -----------------------------
(***************************************************************************)
(* How the shells of one host choose the addresses of their TUN devices    *)
(* (src/src/util/interfaces.cc, netdevice.cc).  A shell may be started on  *)
(* the host or inside another shell, in whose network namespace it sees    *)
(* other devices and routes; and several may start at once, since nothing  *)
(* is locked between looking for a free address and taking it.             *)
(*                                                                         *)
(* An address 100.64.0.n is its last octet n; 0 stands for no address.     *)
(***************************************************************************)
EXTENDS Naturals

CONSTANTS
  Shells,
  MaxOctet,      \* 255
  HostAddresses  \* octets in use on the host

ASSUME AddressAssumption ==
  /\ MaxOctet \in Nat
  /\ HostAddresses \subseteq 1..MaxOctet

VARIABLES
  shell,   \* the shells: state, namespace, addresses, the addresses they have
           \* seen in use, and the MAHIMAHI_BASE of their environment
  overlap  \* history: pairs of shells that were starting at the same time

addressVars == <<shell, overlap>>

host == "host"

NoShell == [state |-> "idle", where |-> host, egress |-> 0, ingress |-> 0, seen |-> {}, base |-> 0]

AddressInit ==
  /\ shell = [s \in Shells |-> NoShell]
  /\ overlap = {}

In(ns) == {s \in Shells : shell[s].state # "idle" /\ shell[s].where = ns}

\* What getifaddrs finds in a namespace, and the destinations in
\* /proc/net/route.  A device has a route when it is up.
Interfaces(ns) ==
  (IF ns = host THEN HostAddresses ELSE {shell[ns].ingress})
    \cup {shell[s].egress : s \in {t \in In(ns) : shell[t].state \in {"addressed", "up", "ready"}}}

\* Bug: the routes are not read.
Routes_unread(ns) == {}

Routes(ns) ==
  (IF ns = host THEN {} ELSE {shell[ns].egress})
    \cup {shell[s].ingress : s \in {t \in In(ns) : shell[t].state \in {"up", "ready"}}}

Starting == {"looking", "found", "addressed"}

\* The environment of the shell's command: MAHIMAHI_BASE is the egress address
\* of the outermost shell.
SetBase(s) == IF shell[s].base = 0 THEN shell[s].egress ELSE shell[s].base

\* The namespaces inside shells.  One goes on without its device when the shell
\* has ended and something that was started inside has not.
Inner == {s \in Shells : shell[s].state \in {"ready", "ended"}}

\* get_mahimahi_base, then the first half of Interfaces().
start(s, ns) ==
  /\ shell[s].state = "idle"
  /\ ns \in {host} \cup Inner
  /\ shell' = [shell EXCEPT ![s] = [NoShell EXCEPT
                 !.state = "looking", !.where = ns, !.seen = Interfaces(ns),
                 !.base = IF ns = host THEN 0 ELSE shell[ns].base]]
  /\ overlap' = overlap \cup {{s, t} : t \in {u \in In(ns) : shell[u].state \in Starting}}

\* The octets from n on that are not in use.
Free(seen, n) == n..MaxOctet \ seen

first_unassigned_address(seen, n) ==
  CHOOSE o \in Free(seen, n) : \A p \in Free(seen, n) : o <= p

\* Bug: the base address is not avoided.
InUse_without_base(s) == shell[s].seen \cup Routes(shell[s].where)

InUse(s) == shell[s].seen \cup Routes(shell[s].where) \cup {shell[s].base}

\* Where the search for the second address starts.
Second(used, one) == one + 1

\* The rest of Interfaces(), and two_unassigned_addresses.
two_unassigned_addresses(s) ==
  /\ shell[s].state = "looking"
  /\ LET used == InUse(s)
         one  == first_unassigned_address(used, 1)
         from == Second(used, one)
     IN  shell' = IF Free(used, 1) = {} \/ Free(used, from) = {}
                  THEN [shell EXCEPT ![s].state = "threw"]
                  ELSE [shell EXCEPT ![s].state = "found", ![s].seen = {}, ![s].egress = one,
                                     ![s].ingress = first_unassigned_address(used, from)]
  /\ UNCHANGED overlap

\* TunDevice: the device gets its address ...
assign_address(s) ==
  /\ shell[s].state = "found"
  /\ shell' = [shell EXCEPT ![s].state = "addressed"]
  /\ UNCHANGED overlap

\* ... its destination, and comes up.
bring_up(s) ==
  /\ shell[s].state = "addressed"
  /\ shell' = [shell EXCEPT ![s].state = "up"]
  /\ UNCHANGED overlap

\* The other end of the device is in the namespace of the shell's command.
enter_namespace(s) ==
  /\ shell[s].state = "up"
  /\ shell' = [shell EXCEPT ![s].state = "ready", ![s].base = SetBase(s)]
  /\ UNCHANGED overlap

\* The shell ends, and its device is gone, whether or not others are inside.
end(s) ==
  /\ shell[s].state \in {"ready", "threw"}
  /\ shell' = IF shell[s].state = "threw" THEN [shell EXCEPT ![s] = NoShell]
              ELSE [shell EXCEPT ![s].state = "ended", ![s].egress = 0, ![s].ingress = 0]
  /\ overlap' = {p \in overlap : s \notin p}

\* The kernel frees a namespace that nobody is in.
free_namespace(s) ==
  /\ shell[s].state = "ended"
  /\ In(s) = {}
  /\ shell' = [shell EXCEPT ![s] = NoShell]
  /\ UNCHANGED overlap

AddressStep ==
  \E s \in Shells :
    \/ \E ns \in Shells \cup {host} : start(s, ns)
    \/ two_unassigned_addresses(s) \/ assign_address(s) \/ bring_up(s)
    \/ enter_namespace(s) \/ end(s) \/ free_namespace(s)

-----------------------------------------------------------------------------
(* Properties *)

WithDevice == {s \in Shells : shell[s].state \in {"addressed", "up", "ready"}}

\* Types of the state.
AddressTypeOK ==
  \A s \in Shells :
    /\ shell[s].state \in {"idle", "looking", "found", "addressed", "up", "ready", "ended",
                          "threw"}
    /\ shell[s].where \in Shells \cup {host}
    /\ {shell[s].egress, shell[s].ingress, shell[s].base} \cup shell[s].seen \subseteq 0..MaxOctet

\* The two ends of a device differ, and neither is used by the host.  Two
\* shells in a namespace share an address only if they were starting at the
\* same time: then both may have found the same addresses free.
OwnAddresses ==
  /\ \A s \in WithDevice :
       /\ shell[s].egress # shell[s].ingress
       /\ shell[s].where = host =>
            {shell[s].egress, shell[s].ingress} \cap HostAddresses = {}
  /\ \A s, t \in WithDevice :
       s # t /\ shell[s].where = shell[t].where =>
         \/ {s, t} \in overlap
         \/ {shell[s].egress, shell[s].ingress} \cap {shell[t].egress, shell[t].ingress} = {}

\* MAHIMAHI_BASE, the address under which commands at any depth of nested
\* shells reach the host, is not the address of any device inside a shell: a
\* packet for it leaves every shell.
BaseReachable ==
  \A s \in WithDevice :
    shell[s].where # host =>
      shell[shell[s].where].base \notin {shell[s].egress, shell[s].ingress}

=============================================================================
