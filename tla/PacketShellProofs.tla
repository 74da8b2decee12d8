------------------------- MODULE PacketShellProofs -------------------------
(***************************************************************************)
(* Theorems about the processes of the shell: whatever the user sends,     *)
(* stops and continues, and whichever step fails or aborts, no process but *)
(* an uplink that aborts leaves children behind, every NAT rule is removed *)
(* unless iptables itself fails, no check of the code against itself       *)
(* fails, and main's exit status has a reason.                             *)
(*                                                                         *)
(* The invariant is a predicate of a table of processes, so that it can be *)
(* carried through the operators that take one table to the next: what is  *)
(* true of each process by itself (Sound), of a parent and its children    *)
(* (FamilySound), and of what came from outside (Explained).               *)
(***************************************************************************)
EXTENDS PacketShell, TLAPS

Parents == {"root", "uplink"}
First(p) == IF p = "root" THEN "uplink" ELSE "dnsmasq"
Second(p) == IF p = "root" THEN "downlink" ELSE "command"

Labels ==
  {"born", "nat", "fork_uplink", "fork_downlink", "loop", "setup", "fork_dnsmasq",
   "await_dnsmasq", "fork_command", "send_fd", "recv_fd", "queue", "program",
   "poll", "search", "destroy", "destroy_wait", "rules", "end", "abort"}

ProcessRecord ==
  [state : {"unborn", "running", "stopped", "dead", "reaped"}, pc : Labels,
   mask : SUBSET LoopSignals, pending : SUBSET LoopSignals,
   report : {"none", "stopped", "continued"}, status : {0, 1}, ret : {0, 1},
   next : 1..3, running_ : BOOLEAN, terminated_ : BOOLEAN, priv : BOOLEAN, env : BOOLEAN]

Unborn(r) == r.state = "unborn"
Ended_(r) == r.state \in {"dead", "reaped"}
Away(r) == r.state \in {"unborn", "reaped"}
Alive(r) == r.state \in {"running", "stopped"}
Destroying(r) == r.pc \in {"destroy", "destroy_wait"}
Cleaning(r) == r.pc \in {"destroy", "destroy_wait", "rules"}
Leaving(r) == r.pc \in {"destroy", "destroy_wait", "rules", "end", "abort"}

\* From the first fork on, and in the loop, the signals are blocked.
Blocking(r) ==
  r.pc \in {"fork_uplink", "fork_downlink", "loop", "fork_dnsmasq", "await_dnsmasq",
            "fork_command", "send_fd", "queue", "poll", "search"}

\* A process that was not created is new; one that has ended stays at its end.
LifeSound(r) ==
  /\ Unborn(r) => /\ r.pc = "born" /\ r.pending = {} /\ r.report = "none"
                  /\ r.running_ /\ ~ r.env
  /\ r.terminated_ <=> r.state = "reaped"
  /\ Ended_(r) => r.pc \in {"end", "abort"}

\* A report that was not waited for is the last change of state, and with no
\* report ChildProcess is up to date.
BeliefSound(r) ==
  /\ Alive(r) => /\ r.report = "none" => (r.running_ <=> r.state = "running")
                 /\ r.report = "stopped" => r.state = "stopped"
                 /\ r.report = "continued" => r.state = "running"
  /\ r.state \in {"dead", "reaped"} => r.report = "none"

\* The signals that are blocked, and which can be pending.
MaskSound(p, r) ==
  /\ Blocking(r) => r.mask = LoopSignals
  /\ p = "root" => r.mask \in {{}, LoopSignals}
  /\ r.pc = "nat" => r.mask = {}
  /\ r.pc = "program" => /\ p \in Programs
                         /\ r.mask = Terminating /\ r.pending \subseteq Terminating
  /\ p \notin Parents => "CHLD" \notin r.pending /\ r.pc # "destroy_wait"

\* Who has root's rights, and who the user's environment.
RightsSound(p, r) ==
  /\ p \in {"root", "dnsmasq"} => ~ r.env
  /\ p = "root" /\ Cleaning(r) => r.priv
  /\ p = "uplink" /\ r.pc \in {"born", "setup", "fork_dnsmasq"} => ~ r.env
  /\ p = "command" /\ ~ Unborn(r) => ~ r.priv
  /\ r.pc \in {"recv_fd", "send_fd", "queue"} => ~ r.priv

Sound(p, r) ==
  LifeSound(r) /\ (p # "root" => BeliefSound(r)) /\ MaskSound(p, r) /\ RightsSound(p, r)

\* A parent r and its children a and b, in the order in which they are created:
\* none before the signals are blocked, none left when the parent has ended
\* unless it aborted, and none left before the one that the destructor has come
\* to.
FamilySound(r, a, b) ==
  /\ Unborn(a) => Unborn(b)
  /\ r.mask # LoopSignals => Unborn(a)
  /\ r.pc \in {"born", "nat", "setup", "fork_uplink", "fork_dnsmasq"} => Unborn(a)
  /\ r.pc \in {"fork_downlink", "await_dnsmasq", "fork_command"} => ~ Unborn(a) /\ Unborn(b)
  /\ r.pc \in {"rules", "end"} => Away(a) /\ Away(b)
  /\ Destroying(r) => (r.next > 1 => Away(a)) /\ (r.next > 2 => Away(b))
  /\ r.pc = "destroy_wait" => \/ r.next = 1 /\ ~ Unborn(a)
                              \/ r.next = 2 /\ ~ Unborn(b)
  /\ "CHLD" \in r.pending => ~ Unborn(a)

\* What came from outside is a reason to end with this status.
Reason(e, status) ==
  \/ "signal" \in e
  \/ status = 0 /\ "ok" \in e
  \/ status # 0 /\ "fail" \in e

\* Unless the parent is leaving, which is a reason of its own, signals, returns
\* and ends have a reason outside.
Explained(r, free, e) ==
  \/ free
  \/ /\ r.pending \cap Terminating # {} => "signal" \in e
     /\ Cleaning(r) => Reason(e, r.ret)
     /\ r.state = "dead" => Reason(e, r.status)

\* The rules n of main r: once it has blocked the signals they are in place until
\* the destructor of NAT, which has the rights to remove them, and main does not
\* end before it.
RulesSound(r, n) ==
  /\ r.pc # "abort"
  /\ \A x \in Rules : n[x] # "denied"
  /\ r.mask # {} /\ r.pc \notin {"rules", "end"} => \A x \in Rules : n[x] = "owned"
  /\ r.mask # {} /\ r.pc = "end" => \A x \in Rules : n[x] # "owned"

Free(t, p) == p # "root" /\ Leaving(t[Parent[p]])

TreeInv(t, e, n) ==
  /\ t \in [Procs -> ProcessRecord]
  /\ \A p \in Procs : Sound(p, t[p])
  /\ \A p \in Parents : FamilySound(t[p], t[First(p)], t[Second(p)])
  /\ \A p \in Procs : Explained(t[p], Free(t, p), e)
  /\ RulesSound(t["root"], n)

ShellInv ==
  /\ TreeInv(proc, ended, nat)
  /\ ~ bug
  /\ nat \in [Rules -> RuleStates]
  /\ ended \subseteq {"ok", "fail", "signal"}

-----------------------------------------------------------------------------
(* Tables of processes *)

LEMMA ParentOf ==
  /\ Parent["uplink"] = "root" /\ Parent["downlink"] = "root"
  /\ Parent["dnsmasq"] = "uplink" /\ Parent["command"] = "uplink"
BY DEF Parent, Procs, Programs

\* A child may change as long as it is not born and does not come back.
ChildMay(a, c) == (Unborn(c) <=> Unborn(a)) /\ (Away(a) => Away(c))

\* A family stays sound when a child changes as it may.
LEMMA FamilyKept ==
  ASSUME NEW r, NEW a, NEW b, NEW c, FamilySound(r, a, b)
  PROVE  /\ ChildMay(a, c) => FamilySound(r, c, b)
         /\ ChildMay(b, c) => FamilySound(r, a, c)
BY DEF FamilySound, ChildMay

\* One process changes.
LEMMA OneChanges ==
  ASSUME NEW t, NEW e, NEW n, TreeInv(t, e, n),
         NEW p \in Procs, NEW r \in ProcessRecord,
         Sound(p, r),
         ChildMay(t[p], r),
         Leaving(t[p]) => Leaving(r),
         p \in Parents => FamilySound(r, t[First(p)], t[Second(p)]),
         Explained(r, Free(t, p), e),
         p = "root" => RulesSound(r, n)
  PROVE  TreeInv([t EXCEPT ![p] = r], e, n)
<1> DEFINE u == [t EXCEPT ![p] = r]
<1>1. /\ t \in [Procs -> ProcessRecord]
      /\ \A q \in Procs : Sound(q, t[q])
      /\ \A q \in Parents : FamilySound(t[q], t[First(q)], t[Second(q)])
      /\ \A q \in Procs : Explained(t[q], Free(t, q), e)
      /\ RulesSound(t["root"], n)
  BY DEF TreeInv
<1>2. /\ u \in [Procs -> ProcessRecord]
      /\ u[p] = r
      /\ \A q \in Procs : q # p => u[q] = t[q]
  BY <1>1
<1> HIDE DEF u
<1>3. \A q \in Procs : Sound(q, u[q])
  BY <1>1, <1>2
<1>4. ASSUME NEW q \in Parents PROVE FamilySound(u[q], u[First(q)], u[Second(q)])
  <2>1. /\ q \in Procs /\ First(q) \in Procs /\ Second(q) \in Procs
        /\ First(q) # q /\ Second(q) # q /\ First(q) # Second(q)
    BY DEF Parents, Procs, First, Second
  <2>2. CASE p = q
    BY <1>2, <2>1, <2>2
  <2>3. CASE p = First(q)
    BY <1>1, <1>2, <2>1, <2>3, FamilyKept
  <2>4. CASE p = Second(q)
    BY <1>1, <1>2, <2>1, <2>4, FamilyKept
  <2>5. CASE p \notin {q, First(q), Second(q)}
    BY <1>1, <1>2, <2>1, <2>5
  <2> QED
    BY <2>2, <2>3, <2>4, <2>5
<1>5. ASSUME NEW q \in Procs PROVE Explained(u[q], Free(u, q), e)
  <2>1. Free(t, q) => Free(u, q)
    <3>1. q # "root" => Parent[q] \in Procs
      BY ParentOf DEF Procs
    <3> QED
      BY <1>2, <3>1 DEF Free
  <2>2. CASE q = p
    BY <1>2, <2>1, <2>2 DEF Explained
  <2>3. CASE q # p
    BY <1>1, <1>2, <2>1, <2>3 DEF Explained
  <2> QED
    BY <2>2, <2>3
<1>6. RulesSound(u["root"], n)
  BY <1>1, <1>2 DEF Procs
<1> QED
  BY <1>2, <1>3, <1>4, <1>5, <1>6 DEF TreeInv, u

\* More may come from outside.
LEMMA MoreOutside ==
  ASSUME NEW t, NEW e, NEW f, NEW n, TreeInv(t, e, n), e \subseteq f
  PROVE  TreeInv(t, f, n)
<1>1. ASSUME NEW p \in Procs PROVE Explained(t[p], Free(t, p), f)
  <2>1. Explained(t[p], Free(t, p), e)
    BY DEF TreeInv
  <2> QED
    BY <2>1 DEF Explained, Reason
<1> QED
  BY <1>1 DEF TreeInv

\* Rules come and go.
LEMMA OtherRules ==
  ASSUME NEW t, NEW e, NEW n, NEW m, TreeInv(t, e, n), RulesSound(t["root"], m)
  PROVE  TreeInv(t, e, m)
BY DEF TreeInv

-----------------------------------------------------------------------------
(* What the kernel does *)

LEMMA InTable ==
  ASSUME NEW t, NEW e, NEW n, TreeInv(t, e, n), NEW p \in Procs
  PROVE  /\ t \in [Procs -> ProcessRecord]
         /\ t[p] \in ProcessRecord
         /\ Sound(p, t[p])
         /\ Explained(t[p], Free(t, p), e)
         /\ p \in Parents => FamilySound(t[p], t[First(p)], t[Second(p)])
         /\ p = "root" => RulesSound(t[p], n)
BY DEF TreeInv

\* A parent is told of its child: the parent has one, and a signal that does
\* not terminate needs no explanation.
LEMMA ParentIsTold ==
  ASSUME NEW t, NEW e, NEW n, TreeInv(t, e, n),
         NEW p \in Procs, p # "root", ~ Unborn(t[p])
  PROVE  TreeInv([t EXCEPT ![Parent[p]].pending = @ \cup {"CHLD"}], e, n)
<1> DEFINE q == Parent[p]
           r == [t[q] EXCEPT !.pending = @ \cup {"CHLD"}]
<1>1. /\ q \in Parents /\ q \in Procs /\ p \in {First(q), Second(q)}
  BY ParentOf DEF Procs, Parents, First, Second
<1> HIDE DEF q
<1>2. /\ t \in [Procs -> ProcessRecord] /\ t[q] \in ProcessRecord /\ Sound(q, t[q])
      /\ Explained(t[q], Free(t, q), e)
      /\ FamilySound(t[q], t[First(q)], t[Second(q)])
      /\ q = "root" => RulesSound(t[q], n)
  BY <1>1, InTable
<1>3. r \in ProcessRecord
  BY <1>2 DEF ProcessRecord, LoopSignals
<1>4. /\ r.pending = t[q].pending \cup {"CHLD"}
      /\ r.state = t[q].state /\ r.pc = t[q].pc /\ r.mask = t[q].mask
      /\ r.report = t[q].report /\ r.status = t[q].status /\ r.ret = t[q].ret
      /\ r.next = t[q].next /\ r.running_ = t[q].running_
      /\ r.terminated_ = t[q].terminated_ /\ r.priv = t[q].priv /\ r.env = t[q].env
  BY <1>2 DEF ProcessRecord
<1> HIDE DEF r
<1>5. ~ Unborn(t[First(q)])
  BY <1>1, <1>2 DEF FamilySound
<1>6. ~ Unborn(t[q])
  BY <1>2, <1>5 DEF FamilySound, Sound, LifeSound
<1>7. Sound(q, r)
  <2>1. LifeSound(r)
    BY <1>2, <1>4, <1>6 DEF Sound, LifeSound, Unborn, Ended_
  <2>2. q # "root" => BeliefSound(r)
    BY <1>2, <1>4 DEF Sound, BeliefSound, Alive
  <2>3. MaskSound(q, r)
    BY <1>1, <1>2, <1>4 DEF Sound, MaskSound, Blocking, Programs, Parents
  <2>4. RightsSound(q, r)
    BY <1>2, <1>4 DEF Sound, RightsSound, Cleaning, Unborn
  <2> QED
    BY <2>1, <2>2, <2>3, <2>4 DEF Sound
<1>8. FamilySound(r, t[First(q)], t[Second(q)])
  BY <1>2, <1>4, <1>5 DEF FamilySound, Destroying
<1>9. Explained(r, Free(t, q), e)
  <2>1. r.pending \cap Terminating = t[q].pending \cap Terminating
    BY <1>4 DEF Terminating
  <2> QED
    BY <1>2, <1>4, <2>1 DEF Explained, Cleaning
<1>10. TreeInv([t EXCEPT ![q] = r], e, n)
  <2>1. ChildMay(t[q], r) /\ (Leaving(t[q]) => Leaving(r))
    BY <1>4 DEF ChildMay, Unborn, Away, Leaving
  <2>2. q = "root" => RulesSound(r, n)
    BY <1>2, <1>4 DEF RulesSound
  <2> QED
    BY <1>1, <1>3, <1>7, <1>8, <1>9, <2>1, <2>2, OneChanges
<1>11. [t EXCEPT ![q].pending = @ \cup {"CHLD"}] = [t EXCEPT ![q] = r]
  BY <1>1, <1>2 DEF r
<1> QED
  BY <1>10, <1>11 DEF q

\* Updates of fields of a process give a process: here its state and report.
LEMMA StateAndReport ==
  ASSUME NEW r \in ProcessRecord,
         NEW s \in {"unborn", "running", "stopped", "dead", "reaped"},
         NEW x \in {"none", "stopped", "continued"}
  PROVE  [r EXCEPT !.state = s, !.report = x] \in ProcessRecord
<1> DEFINE a == [r EXCEPT !.state = s]
<1>1. a \in ProcessRecord
  BY DEF ProcessRecord
<1> HIDE DEF a
<1>2. [a EXCEPT !.report = x] \in ProcessRecord
  BY <1>1 DEF ProcessRecord
<1> QED
  BY <1>2 DEF a

\* The change of state that p may make.
MayBecome(t, e, p, s, x) ==
  \/ t[p].state = "stopped" /\ s = "running" /\ x = "continued"
  \/ t[p].state = "running" /\ s = "stopped" /\ x = "stopped"
  \/ /\ t[p].state \in {"running", "stopped", "dead"} /\ s = "dead" /\ x = "none"
     /\ t[p].pc \in {"end", "abort"}
     /\ Free(t, p) \/ Reason(e, t[p].status)

\* The invariant survives a change of state that MayBecome allows, SIGCHLD to
\* the parent included.
LEMMA ChangeKeeps ==
  ASSUME NEW t, NEW e, NEW n, TreeInv(t, e, n),
         NEW p \in Procs, NEW s, NEW x, MayBecome(t, e, p, s, x)
  PROVE  TreeInv(Change(t, p, s, x), e, n)
<1> DEFINE r == IF p = "root" THEN [t[p] EXCEPT !.state = s]
                ELSE [t[p] EXCEPT !.state = s, !.report = x]
           u == [t EXCEPT ![p] = r]
<1>1. /\ t \in [Procs -> ProcessRecord] /\ t[p] \in ProcessRecord
      /\ Sound(p, t[p]) /\ Explained(t[p], Free(t, p), e)
      /\ p \in Parents => FamilySound(t[p], t[First(p)], t[Second(p)])
      /\ p = "root" => RulesSound(t[p], n)
  BY InTable
<1>2. s \in {"running", "stopped", "dead"} /\ x \in {"none", "stopped", "continued"}
  BY DEF MayBecome
<1>3. r \in ProcessRecord
  <2>1. [t[p] EXCEPT !.state = s] \in ProcessRecord
    BY <1>1, <1>2 DEF ProcessRecord
  <2>2. [t[p] EXCEPT !.state = s, !.report = x] \in ProcessRecord
    BY <1>1, <1>2, StateAndReport
  <2> QED
    BY <2>1, <2>2
<1>4. /\ r.state = s /\ (p # "root" => r.report = x)
      /\ r.pc = t[p].pc /\ r.mask = t[p].mask /\ r.pending = t[p].pending
      /\ r.status = t[p].status /\ r.ret = t[p].ret /\ r.next = t[p].next
      /\ r.running_ = t[p].running_ /\ r.terminated_ = t[p].terminated_
      /\ r.priv = t[p].priv /\ r.env = t[p].env
  BY <1>1 DEF ProcessRecord
<1>5. p # "root" =>
        u = [t EXCEPT ![p].state = s, ![p].report = x]
  BY <1>1
<1>6. p = "root" => u = [t EXCEPT ![p].state = s]
  BY <1>1
<1>7. u[p] = r /\ (\A q \in Procs : q # p => u[q] = t[q])
  BY <1>1
<1> HIDE DEF r
<1>8. TreeInv(u, e, n)
  <2>1. Sound(p, r)
    <3>1. LifeSound(r)
      BY <1>1, <1>2, <1>4 DEF Sound, LifeSound, Unborn, Ended_, MayBecome
    <3>2. p # "root" => BeliefSound(r)
      BY <1>4 DEF BeliefSound, Alive, MayBecome
    <3>3. MaskSound(p, r)
      BY <1>1, <1>4 DEF Sound, MaskSound, Blocking
    <3>4. RightsSound(p, r)
      BY <1>1, <1>4 DEF Sound, RightsSound, Cleaning, Unborn, MayBecome
    <3> QED
      BY <3>1, <3>2, <3>3, <3>4 DEF Sound
  <2>2. ChildMay(t[p], r) /\ (Leaving(t[p]) => Leaving(r))
    BY <1>4 DEF ChildMay, Unborn, Away, Leaving, MayBecome
  <2>3. p \in Parents => FamilySound(r, t[First(p)], t[Second(p)])
    BY <1>1, <1>4 DEF FamilySound, Destroying, MayBecome
  <2>4. Explained(r, Free(t, p), e)
    BY <1>1, <1>4 DEF Explained, Cleaning, MayBecome
  <2>5. p = "root" => RulesSound(r, n)
    BY <1>1, <1>4 DEF RulesSound, MayBecome
  <2> QED
    BY <1>3, <2>1, <2>2, <2>3, <2>4, <2>5, OneChanges
<1> HIDE DEF u
<1>9. CASE p = "root"
  BY <1>6, <1>8, <1>9 DEF Change
<1>10. CASE p # "root" /\ Change(t, p, s, x) = [t EXCEPT ![p].state = s, ![p].report = x]
  BY <1>5, <1>8, <1>10
<1>11. CASE p # "root" /\ Change(t, p, s, x) # [t EXCEPT ![p].state = s, ![p].report = x]
  <2>1. ~ Unborn(u[p])
    BY <1>2, <1>4, <1>7 DEF Unborn
  <2>2. TreeInv([u EXCEPT ![Parent[p]].pending = @ \cup {"CHLD"}], e, n)
    BY <1>8, <1>11, <2>1, ParentIsTold
  <2> QED
    BY <1>5, <1>11, <2>2 DEF Change
<1> QED
  BY <1>9, <1>10, <1>11

\* What an operation on process c leaves alone: where the others are.
Apart(t, u, c) ==
  /\ Unborn(u[c]) <=> Unborn(t[c])
  /\ \A q \in Procs \ {c} :
       u[q].state = t[q].state /\ u[q].pc = t[q].pc /\ u[q].next = t[q].next

\* Apart is transitive, and a change of state is apart from everybody else.
LEMMA ApartTwice ==
  ASSUME NEW t, NEW u, NEW v, NEW c, Apart(t, u, c), Apart(u, v, c)
  PROVE  Apart(t, v, c)
BY DEF Apart

LEMMA ChangeApart ==
  ASSUME NEW t \in [Procs -> ProcessRecord], NEW p \in Procs, ~ Unborn(t[p]),
         NEW s \in {"running", "stopped", "dead"}, NEW x
  PROVE  /\ Apart(t, Change(t, p, s, x), p)
         /\ LET r == Change(t, p, s, x)[p]
            IN  r.state = s /\ r.pc = t[p].pc /\ r.mask = t[p].mask /\ r.pending = t[p].pending
<1> DEFINE u == [t EXCEPT ![p].state = s, ![p].report = x]
           v == [t EXCEPT ![p].state = s]
           w == [u EXCEPT ![Parent[p]].pending = @ \cup {"CHLD"}]
<1>1. t[p] \in ProcessRecord
  OBVIOUS
<1>2. /\ u[p].state = s /\ u[p].pc = t[p].pc /\ u[p].mask = t[p].mask
      /\ u[p].pending = t[p].pending
      /\ DOMAIN u = Procs /\ (\A q \in Procs : q # p => u[q] = t[q])
  BY <1>1 DEF ProcessRecord
<1>3. /\ v[p].state = s /\ v[p].pc = t[p].pc /\ v[p].mask = t[p].mask
      /\ v[p].pending = t[p].pending
      /\ \A q \in Procs : q # p => v[q] = t[q]
  BY <1>1 DEF ProcessRecord
<1>4. p # "root" => /\ Parent[p] \in Procs /\ Parent[p] # p
  BY ParentOf DEF Procs
<1>5. p # "root" =>
        /\ w[p] = u[p]
        /\ \A q \in Procs \ {p} :
             w[q].state = t[q].state /\ w[q].pc = t[q].pc /\ w[q].next = t[q].next
  <2>1. SUFFICES ASSUME p # "root" PROVE <1>5!2
    OBVIOUS
  <2>2. w[p] = u[p]
    BY <1>4, <2>1
  <2>3. ASSUME NEW q \in Procs \ {p}
        PROVE  w[q].state = t[q].state /\ w[q].pc = t[q].pc /\ w[q].next = t[q].next
    <3>1. t[q] \in ProcessRecord
      OBVIOUS
    <3>2. [t[q] EXCEPT !.pending = @ \cup {"CHLD"}].state = t[q].state
          /\ [t[q] EXCEPT !.pending = @ \cup {"CHLD"}].pc = t[q].pc
          /\ [t[q] EXCEPT !.pending = @ \cup {"CHLD"}].next = t[q].next
      BY <3>1 DEF ProcessRecord
    <3>3. w[q] = IF q = Parent[p] THEN [t[q] EXCEPT !.pending = @ \cup {"CHLD"}] ELSE t[q]
      BY <1>2, <2>3
    <3> QED
      BY <3>2, <3>3
  <2> QED
    BY <2>2, <2>3
<1> HIDE DEF u, v, w
<1>6. CASE p = "root"
  <2>1. Change(t, p, s, x) = v
    BY <1>6 DEF Change, v
  <2> QED
    BY <1>3, <2>1 DEF Apart, Unborn
<1>7. CASE p # "root" /\ Change(t, p, s, x) = u
  BY <1>2, <1>7 DEF Apart, Unborn
<1>8. CASE p # "root" /\ Change(t, p, s, x) = w
  BY <1>2, <1>5, <1>8 DEF Apart, Unborn
<1>9. p # "root" => Change(t, p, s, x) \in {u, w}
  BY DEF Change, u, w
<1> QED
  BY <1>6, <1>7, <1>8, <1>9

\* The fields that EndAt clears.
LEMMA EndFields ==
  ASSUME NEW r \in ProcessRecord, NEW s \in {0, 1}, NEW l \in {"end", "abort"}
  PROVE  [r EXCEPT !.status = s, !.pending = {}, !.pc = l, !.ret = 0, !.next = 1]
           \in ProcessRecord
<1> DEFINE a == [r EXCEPT !.status = s]
           b == [a EXCEPT !.pending = {}]
           c == [b EXCEPT !.pc = l]
           d == [c EXCEPT !.ret = 0]
<1>1. a \in ProcessRecord
  BY DEF ProcessRecord
<1> HIDE DEF a
<1>2. b \in ProcessRecord
  BY <1>1 DEF ProcessRecord
<1> HIDE DEF b
<1>3. c \in ProcessRecord
  <2>1. l \in Labels
    BY DEF Labels
  <2> QED
    BY <1>2, <2>1 DEF ProcessRecord
<1> HIDE DEF c
<1>4. d \in ProcessRecord
  BY <1>3 DEF ProcessRecord
<1> HIDE DEF d
<1>5. [d EXCEPT !.next = 1] \in ProcessRecord
  BY <1>4 DEF ProcessRecord
<1> QED
  BY <1>5 DEF a, b, c, d

\* When p may end with a status, for which there is a reason: if it does not
\* abort, none of its children and none of main's rules is left.
MayEndAt(t, e, n, p, s, l) ==
  /\ t[p].state \in {"running", "stopped", "dead"}
  /\ p \in Parents /\ l = "end" => Away(t[First(p)]) /\ Away(t[Second(p)])
  /\ Free(t, p) \/ Reason(e, s)
  /\ p = "root" => l = "end" /\ (t[p].mask = {} \/ \A x \in Rules : n[x] # "owned")

MayEnd(t, e, n, p, s) == MayEndAt(t, e, n, p, s, "end")

\* A process that may end ends: the invariant holds, and nobody but its parent
\* notices.
LEMMA EndKeeps ==
  ASSUME NEW t, NEW e, NEW n, TreeInv(t, e, n), NEW p \in Procs, NEW s \in {0, 1},
         NEW l \in {"end", "abort"}, MayEndAt(t, e, n, p, s, l)
  PROVE  /\ TreeInv(EndAt(t, p, s, l), e, n)
         /\ Apart(t, EndAt(t, p, s, l), p)
         /\ EndAt(t, p, s, l)[p].state = "dead"
<1> DEFINE r == [t[p] EXCEPT !.status = s, !.pending = {}, !.pc = l, !.ret = 0, !.next = 1]
           u == [t EXCEPT ![p] = r]
<1>1. /\ t \in [Procs -> ProcessRecord] /\ t[p] \in ProcessRecord
      /\ Sound(p, t[p]) /\ Explained(t[p], Free(t, p), e)
      /\ p \in Parents => FamilySound(t[p], t[First(p)], t[Second(p)])
      /\ p = "root" => RulesSound(t[p], n)
  BY InTable
<1>2. r \in ProcessRecord
  BY <1>1, EndFields
<1>3. /\ r.state = t[p].state /\ r.report = t[p].report
      /\ r.pc = l /\ r.mask = t[p].mask /\ r.pending = {}
      /\ r.status = s /\ r.running_ = t[p].running_ /\ r.terminated_ = t[p].terminated_
      /\ r.priv = t[p].priv /\ r.env = t[p].env
  BY <1>1 DEF ProcessRecord
<1>4. u = [t EXCEPT ![p].status = s, ![p].pending = {}, ![p].pc = l,
                    ![p].ret = 0, ![p].next = 1]
  BY <1>1
<1>5. u[p] = r /\ (\A q \in Procs : q # p => u[q] = t[q])
  BY <1>1
<1> HIDE DEF r
<1>6. TreeInv(u, e, n)
  <2>1. Sound(p, r)
    <3>1. LifeSound(r)
      BY <1>1, <1>3 DEF Sound, LifeSound, Unborn, Ended_, MayEndAt
    <3>2. p # "root" => BeliefSound(r)
      BY <1>1, <1>3 DEF Sound, BeliefSound, Alive
    <3>3. MaskSound(p, r)
      BY <1>1, <1>3 DEF Sound, MaskSound, Blocking
    <3>4. RightsSound(p, r)
      BY <1>1, <1>3 DEF Sound, RightsSound, Cleaning, Unborn, MayEndAt
    <3> QED
      BY <3>1, <3>2, <3>3, <3>4 DEF Sound
  <2>2. ChildMay(t[p], r) /\ Leaving(r)
    BY <1>3 DEF ChildMay, Unborn, Away, Leaving
  <2>3. p \in Parents => FamilySound(r, t[First(p)], t[Second(p)])
    BY <1>1, <1>3 DEF FamilySound, Destroying, MayEndAt
  <2>4. Explained(r, Free(t, p), e)
    BY <1>3 DEF Explained, Cleaning, MayEndAt
  <2>5. p = "root" => RulesSound(r, n)
    BY <1>1, <1>3 DEF RulesSound, MayEndAt
  <2> QED
    BY <1>2, <2>1, <2>2, <2>3, <2>4, <2>5, OneChanges
<1> HIDE DEF u
<1>7. MayBecome(u, e, p, "dead", "none")
  <2>1. Free(u, p) <=> Free(t, p)
    <3>1. p # "root" => Parent[p] \in Procs /\ Parent[p] # p
      BY ParentOf DEF Procs
    <3> QED
      BY <1>5, <3>1 DEF Free
  <2> QED
    BY <1>3, <1>5, <2>1 DEF MayBecome, MayEndAt
<1>8. EndAt(t, p, s, l) = Change(u, p, "dead", "none")
  BY <1>4 DEF EndAt
<1>9. /\ u \in [Procs -> ProcessRecord] /\ ~ Unborn(u[p])
      /\ Apart(t, u, p)
  BY <1>1, <1>2, <1>3, <1>5 DEF u, Unborn, MayEndAt, Apart
<1>10. TreeInv(Change(u, p, "dead", "none"), e, n)
  BY <1>6, <1>7, ChangeKeeps
<1>11. /\ Apart(u, Change(u, p, "dead", "none"), p)
       /\ Change(u, p, "dead", "none")[p].state = "dead"
  BY <1>9, ChangeApart
<1> QED
  BY <1>8, <1>9, <1>10, <1>11, ApartTwice

LEMMA DieKeeps ==
  ASSUME NEW t, NEW e, NEW n, TreeInv(t, e, n),
         NEW p \in Procs, NEW s \in {0, 1}, MayEnd(t, e, n, p, s)
  PROVE  /\ TreeInv(Die(t, p, s), e, n)
         /\ Apart(t, Die(t, p, s), p)
         /\ Die(t, p, s)[p].state = "dead"
BY EndKeeps DEF Die, MayEnd

\* Apart is reflexive.
LEMMA NothingChanges == ASSUME NEW t, NEW c PROVE Apart(t, t, c)
BY DEF Apart

\* A signal kills only a process that has not blocked the signals yet, and so
\* has no children.
LEMMA ActKeeps ==
  ASSUME NEW t, NEW e, NEW n, TreeInv(t, e, n), NEW p \in Procs
  PROVE  /\ TreeInv(Act(t, p), e, n) /\ Apart(t, Act(t, p), p)
         /\ Act(t, p) = t \/ Act(t, p)[p].state = "dead"
<1>1. CASE t[p].state = "running" /\ t[p].pending \cap (Terminating \ t[p].mask) # {}
  <2>1. /\ Sound(p, t[p]) /\ Explained(t[p], Free(t, p), e)
        /\ p \in Parents => FamilySound(t[p], t[First(p)], t[Second(p)])
    BY InTable
  <2>2. t[p].mask # LoopSignals
    BY <1>1 DEF LoopSignals
  <2>3. p \in Parents => Away(t[First(p)]) /\ Away(t[Second(p)])
    BY <2>1, <2>2 DEF FamilySound, Unborn, Away
  <2>4. Free(t, p) \/ Reason(e, 1)
    <3>1. t[p].pending \cap Terminating # {}
      BY <1>1
    <3> QED
      BY <2>1, <3>1 DEF Explained, Reason
  <2>5. p = "root" => t[p].mask = {}
    BY <2>1, <2>2 DEF Sound, MaskSound
  <2>6. MayEnd(t, e, n, p, 1)
    BY <1>1, <2>3, <2>4, <2>5 DEF MayEnd, MayEndAt
  <2>7. Act(t, p) = Die(t, p, 1)
    BY <1>1 DEF Act
  <2> QED
    BY <2>6, <2>7, DieKeeps
<1>2. CASE ~ (t[p].state = "running" /\ t[p].pending \cap (Terminating \ t[p].mask) # {})
  BY <1>2, NothingChanges DEF Act
<1> QED
  BY <1>1, <1>2

\* SIGCONT at a process: it runs again if it was stopped, and its parent is told.
LEMMA ResumeKeeps ==
  ASSUME NEW t, NEW e, NEW n, TreeInv(t, e, n), NEW p \in Procs
  PROVE  /\ TreeInv(Resume(t, p), e, n) /\ Apart(t, Resume(t, p), p)
         /\ Resume(t, p)[p].pc = t[p].pc /\ Resume(t, p)[p].mask = t[p].mask
         /\ t[p].state \in {"running", "stopped"} => Resume(t, p)[p].state = "running"
<1>1. CASE t[p].state # "stopped"
  BY <1>1, NothingChanges DEF Resume
<1>2. CASE t[p].state = "stopped"
  <2>1. t \in [Procs -> ProcessRecord] /\ ~ Unborn(t[p])
    BY <1>2, InTable DEF Unborn
  <2>2. MayBecome(t, e, p, "running", "continued")
    BY <1>2 DEF MayBecome
  <2>3. Resume(t, p) = Change(t, p, "running", "continued")
    BY <1>2 DEF Resume
  <2>4. TreeInv(Change(t, p, "running", "continued"), e, n)
    BY <2>2, ChangeKeeps
  <2> QED
    BY <2>1, <2>3, <2>4, ChangeApart
<1> QED
  BY <1>1, <1>2

\* Only the pending signals of p change, to others that have their reasons.
LEMMA PendingChanges ==
  ASSUME NEW t, NEW e, NEW n, TreeInv(t, e, n),
         NEW p \in Procs, NEW signals \in SUBSET LoopSignals,
         t[p].state \in {"running", "stopped"},
         t[p].pc = "program" => signals \subseteq Terminating,
         "CHLD" \in signals => "CHLD" \in t[p].pending,
         signals \cap Terminating \subseteq t[p].pending \/ Free(t, p) \/ "signal" \in e
  PROVE  /\ TreeInv([t EXCEPT ![p].pending = signals], e, n)
         /\ Apart(t, [t EXCEPT ![p].pending = signals], p)
         /\ LET r == [t EXCEPT ![p].pending = signals][p]
            IN  /\ r.pending = signals
                /\ r.state = t[p].state /\ r.pc = t[p].pc /\ r.mask = t[p].mask
                /\ r.next = t[p].next /\ r.ret = t[p].ret
<1> DEFINE r == [t[p] EXCEPT !.pending = signals]
<1>1. /\ t \in [Procs -> ProcessRecord] /\ t[p] \in ProcessRecord
      /\ Sound(p, t[p]) /\ Explained(t[p], Free(t, p), e)
      /\ p \in Parents => FamilySound(t[p], t[First(p)], t[Second(p)])
      /\ p = "root" => RulesSound(t[p], n)
  BY InTable
<1>2. r \in ProcessRecord
  BY <1>1 DEF ProcessRecord
<1>3. /\ r.pending = signals
      /\ r.state = t[p].state /\ r.report = t[p].report
      /\ r.pc = t[p].pc /\ r.mask = t[p].mask
      /\ r.status = t[p].status /\ r.ret = t[p].ret /\ r.next = t[p].next
      /\ r.running_ = t[p].running_ /\ r.terminated_ = t[p].terminated_
      /\ r.priv = t[p].priv /\ r.env = t[p].env
  BY <1>1 DEF ProcessRecord
<1>4. [t EXCEPT ![p].pending = signals] = [t EXCEPT ![p] = r]
  BY <1>1
<1> HIDE DEF r
<1>5. Sound(p, r)
  <2>1. LifeSound(r)
    BY <1>1, <1>3 DEF Sound, LifeSound, Unborn, Ended_
  <2>2. p # "root" => BeliefSound(r)
    BY <1>1, <1>3 DEF Sound, BeliefSound, Alive
  <2>3. MaskSound(p, r)
    BY <1>1, <1>3 DEF Sound, MaskSound, Blocking
  <2>4. RightsSound(p, r)
    BY <1>1, <1>3 DEF Sound, RightsSound, Cleaning, Unborn
  <2> QED
    BY <2>1, <2>2, <2>3, <2>4 DEF Sound
<1>6. ChildMay(t[p], r) /\ (Leaving(t[p]) => Leaving(r))
  BY <1>3 DEF ChildMay, Unborn, Away, Leaving
<1>7. p \in Parents => FamilySound(r, t[First(p)], t[Second(p)])
  BY <1>1, <1>3 DEF FamilySound, Destroying
<1>8. Explained(r, Free(t, p), e)
  BY <1>1, <1>3 DEF Explained, Cleaning
<1>9. p = "root" => RulesSound(r, n)
  BY <1>1, <1>3 DEF RulesSound
<1>10. TreeInv([t EXCEPT ![p] = r], e, n)
  BY <1>2, <1>5, <1>6, <1>7, <1>8, <1>9, OneChanges
<1>11. /\ [t EXCEPT ![p] = r][p] = r
       /\ \A q \in Procs \ {p} : [t EXCEPT ![p] = r][q] = t[q]
  BY <1>1
<1> QED
  BY <1>3, <1>4, <1>10, <1>11 DEF Apart, Unborn

\* A termination signal comes from outside, or from a parent that is leaving.
LEMMA SendKeeps ==
  ASSUME NEW t, NEW e, NEW n, TreeInv(t, e, n), NEW p \in Procs,
         NEW sig \in Terminating \cup {"CONT"},
         sig \in Terminating => Free(t, p) \/ "signal" \in e
  PROVE  TreeInv(Send(t, p, sig), e, n) /\ Apart(t, Send(t, p, sig), p)
<1>1. CASE t[p].state \notin {"running", "stopped"}
  BY <1>1, NothingChanges DEF Send
<1>2. CASE t[p].state \in {"running", "stopped"}
  <2> DEFINE woken == IF sig = "CONT" THEN Resume(t, p) ELSE t
             kept == sig \in Terminating \/ sig \in woken[p].mask
             told == [woken EXCEPT ![p].pending = @ \cup {sig}]
             next == IF kept THEN told ELSE woken
  <2>1. /\ TreeInv(woken, e, n) /\ Apart(t, woken, p)
        /\ woken[p].state \in {"running", "stopped"}
        /\ woken[p].pc = t[p].pc /\ woken[p].mask = t[p].mask
    BY <1>2, ResumeKeeps, NothingChanges
  <2>2. sig \in Terminating => woken = t
    BY DEF Terminating
  <2>3. Send(t, p, sig) = Act(next, p)
    BY <1>2 DEF Send
  <2> HIDE DEF woken
  <2>4. ASSUME kept PROVE TreeInv(told, e, n) /\ Apart(t, told, p)
    <3> DEFINE signals == woken[p].pending \cup {sig}
    <3>1. woken \in [Procs -> ProcessRecord] /\ woken[p] \in ProcessRecord /\ Sound(p, woken[p])
      BY <2>1, InTable
    <3>2. signals \in SUBSET LoopSignals
      BY <3>1 DEF ProcessRecord, LoopSignals
    <3>3. woken[p].pc = "program" => signals \subseteq Terminating
      BY <2>4, <3>1 DEF Sound, MaskSound
    <3>4. "CHLD" \in signals => "CHLD" \in woken[p].pending
      BY DEF Terminating
    <3>5. signals \cap Terminating \subseteq woken[p].pending \/ Free(woken, p) \/ "signal" \in e
      BY <2>2 DEF Terminating
    <3>6. told = [woken EXCEPT ![p].pending = signals]
      BY <3>1
    <3> HIDE DEF signals
    <3>7. TreeInv(told, e, n) /\ Apart(woken, told, p)
      BY <2>1, <3>2, <3>3, <3>4, <3>5, <3>6, PendingChanges
    <3> QED
      BY <2>1, <3>7, ApartTwice
  <2>5. TreeInv(next, e, n) /\ Apart(t, next, p)
    BY <2>1, <2>4
  <2> HIDE DEF next
  <2>6. TreeInv(Act(next, p), e, n) /\ Apart(next, Act(next, p), p)
    BY <2>5, ActKeeps
  <2> QED
    BY <2>3, <2>5, <2>6, ApartTwice
<1> QED
  BY <1>1, <1>2

\* SIGSTOP at one process, and at several in turn.
LEMMA StopKeeps ==
  ASSUME NEW t, NEW e, NEW n, TreeInv(t, e, n), NEW p \in Procs
  PROVE  TreeInv(Stop(t, p), e, n)
<1>1. CASE t[p].state # "running"
  BY <1>1 DEF Stop
<1>2. CASE t[p].state = "running"
  <2> DEFINE signals == t[p].pending \ {"CONT"}
             u == [t EXCEPT ![p].pending = signals]
  <2>1. t \in [Procs -> ProcessRecord] /\ t[p] \in ProcessRecord /\ Sound(p, t[p])
    BY InTable
  <2>2. /\ signals \in SUBSET LoopSignals
        /\ t[p].pc = "program" => signals \subseteq Terminating
        /\ "CHLD" \in signals => "CHLD" \in t[p].pending
        /\ signals \cap Terminating \subseteq t[p].pending
    BY <2>1 DEF ProcessRecord, Sound, MaskSound
  <2>3. [t EXCEPT ![p].pending = @ \ {"CONT"}] = u
    BY <2>1
  <2> HIDE DEF signals
  <2>4. TreeInv(u, e, n) /\ u[p].state = t[p].state
    BY <1>2, <2>2, PendingChanges
  <2> HIDE DEF u
  <2>5. MayBecome(u, e, p, "stopped", "stopped")
    BY <1>2, <2>4 DEF MayBecome
  <2>6. TreeInv(Change(u, p, "stopped", "stopped"), e, n)
    BY <2>4, <2>5, ChangeKeeps
  <2> QED
    BY <1>2, <2>3, <2>6 DEF Stop
<1> QED
  BY <1>1, <1>2

LEMMA StopAllKeeps ==
  ASSUME NEW t, NEW e, NEW n, TreeInv(t, e, n), NEW targets
  PROVE  TreeInv(StopAll(t, targets), e, n)
<1> DEFINE told(acc, p) == IF p \in targets THEN Stop(acc, p) ELSE acc
<1>1. ASSUME NEW u, TreeInv(u, e, n), NEW p \in Procs PROVE TreeInv(told(u, p), e, n)
  BY <1>1, StopKeeps
<1>2. StopAll(t, targets) =
        told(told(told(told(told(t, "root"), "uplink"), "downlink"), "dnsmasq"), "command")
  BY DEF StopAll, InTurn
<1> HIDE DEF told
<1> QED
  BY <1>1, <1>2 DEF Procs

\* A signal to several processes in turn; a terminating one is an event outside.
LEMMA SendAllKeeps ==
  ASSUME NEW t, NEW e, NEW n, TreeInv(t, e, n), NEW targets,
         NEW sig \in Terminating \cup {"CONT"}, sig \in Terminating => "signal" \in e
  PROVE  TreeInv(SendAll(t, targets, sig), e, n)
<1> DEFINE told(acc, p) == IF p \in targets THEN Send(acc, p, sig) ELSE acc
<1>1. ASSUME NEW u, TreeInv(u, e, n), NEW p \in Procs PROVE TreeInv(told(u, p), e, n)
  BY <1>1, SendKeeps
<1>2. SendAll(t, targets, sig) =
        told(told(told(told(told(t, "root"), "uplink"), "downlink"), "dnsmasq"), "command")
  BY DEF SendAll, InTurn
<1> HIDE DEF told
<1> QED
  BY <1>1, <1>2 DEF Procs

-----------------------------------------------------------------------------
(* ChildProcess *)

LEMMA resumeKeeps ==
  ASSUME NEW t, NEW e, NEW n, TreeInv(t, e, n), NEW c \in Procs
  PROVE  TreeInv(resume(t, c), e, n) /\ Apart(t, resume(t, c), c)
<1>1. TreeInv(Send(t, c, "CONT"), e, n) /\ Apart(t, Send(t, c, "CONT"), c)
  BY SendKeeps DEF Terminating
<1> QED
  BY <1>1, NothingChanges DEF resume, signal

\* handle_signal passes SIGCONT on to the children it believes stopped.
LEMMA resume_childrenKeeps ==
  ASSUME NEW t, NEW e, NEW n, TreeInv(t, e, n), NEW p \in Procs
  PROVE  TreeInv(resume_children(t, p), e, n)
<1>1. ASSUME NEW u, TreeInv(u, e, n), NEW c \in Procs PROVE TreeInv(resume(u, c), e, n)
  BY <1>1, resumeKeeps
<1>2. CASE p = "root"
  BY <1>1, <1>2 DEF resume_children, Procs
<1>3. CASE p = "uplink"
  BY <1>1, <1>3 DEF resume_children, Procs
<1>4. CASE p \notin {"root", "uplink"}
  BY <1>4 DEF resume_children
<1> QED
  BY <1>2, <1>3, <1>4

\* The parent is leaving when it terminates a child.
LEMMA terminateKeeps ==
  ASSUME NEW t, NEW e, NEW n, TreeInv(t, e, n), NEW c \in Procs, c # "root",
         Leaving(t[Parent[c]])
  PROVE  TreeInv(terminate(t, c), e, n) /\ Apart(t, terminate(t, c), c)
<1> DEFINE sig == IF c = "dnsmasq" THEN "TERM" ELSE "HUP"
           u == resume(t, c)
<1>1. TreeInv(u, e, n) /\ Apart(t, u, c)
  BY resumeKeeps
<1>2. sig \in Terminating
  BY DEF Terminating
<1> HIDE DEF u, sig
<1>3. Free(u, c)
  <2>1. Parent[c] \in Procs \ {c}
    BY ParentOf DEF Procs
  <2> QED
    BY <1>1, <2>1 DEF Free, Apart, Leaving
<1>4. TreeInv(Send(u, c, sig), e, n) /\ Apart(u, Send(u, c, sig), c)
  BY <1>1, <1>2, <1>3, SendKeeps
<1>5. terminate(t, c) = u \/ terminate(t, c) = Send(u, c, sig)
  BY DEF terminate, signal, u, sig
<1> QED
  BY <1>1, <1>4, <1>5, ApartTwice

\* The fields that wait changes.
LEMMA ReapFields ==
  ASSUME NEW r \in ProcessRecord, NEW b \in BOOLEAN
  PROVE  /\ [r EXCEPT !.state = "reaped", !.terminated_ = TRUE, !.status = 0] \in ProcessRecord
         /\ [r EXCEPT !.report = "none", !.running_ = b] \in ProcessRecord
<1> DEFINE x == [r EXCEPT !.state = "reaped"]
           y == [x EXCEPT !.terminated_ = TRUE]
           z == [r EXCEPT !.report = "none"]
<1>1. x \in ProcessRecord
  BY DEF ProcessRecord
<1>2. z \in ProcessRecord
  BY DEF ProcessRecord
<1> HIDE DEF x, z
<1>3. y \in ProcessRecord
  BY <1>1 DEF ProcessRecord
<1> HIDE DEF y
<1>4. [y EXCEPT !.status = 0] \in ProcessRecord
  BY <1>3 DEF ProcessRecord
<1>5. [z EXCEPT !.running_ = b] \in ProcessRecord
  BY <1>2 DEF ProcessRecord
<1> QED
  BY <1>4, <1>5 DEF x, y, z

\* wait, called when there is something to wait for, reaps a dead child and
\* otherwise brings the ChildProcess object up to date.
LEMMA waitKeeps ==
  ASSUME NEW t, NEW e, NEW n, TreeInv(t, e, n), NEW c \in Procs, c # "root",
         t[c].state = "dead" \/ t[c].report # "none",
         t[c].state \in {"running", "stopped", "dead"}
  PROVE  /\ TreeInv(wait(t, c), e, n) /\ Apart(t, wait(t, c), c)
         /\ wait(t, c)[c].terminated_ <=> t[c].state = "dead"
<1> DEFINE dead == t[c].state = "dead"
           r == IF dead
                THEN [t[c] EXCEPT !.state = "reaped", !.terminated_ = TRUE, !.status = 0]
                ELSE [t[c] EXCEPT !.report = "none", !.running_ = (t[c].report = "continued")]
<1>1. /\ t \in [Procs -> ProcessRecord] /\ t[c] \in ProcessRecord
      /\ Sound(c, t[c]) /\ Explained(t[c], Free(t, c), e)
      /\ c \in Parents => FamilySound(t[c], t[First(c)], t[Second(c)])
  BY InTable
<1>2. r \in ProcessRecord
  BY <1>1, ReapFields
<1>3. /\ dead => r.state = "reaped" /\ r.terminated_ /\ r.report = t[c].report
      /\ ~ dead => /\ r.state = t[c].state /\ r.terminated_ = t[c].terminated_
                   /\ r.report = "none" /\ (r.running_ <=> t[c].report = "continued")
                   /\ r.status = t[c].status
      /\ r.pc = t[c].pc /\ r.mask = t[c].mask /\ r.pending = t[c].pending
      /\ r.ret = t[c].ret /\ r.next = t[c].next /\ r.priv = t[c].priv /\ r.env = t[c].env
  BY <1>1 DEF ProcessRecord
<1>4. wait(t, c) = [t EXCEPT ![c] = r]
  BY <1>1 DEF wait
<1> HIDE DEF r
<1>5. Sound(c, r)
  <2>1. LifeSound(r)
    BY <1>1, <1>3 DEF Sound, LifeSound, Unborn, Ended_
  <2>2. BeliefSound(r)
    BY <1>1, <1>3 DEF Sound, BeliefSound, Alive, ProcessRecord
  <2>3. MaskSound(c, r)
    BY <1>1, <1>3 DEF Sound, MaskSound, Blocking
  <2>4. RightsSound(c, r)
    BY <1>1, <1>3 DEF Sound, RightsSound, Cleaning, Unborn
  <2> QED
    BY <2>1, <2>2, <2>3, <2>4 DEF Sound
<1>6. ChildMay(t[c], r) /\ (Leaving(t[c]) => Leaving(r))
  BY <1>3 DEF ChildMay, Unborn, Away, Leaving
<1>7. c \in Parents => FamilySound(r, t[First(c)], t[Second(c)])
  BY <1>1, <1>3 DEF FamilySound, Destroying
<1>8. Explained(r, Free(t, c), e)
  BY <1>1, <1>3 DEF Explained, Cleaning
<1>9. TreeInv([t EXCEPT ![c] = r], e, n)
  BY <1>2, <1>5, <1>6, <1>7, <1>8, OneChanges
<1>10. /\ [t EXCEPT ![c] = r][c] = r
       /\ \A q \in Procs \ {c} : [t EXCEPT ![c] = r][q] = t[q]
  BY <1>1
<1>11. r.terminated_ <=> dead
  BY <1>1, <1>3 DEF Sound, LifeSound
<1> QED
  BY <1>3, <1>4, <1>9, <1>10, <1>11 DEF Apart, Unborn

-----------------------------------------------------------------------------
(* A process moves on *)

LEMMA MovedKeeps ==
  ASSUME NEW t, NEW e, NEW n, TreeInv(t, e, n), NEW p \in Procs, Alive(t[p]),
         NEW r \in ProcessRecord,
         r.state = t[p].state, r.report = t[p].report, r.status = t[p].status,
         r.running_ = t[p].running_, r.terminated_ = t[p].terminated_,
         r.pending \subseteq t[p].pending,
         Leaving(t[p]) => Leaving(r),
         MaskSound(p, r), RightsSound(p, r),
         p \in Parents => FamilySound(r, t[First(p)], t[Second(p)]),
         Cleaning(r) => Free(t, p) \/ Reason(e, r.ret),
         p = "root" => RulesSound(r, n)
  PROVE  TreeInv([t EXCEPT ![p] = r], e, n)
<1>1. Sound(p, t[p]) /\ Explained(t[p], Free(t, p), e)
  BY InTable
<1>2. Sound(p, r)
  BY <1>1 DEF Sound, LifeSound, BeliefSound, Unborn, Ended_, Alive
<1>3. ChildMay(t[p], r)
  BY DEF ChildMay, Unborn, Away
<1>4. Explained(r, Free(t, p), e)
  <2>1. r.pending \cap Terminating # {} => t[p].pending \cap Terminating # {}
    OBVIOUS
  <2> QED
    BY <1>1, <2>1 DEF Explained, Alive
<1> QED
  BY <1>2, <1>3, <1>4, OneChanges

\* The fields that Leave sets.
LEMMA LeaveFields ==
  ASSUME NEW r \in ProcessRecord, NEW v \in BOOLEAN, NEW s \in {0, 1}
  PROVE  [r EXCEPT !.priv = v, !.pc = "destroy", !.ret = s, !.next = 1] \in ProcessRecord
<1> DEFINE a == [r EXCEPT !.priv = v]
           b == [a EXCEPT !.pc = "destroy"]
           c == [b EXCEPT !.ret = s]
<1>1. a \in ProcessRecord
  BY DEF ProcessRecord
<1> HIDE DEF a
<1>2. b \in ProcessRecord
  <2>1. "destroy" \in Labels
    BY DEF Labels
  <2> QED
    BY <1>1, <2>1 DEF ProcessRecord
<1> HIDE DEF b
<1>3. c \in ProcessRecord
  BY <1>2 DEF ProcessRecord
<1> HIDE DEF c
<1>4. [c EXCEPT !.next = 1] \in ProcessRecord
  BY <1>3 DEF ProcessRecord
<1> QED
  BY <1>4 DEF a, b, c

\* A process leaves its scopes for a reason.
LEMMA LeaveKeeps ==
  ASSUME NEW t, NEW e, NEW n, TreeInv(t, e, n), NEW p \in Procs \ Programs, Alive(t[p]),
         t[p].pc \notin {"rules", "end"}, NEW s \in {0, 1}, Free(t, p) \/ Reason(e, s)
  PROVE  TreeInv(Leave(t, p, s), e, n)
<1> DEFINE v == t[p].priv \/ p = "root"
           r == [t[p] EXCEPT !.priv = v, !.pc = "destroy", !.ret = s, !.next = 1]
<1>1. /\ p \in Procs /\ t \in [Procs -> ProcessRecord] /\ t[p] \in ProcessRecord
      /\ Sound(p, t[p])
      /\ p \in Parents => FamilySound(t[p], t[First(p)], t[Second(p)])
      /\ p = "root" => RulesSound(t[p], n)
  BY InTable
<1>2. Leave(t, p, s) = [t EXCEPT ![p] = r]
  BY <1>1 DEF Leave, Restored
<1>3. v \in BOOLEAN
  BY <1>1 DEF ProcessRecord
<1>4. r \in ProcessRecord
  <2> HIDE DEF v
  <2> QED
    BY <1>1, <1>3, LeaveFields
<1>5. /\ r.mask = t[p].mask /\ r.pending = t[p].pending /\ r.pc = "destroy" /\ r.ret = s
      /\ r.next = 1 /\ (p = "root" => r.priv) /\ (p # "root" => r.priv = t[p].priv)
      /\ r.env = t[p].env
      /\ r.state = t[p].state /\ r.report = t[p].report /\ r.status = t[p].status
      /\ r.running_ = t[p].running_ /\ r.terminated_ = t[p].terminated_
  BY <1>1 DEF ProcessRecord
<1> HIDE DEF r
<1>6. MaskSound(p, r)
  BY <1>1, <1>5 DEF Sound, MaskSound, Blocking
<1>7. RightsSound(p, r)
  BY <1>1, <1>5 DEF Sound, RightsSound, Cleaning, Unborn
<1>8. p \in Parents => FamilySound(r, t[First(p)], t[Second(p)])
  BY <1>1, <1>5 DEF FamilySound, Destroying
<1>9. Leaving(r) /\ (Free(t, p) \/ Reason(e, r.ret))
  BY <1>5 DEF Leaving
<1>10. p = "root" => RulesSound(r, n)
  BY <1>1, <1>5 DEF RulesSound
<1>11. TreeInv([t EXCEPT ![p] = r], e, n)
  BY <1>1, <1>4, <1>5, <1>6, <1>7, <1>8, <1>9, <1>10, MovedKeeps
<1> QED
  BY <1>2, <1>11

\* A failure is a reason.
LEMMA FailKeeps ==
  ASSUME NEW t, NEW e, NEW n, TreeInv(t, e, n), NEW p \in Procs \ Programs, Alive(t[p]),
         t[p].pc \notin {"rules", "end"}, "fail" \in e
  PROVE  TreeInv(Fail(t, p), e, n)
BY LeaveKeeps DEF Fail, Reason

\* The fields that Fork gives the child.
LEMMA ForkFields ==
  ASSUME NEW r \in ProcessRecord, NEW m \in SUBSET LoopSignals,
         NEW v \in BOOLEAN, NEW w \in BOOLEAN
  PROVE  [r EXCEPT !.state = "running", !.mask = m, !.priv = v, !.env = w] \in ProcessRecord
<1> DEFINE a == [r EXCEPT !.state = "running"]
           b == [a EXCEPT !.mask = m]
           c == [b EXCEPT !.priv = v]
<1>1. a \in ProcessRecord
  BY DEF ProcessRecord
<1> HIDE DEF a
<1>2. b \in ProcessRecord
  BY <1>1 DEF ProcessRecord
<1> HIDE DEF b
<1>3. c \in ProcessRecord
  BY <1>2 DEF ProcessRecord
<1> HIDE DEF c
<1>4. [c EXCEPT !.env = w] \in ProcessRecord
  BY <1>3 DEF ProcessRecord
<1> QED
  BY <1>4 DEF a, b, c

\* Who forks whom, from where to where.
MayFork(p, c, here, there) ==
  \/ p = "root" /\ c = "uplink" /\ here = "fork_uplink" /\ there = "fork_downlink"
  \/ p = "root" /\ c = "downlink" /\ here = "fork_downlink" /\ there = "loop"
  \/ p = "uplink" /\ c = "dnsmasq" /\ here = "fork_dnsmasq" /\ there = "await_dnsmasq"
  \/ p = "uplink" /\ c = "command" /\ here = "fork_command" /\ there = "send_fd"

\* A fork in its turn: the child is the next one of the family, and its parent
\* blocks the signals.
LEMMA ForkKeeps ==
  ASSUME NEW t, NEW e, NEW n, TreeInv(t, e, n),
         NEW p, NEW c, NEW here, NEW there, MayFork(p, c, here, there),
         t[p].state = "running", t[p].pc = here,
         c = "command" => ~ t[p].priv
  PROVE  TreeInv(Fork(t, p, c, there), e, n)
<1> DEFINE r == [t[p] EXCEPT !.pc = there]
           k == [t[c] EXCEPT !.state = "running", !.mask = t[p].mask,
                             !.priv = t[p].priv, !.env = t[p].env]
           u == [t EXCEPT ![p] = r, ![c] = k]
<1>1. /\ p \in Parents /\ p \in Procs /\ c \in Procs /\ p # c
      /\ (c = First(p) \/ c = Second(p)) /\ here \in Labels /\ there \in Labels
  BY DEF MayFork, Parents, Procs, First, Second, Labels
<1>2. /\ t \in [Procs -> ProcessRecord] /\ t[p] \in ProcessRecord /\ t[c] \in ProcessRecord
      /\ Sound(p, t[p]) /\ Sound(c, t[c])
      /\ Explained(t[p], Free(t, p), e)
      /\ FamilySound(t[p], t[First(p)], t[Second(p)])
      /\ c \in Parents => FamilySound(t[c], t[First(c)], t[Second(c)])
  BY <1>1, InTable
<1>3. t[p].mask = LoopSignals
  BY <1>2 DEF Sound, MaskSound, Blocking, MayFork
<1>4. Unborn(t[c])
  BY <1>2 DEF FamilySound, MayFork, First, Second
<1>5. r \in ProcessRecord
  <2>1. there \in Labels
    BY DEF MayFork, Labels
  <2> QED
    BY <1>2, <2>1 DEF ProcessRecord
<1>6. k \in ProcessRecord
  <2>1. /\ t[p].mask \in SUBSET LoopSignals /\ t[p].priv \in BOOLEAN /\ t[p].env \in BOOLEAN
    BY <1>2 DEF ProcessRecord
  <2> QED
    BY <1>2, <2>1, ForkFields
<1>7. /\ r.pc = there
      /\ r.state = "running" /\ r.report = t[p].report /\ r.mask = t[p].mask
      /\ r.pending = t[p].pending /\ r.status = t[p].status /\ r.ret = t[p].ret
      /\ r.next = t[p].next /\ r.running_ = t[p].running_
      /\ r.terminated_ = t[p].terminated_ /\ r.priv = t[p].priv /\ r.env = t[p].env
  BY <1>2 DEF ProcessRecord
<1>8. /\ k.state = "running" /\ k.mask = LoopSignals /\ k.priv = t[p].priv /\ k.env = t[p].env
      /\ k.pc = "born" /\ k.pending = {} /\ k.report = "none" /\ k.running_ /\ ~ k.terminated_
  <2>1. /\ t[c].pc = "born" /\ t[c].pending = {} /\ t[c].report = "none" /\ t[c].running_
        /\ ~ t[c].terminated_
    BY <1>2, <1>4 DEF Sound, LifeSound, Unborn
  <2> QED
    BY <1>2, <1>3, <2>1 DEF ProcessRecord
<1>9. Fork(t, p, c, there) = u
  BY <1>1, <1>2 DEF Fork
<1>10. /\ u \in [Procs -> ProcessRecord] /\ u[p] = r /\ u[c] = k
       /\ \A q \in Procs \ {p, c} : u[q] = t[q]
  BY <1>1, <1>2, <1>5, <1>6
<1> HIDE DEF r, k, u
<1>11. Sound(p, r)
  <2>1. LifeSound(r) /\ (p # "root" => BeliefSound(r))
    BY <1>2, <1>7 DEF Sound, LifeSound, BeliefSound, Unborn, Ended_, Alive
  <2>2. MaskSound(p, r)
    BY <1>1, <1>2, <1>3, <1>7 DEF Sound, MaskSound, Blocking, MayFork
  <2>3. RightsSound(p, r)
    BY <1>2, <1>7 DEF Sound, RightsSound, Cleaning, Unborn, MayFork
  <2> QED
    BY <2>1, <2>2, <2>3 DEF Sound
<1>12. Sound(c, k)
  <2>1. LifeSound(k) /\ BeliefSound(k)
    BY <1>8 DEF LifeSound, BeliefSound, Unborn, Ended_, Alive
  <2>2. MaskSound(c, k)
    BY <1>8 DEF MaskSound, Blocking, MayFork
  <2>3. RightsSound(c, k)
    BY <1>2, <1>8 DEF Sound, RightsSound, Cleaning, Unborn, MayFork
  <2> QED
    BY <2>1, <2>2, <2>3 DEF Sound
<1>13. \A q \in Procs : Sound(q, u[q])
  <2>1. \A q \in Procs : Sound(q, t[q])
    BY DEF TreeInv
  <2> QED
    BY <1>1, <1>10, <1>11, <1>12, <2>1
<1>14. ASSUME NEW q \in Parents PROVE FamilySound(u[q], u[First(q)], u[Second(q)])
  <2>1. /\ q \in Procs /\ First(q) \in Procs /\ Second(q) \in Procs
        /\ First(q) # q /\ Second(q) # q /\ First(q) # Second(q)
    BY DEF Parents, Procs, First, Second
  <2>2. FamilySound(t[q], t[First(q)], t[Second(q)])
    BY <2>1, InTable
  <2>3. CASE q = p
    <3>1. CASE c = First(p)
      <4>1. u[Second(p)] = t[Second(p)] /\ u[First(p)] = k
        BY <1>10, <2>1, <2>3, <3>1
      <4>2. here \in {"fork_uplink", "fork_dnsmasq"}
            /\ there \in {"fork_downlink", "await_dnsmasq"}
        BY <3>1 DEF MayFork, First
      <4> QED
        BY <1>2, <1>3, <1>4, <1>7, <1>8, <1>10, <2>3, <3>1, <4>1, <4>2
        DEF FamilySound, Unborn, Away, Destroying
    <3>2. CASE c = Second(p)
      <4>1. u[First(p)] = t[First(p)] /\ u[Second(p)] = k
        BY <1>10, <2>1, <2>3, <3>2
      <4>2. here \in {"fork_downlink", "fork_command"} /\ there \in {"loop", "send_fd"}
        BY <3>2 DEF MayFork, Second
      <4> QED
        BY <1>2, <1>3, <1>7, <1>8, <1>10, <2>3, <4>1, <4>2
        DEF FamilySound, Unborn, Away, Destroying
    <3> QED
      BY <1>1, <3>1, <3>2
  <2>4. CASE q = c
    <3>1. c = "uplink" /\ p = "root"
      BY <2>4 DEF MayFork, Parents
    <3>2. u[First(q)] = t[First(q)] /\ u[Second(q)] = t[Second(q)]
      BY <1>10, <2>1, <2>4, <3>1 DEF First, Second
    <3>3. Unborn(t[First(q)]) /\ Unborn(t[Second(q)])
      BY <1>2, <1>4, <2>2, <2>4 DEF FamilySound, Sound, LifeSound
    <3> QED
      BY <1>8, <1>10, <2>4, <3>2, <3>3 DEF FamilySound, Unborn, Away, Destroying
  <2>5. CASE q \notin {p, c}
    <3>1. CASE q = "root"
      <4>1. p = "uplink" /\ c \in {"dnsmasq", "command"}
        BY <1>1, <2>5, <3>1 DEF MayFork
      <4>2. First(q) = p /\ Second(q) \notin {p, c}
        BY <3>1, <4>1 DEF First, Second
      <4>3. u[q] = t[q] /\ u[First(q)] = r /\ u[Second(q)] = t[Second(q)]
        BY <1>10, <2>1, <2>5, <4>2
      <4>4. ChildMay(t[First(q)], r)
        BY <1>7, <4>2 DEF ChildMay, Unborn, Away
      <4> QED
        BY <2>2, <4>3, <4>4, FamilyKept
    <3>2. CASE q = "uplink"
      <4>1. p = "root" /\ c = "downlink"
        BY <1>1, <2>5, <3>2 DEF MayFork
      <4>2. First(q) \notin {p, c} /\ Second(q) \notin {p, c}
        BY <3>2, <4>1 DEF First, Second
      <4> QED
        BY <1>10, <2>1, <2>2, <2>5, <4>2
    <3> QED
      BY <3>1, <3>2 DEF Parents
  <2> QED
    BY <2>3, <2>4, <2>5
<1>15. ASSUME NEW q \in Procs PROVE Explained(u[q], Free(u, q), e)
  <2>1. ASSUME NEW z \in Procs PROVE Leaving(t[z]) => Leaving(u[z])
    <3>1. CASE z = p
      BY <3>1 DEF Leaving, MayFork
    <3>2. CASE z = c
      BY <1>2, <1>4, <3>2 DEF Leaving, Sound, LifeSound
    <3>3. CASE z \notin {p, c}
      BY <1>10, <3>3
    <3> QED
      BY <3>1, <3>2, <3>3
  <2>2. Free(t, q) => Free(u, q)
    <3>1. q # "root" => Parent[q] \in Procs
      BY ParentOf DEF Procs
    <3> QED
      BY <2>1, <3>1 DEF Free
  <2>3. Explained(t[q], Free(t, q), e)
    BY InTable
  <2>4. CASE q = p
    BY <1>7, <1>10, <2>2, <2>3, <2>4 DEF Explained, Cleaning, MayFork
  <2>5. CASE q = c
    BY <1>8, <1>10, <2>5 DEF Explained, Cleaning
  <2>6. CASE q \notin {p, c}
    BY <1>10, <2>2, <2>3, <2>6 DEF Explained
  <2> QED
    BY <2>4, <2>5, <2>6
<1>16. RulesSound(u["root"], n)
  <2>1. c # "root" /\ "root" \in Procs
    BY DEF MayFork, Procs
  <2>2. RulesSound(t["root"], n)
    BY DEF TreeInv
  <2> QED
    BY <1>7, <1>10, <2>1, <2>2 DEF RulesSound, MayFork
<1> QED
  BY <1>9, <1>10, <1>13, <1>14, <1>15, <1>16 DEF TreeInv

-----------------------------------------------------------------------------
(* The steps of a process that runs *)

\* The process r with the children a and b becomes u.
Steady(r, u) == u.mask = r.mask /\ (u.priv <=> r.priv) /\ (u.env <=> r.env)

Blocks(p, r, u) ==
  /\ \/ p = "root" /\ r.pc = "nat" /\ u.pc = "fork_uplink"
     \/ p = "uplink" /\ r.pc = "setup" /\ u.pc = "fork_dnsmasq"
     \/ p = "downlink" /\ r.pc = "recv_fd" /\ u.pc = "queue"
  /\ u.mask = LoopSignals /\ (u.priv <=> r.priv) /\ (u.env <=> r.env)

EntersLoop(r, u) ==
  /\ r.pc \in {"loop", "queue"} /\ u.pc = "poll"
  /\ u.mask = r.mask /\ ~ u.priv /\ (u.env <=> r.env)

GoesOn(p, r, u) ==
  /\ p = "uplink" /\ Steady(r, u)
  /\ \/ r.pc = "await_dnsmasq" /\ u.pc = "fork_command"
     \/ r.pc = "send_fd" /\ u.pc = "queue"

Drops(p, r, u) ==
  p = "uplink" /\ r.pc = "fork_command" /\ u.pc = "fork_command" /\ u.mask = r.mask /\ ~ u.priv

Unblocks(p, r, u) ==
  /\ p # "root" /\ r.pc = "born" /\ u.pc = "born"
  /\ u.mask = {} /\ (u.priv <=> r.priv) /\ (u.env <=> r.env)

Starts(p, r, u) ==
  /\ r.pc = "born" /\ u.mask = r.mask
  /\ \/ p = "uplink" /\ u.pc = "setup" /\ Steady(r, u)
     \/ p = "downlink" /\ u.pc = "recv_fd" /\ ~ u.priv

Execs(p, r, u) ==
  /\ p \in Programs /\ r.pc = "born" /\ u.pc = "program"
  /\ u.mask = Terminating /\ u.pending \subseteq Terminating
  /\ (u.priv <=> r.priv) /\ (u.env <=> r.env)

Loops(r, u) == r.pc \in {"poll", "search"} /\ u.pc \in {"poll", "search"} /\ Steady(r, u)

Destroys(p, r, a, b, u) ==
  /\ p \in Parents /\ Destroying(r) /\ Destroying(u) /\ Steady(r, u)
  /\ u.next > 1 => Away(a)
  /\ u.next > 2 => Away(b)
  /\ u.pc = "destroy_wait" => \/ u.next = 1 /\ ~ Unborn(a)
                              \/ u.next = 2 /\ ~ Unborn(b)

MayMove(p, r, a, b, u) ==
  \/ Blocks(p, r, u) \/ EntersLoop(r, u) \/ GoesOn(p, r, u) \/ Drops(p, r, u)
  \/ Unblocks(p, r, u) \/ Starts(p, r, u) \/ Execs(p, r, u) \/ Loops(r, u)
  \/ Destroys(p, r, a, b, u)

\* Of each process by itself.
LEMMA MoveIsSound ==
  ASSUME NEW p \in Procs, NEW r, NEW u, Sound(p, r), Alive(r), NEW a, NEW b,
         MayMove(p, r, a, b, u), u.state = r.state, u.pending \subseteq r.pending
  PROVE  MaskSound(p, u) /\ RightsSound(p, u)
<1> USE DEF Sound, MaskSound, RightsSound, Blocking, Destroying, Cleaning, Unborn, Alive
<1>1. CASE Blocks(p, r, u)
  BY <1>1 DEF Blocks
<1>2. CASE EntersLoop(r, u)
  BY <1>2 DEF EntersLoop
<1>3. CASE GoesOn(p, r, u)
  BY <1>3 DEF GoesOn, Steady
<1>4. CASE Drops(p, r, u)
  BY <1>4 DEF Drops
<1>5. CASE Unblocks(p, r, u)
  BY <1>5 DEF Unblocks
<1>6. CASE Starts(p, r, u)
  BY <1>6 DEF Starts, Steady
<1>7. CASE Execs(p, r, u)
  BY <1>7 DEF Execs, Programs, Parents
<1>8. CASE Loops(r, u)
  BY <1>8 DEF Loops, Steady
<1>9. CASE Destroys(p, r, a, b, u)
  BY <1>9 DEF Destroys, Steady, Parents
<1> QED
  BY <1>1, <1>2, <1>3, <1>4, <1>5, <1>6, <1>7, <1>8, <1>9 DEF MayMove

\* Of a parent and its children.
LEMMA MoveIsFamilySound ==
  ASSUME NEW p \in Parents, NEW r, NEW u, Sound(p, r), Alive(r), NEW a, NEW b,
         FamilySound(r, a, b),
         MayMove(p, r, a, b, u), u.state = r.state, u.pending \subseteq r.pending
  PROVE  FamilySound(u, a, b)
<1> USE DEF Sound, MaskSound, Blocking, FamilySound, Destroying, Alive
<1>1. CASE Blocks(p, r, u)
  BY <1>1 DEF Blocks
<1>2. CASE EntersLoop(r, u)
  BY <1>2 DEF EntersLoop
<1>3. CASE GoesOn(p, r, u)
  BY <1>3 DEF GoesOn, Steady
<1>4. CASE Drops(p, r, u)
  BY <1>4 DEF Drops
<1>5. CASE Unblocks(p, r, u)
  BY <1>5 DEF Unblocks
<1>6. CASE Starts(p, r, u)
  BY <1>6 DEF Starts, Steady
<1>7. CASE Execs(p, r, u)
  BY <1>7 DEF Execs, Programs, Parents
<1>8. CASE Loops(r, u)
  BY <1>8 DEF Loops, Steady
<1>9. CASE Destroys(p, r, a, b, u)
  BY <1>9 DEF Destroys, Steady
<1> QED
  BY <1>1, <1>2, <1>3, <1>4, <1>5, <1>6, <1>7, <1>8, <1>9 DEF MayMove

\* A process that moves as MayMove allows, and touches nobody else, keeps the
\* invariant.
LEMMA MoveKeeps ==
  ASSUME NEW t, NEW e, NEW n, TreeInv(t, e, n), NEW p \in Procs, Alive(t[p]),
         NEW u \in ProcessRecord,
         u.state = t[p].state, u.report = t[p].report, u.status = t[p].status,
         u.running_ = t[p].running_, u.terminated_ = t[p].terminated_, u.ret = t[p].ret,
         u.pending \subseteq t[p].pending,
         MayMove(p, t[p], t[First(p)], t[Second(p)], u),
         p = "root" /\ t[p].pc = "nat" => \A x \in Rules : n[x] = "owned"
  PROVE  TreeInv([t EXCEPT ![p] = u], e, n)
<1>1. /\ Sound(p, t[p]) /\ Explained(t[p], Free(t, p), e)
      /\ p \in Parents => FamilySound(t[p], t[First(p)], t[Second(p)])
      /\ p = "root" => RulesSound(t[p], n)
  BY InTable
<1>2. MaskSound(p, u) /\ RightsSound(p, u)
  BY <1>1, MoveIsSound
<1>3. p \in Parents => FamilySound(u, t[First(p)], t[Second(p)])
  BY <1>1, MoveIsFamilySound
<1>4. (Leaving(t[p]) => Leaving(u)) /\ (Cleaning(u) => Cleaning(t[p]))
  BY DEF Leaving, Destroying, Cleaning, MayMove, Blocks, EntersLoop, GoesOn, Drops, Unblocks,
         Starts, Execs, Loops, Destroys
<1>5. Cleaning(u) => Free(t, p) \/ Reason(e, u.ret)
  BY <1>1, <1>4 DEF Explained
<1>6. p = "root" => RulesSound(u, n)
  BY <1>1 DEF RulesSound, MayMove, Blocks, EntersLoop, GoesOn, Drops, Unblocks, Starts, Execs,
              Loops, Destroys, Destroying, Steady, Programs
<1> QED
  BY <1>2, <1>3, <1>4, <1>5, <1>6, MovedKeeps

-----------------------------------------------------------------------------
(* The actions *)

\* A signalfd hands out a signal that is pending.
LEMMA LowestIsPending ==
  ASSUME NEW S \in SUBSET LoopSignals, S # {}
  PROVE  Lowest(S) \in S
<1>1. /\ SignalNumber["HUP"] = 1 /\ SignalNumber["INT"] = 2 /\ SignalNumber["QUIT"] = 3
      /\ SignalNumber["TERM"] = 15 /\ SignalNumber["CHLD"] = 17 /\ SignalNumber["CONT"] = 18
  BY DEF SignalNumber
<1>2. \E s \in S : \A x \in S : SignalNumber[s] <= SignalNumber[x]
  <2> HIDE DEF SignalNumber
  <2>1. CASE "HUP" \in S
    BY <1>1, <2>1 DEF LoopSignals, Terminating
  <2>2. CASE "HUP" \notin S /\ "INT" \in S
    BY <1>1, <2>2 DEF LoopSignals, Terminating
  <2>3. CASE S \cap {"HUP", "INT"} = {} /\ "QUIT" \in S
    BY <1>1, <2>3 DEF LoopSignals, Terminating
  <2>4. CASE S \cap {"HUP", "INT", "QUIT"} = {} /\ "TERM" \in S
    BY <1>1, <2>4 DEF LoopSignals, Terminating
  <2>5. CASE S \cap {"HUP", "INT", "QUIT", "TERM"} = {} /\ "CHLD" \in S
    BY <1>1, <2>5 DEF LoopSignals, Terminating
  <2>6. CASE S \subseteq {"CONT"}
    <3>1. "CONT" \in S /\ \A x \in S : x = "CONT"
      BY <2>6
    <3> QED
      BY <1>1, <3>1
  <2> QED
    BY <2>1, <2>2, <2>3, <2>4, <2>5, <2>6 DEF LoopSignals, Terminating
<1> QED
  BY <1>2 DEF Lowest

\* child_processes_: the first child that was created, and the second.
LEMMA ChildrenOf ==
  ASSUME NEW p \in Parents, Unborn(proc[First(p)]) => Unborn(proc[Second(p)])
  PROVE  /\ Unborn(proc[First(p)]) => Len(Children(p)) = 0
         /\ ~ Unborn(proc[First(p)]) /\ Unborn(proc[Second(p)]) => Len(Children(p)) = 1
         /\ ~ Unborn(proc[Second(p)]) => Len(Children(p)) = 2 /\ Children(p)[2] = Second(p)
         /\ ~ Unborn(proc[First(p)]) => Children(p)[1] = First(p) /\ Children(p) # <<>>
<1> DEFINE Created(c) == IF proc[c].state = "unborn" THEN <<>> ELSE <<c>>
<1>1. Children(p) = Created(First(p)) \o Created(Second(p))
  BY DEF Children, Parents, First, Second
<1>2. CASE Unborn(proc[First(p)])
  BY <1>1, <1>2 DEF Unborn
<1>3. CASE ~ Unborn(proc[First(p)]) /\ Unborn(proc[Second(p)])
  BY <1>1, <1>3 DEF Unborn
<1>4. CASE ~ Unborn(proc[Second(p)])
  BY <1>1, <1>4 DEF Unborn
<1> QED
  BY <1>2, <1>3, <1>4

\* Only root and the uplink have children.
LEMMA NoChildren ==
  ASSUME NEW p, p \notin Parents
  PROVE  Len(Children(p)) = 0
BY DEF Children, Parents

\* The invariant, for one process.
LEMMA InShell ==
  ASSUME ShellInv, NEW p \in Procs
  PROVE  /\ TreeInv(proc, ended, nat)
         /\ proc \in [Procs -> ProcessRecord] /\ proc[p] \in ProcessRecord
         /\ Sound(p, proc[p]) /\ Explained(proc[p], Free(proc, p), ended)
         /\ p \in Parents => FamilySound(proc[p], proc[First(p)], proc[Second(p)])
BY InTable DEF ShellInv

\* The destructors leave none behind.
LEMMA DestroyedAreAway ==
  ASSUME ShellInv, NEW p \in Parents, ChildrenDestroyed(p)
  PROVE  Away(proc[First(p)]) /\ Away(proc[Second(p)])
<1>1. p \in Procs
  BY DEF Parents, Procs
<1>2. /\ proc[p].next \in 1..3
      /\ FamilySound(proc[p], proc[First(p)], proc[Second(p)])
  BY <1>1, InShell DEF ProcessRecord
<1>3. Destroying(proc[p]) /\ proc[p].next > Len(Children(p))
  BY DEF ChildrenDestroyed, At, Destroying
<1>4. Unborn(proc[First(p)]) => Unborn(proc[Second(p)])
  BY <1>2 DEF FamilySound
<1>5. CASE Unborn(proc[First(p)])
  BY <1>4, <1>5 DEF Unborn, Away
<1>6. CASE ~ Unborn(proc[First(p)]) /\ Unborn(proc[Second(p)])
  <2>1. proc[p].next > 1
    BY <1>3, <1>4, <1>6, ChildrenOf
  <2> QED
    BY <1>2, <1>3, <1>6, <2>1 DEF FamilySound, Unborn, Away
<1>7. CASE ~ Unborn(proc[Second(p)])
  <2>1. proc[p].next > 2
    BY <1>3, <1>4, <1>7, ChildrenOf
  <2>2. proc[p].next > 1
    BY <1>2, <2>1
  <2> QED
    BY <1>2, <1>3, <2>1, <2>2 DEF FamilySound
<1> QED
  BY <1>5, <1>6, <1>7

\* A step that may fail.
LEMMA DoesKeeps ==
  ASSUME ShellInv, NEW p \in Procs \ Programs, Alive(proc[p]),
         proc[p].pc \notin {"rules", "end"},
         NEW STATE next, TreeInv(next, ended, nat), Does(p, next)
  PROVE  TreeInv(proc', ended', nat) /\ ended' \subseteq {"ok", "fail", "signal"}
<1>1. CASE proc' = next /\ UNCHANGED outside
  BY <1>1 DEF ShellInv, outside
<1>2. CASE proc' = Fail(proc, p) /\ Event({"fail"})
  <2>1. ended' = ended \cup {"fail"}
    BY <1>2 DEF Event
  <2>2. TreeInv(proc, ended \cup {"fail"}, nat)
    BY MoreOutside DEF ShellInv
  <2>3. TreeInv(Fail(proc, p), ended \cup {"fail"}, nat)
    BY <2>2, FailKeeps
  <2> QED
    BY <1>2, <2>1, <2>3 DEF ShellInv
<1> QED
  BY <1>1, <1>2 DEF Does

\* From here on, one lemma per action of the shell.
LEMMA install_ruleKeeps ==
  ASSUME ShellInv, NEW r \in Rules, install_rule(r)
  PROVE  ShellInv'
<1>1. /\ "root" \in Procs \ Programs /\ Alive(proc["root"]) /\ proc["root"].pc = "nat"
      /\ UNCHANGED bug
  BY DEF install_rule, At, Alive, Procs, Programs
<1>2. /\ TreeInv(proc, ended, nat) /\ Sound("root", proc["root"])
      /\ RulesSound(proc["root"], nat)
      /\ nat \in [Rules -> RuleStates] /\ ended \subseteq {"ok", "fail", "signal"}
  BY <1>1, InShell DEF ShellInv, TreeInv
<1>3. PICK was \in {"owned", "absent", "left"} : nat' = [nat EXCEPT ![r] = was]
  BY DEF install_rule
<1>4. /\ nat' \in [Rules -> RuleStates]
      /\ \A x \in Rules : nat'[x] # "denied"
  BY <1>2, <1>3 DEF RuleStates, RulesSound
<1>5. RulesSound(proc["root"], nat')
  BY <1>1, <1>2, <1>4 DEF RulesSound, Sound, MaskSound
<1>6. TreeInv(proc, ended, nat')
  BY <1>2, <1>5, OtherRules
<1>7. CASE UNCHANGED <<proc, outside>>
  BY <1>1, <1>2, <1>4, <1>6, <1>7 DEF ShellInv, outside
<1>8. CASE proc' = Fail(proc, "root") /\ Event({"fail"})
  <2>1. TreeInv(proc, ended \cup {"fail"}, nat')
    BY <1>6, MoreOutside
  <2>2. TreeInv(Fail(proc, "root"), ended \cup {"fail"}, nat')
    BY <1>1, <2>1, FailKeeps
  <2> QED
    BY <1>1, <1>2, <1>4, <1>8, <2>2 DEF ShellInv, Event
<1> QED
  BY <1>7, <1>8 DEF install_rule

\* The fields that blocking the signals sets.
LEMMA MaskFields ==
  ASSUME NEW r \in ProcessRecord, NEW m \in SUBSET LoopSignals, NEW l \in Labels
  PROVE  [r EXCEPT !.mask = m, !.pc = l] \in ProcessRecord
<1> DEFINE a == [r EXCEPT !.mask = m]
<1>1. a \in ProcessRecord
  BY DEF ProcessRecord
<1> HIDE DEF a
<1>2. [a EXCEPT !.pc = l] \in ProcessRecord
  BY <1>1 DEF ProcessRecord
<1> QED
  BY <1>2 DEF a

\* The signals are blocked: in main, in the uplink and in the downlink.
LEMMA MaskedKeeps ==
  ASSUME ShellInv, NEW p \in Procs, proc[p].state = "running", NEW l,
         \/ /\ p = "root" /\ proc[p].pc = "nat" /\ l = "fork_uplink"
            /\ \A x \in Rules : nat[x] = "owned"
         \/ p = "uplink" /\ proc[p].pc = "setup" /\ l = "fork_dnsmasq"
         \/ p = "downlink" /\ proc[p].pc = "recv_fd" /\ l = "queue"
  PROVE  TreeInv(Goto(Masked(p), p, l), ended, nat)
<1> DEFINE r == proc[p]
           u == [r EXCEPT !.mask = LoopSignals, !.pc = l]
<1>1. TreeInv(proc, ended, nat) /\ proc \in [Procs -> ProcessRecord] /\ r \in ProcessRecord
  BY InShell
<1>2. Goto(Masked(p), p, l) = [proc EXCEPT ![p] = u]
  BY <1>1 DEF Goto, Masked
<1>3. u \in ProcessRecord
  <2>1. l \in Labels
    BY DEF Labels
  <2> QED
    BY <1>1, <2>1, MaskFields
<1>4. /\ u.mask = LoopSignals /\ u.pc = l
      /\ u.state = r.state /\ u.report = r.report /\ u.status = r.status
      /\ u.running_ = r.running_ /\ u.terminated_ = r.terminated_ /\ u.ret = r.ret
      /\ u.pending = r.pending /\ u.priv = r.priv /\ u.env = r.env
  BY <1>1 DEF ProcessRecord
<1> HIDE DEF u
<1>5. MayMove(p, r, proc[First(p)], proc[Second(p)], u)
  BY <1>4 DEF MayMove, Blocks
<1>6. TreeInv([proc EXCEPT ![p] = u], ended, nat)
  BY <1>1, <1>3, <1>4, <1>5, MoveKeeps DEF Alive
<1> QED
  BY <1>2, <1>6

\* The first event loop blocks the signals: from here on main ends only by Leave.
LEMMA constructKeeps ==
  ASSUME ShellInv, construct
  PROVE  ShellInv'
<1>1. "root" \in Procs /\ proc["root"].state = "running" /\ proc["root"].pc = "nat"
  BY DEF construct, At, Procs
<1>2. TreeInv(Goto(Masked("root"), "root", "fork_uplink"), ended, nat)
  BY <1>1, MaskedKeeps DEF construct
<1>3. ~ proc["root"].env
  BY <1>1, InShell DEF Sound, RightsSound
<1> QED
  BY <1>2, <1>3 DEF construct, Check, ShellInv, outside

\* The forks that keep the parent's rights.
LEMMA forkKeeps ==
  ASSUME ShellInv, NEW p, NEW c, NEW here, NEW there, MayFork(p, c, here, there),
         fork(p, c, here, there), c # "command"
  PROVE  ShellInv'
<1>1. p \in Procs \ Programs /\ proc[p].state = "running" /\ proc[p].pc = here
  BY DEF MayFork, fork, At, Procs, Programs
<1>2. TreeInv(Fork(proc, p, c, there), ended, nat)
  BY <1>1, ForkKeeps DEF ShellInv
<1>3. TreeInv(proc', ended', nat) /\ ended' \subseteq {"ok", "fail", "signal"}
  BY <1>1, <1>2, DoesKeeps DEF fork, Alive, MayFork
<1> QED
  BY <1>3 DEF fork, ShellInv

\* The loop starts where the mask is known to be intact.
LEMMA EnterLoopKeeps ==
  ASSUME ShellInv, NEW p \in Procs, proc[p].state = "running", proc[p].pc \in {"loop", "queue"}
  PROVE  TreeInv(EnterLoop(proc, p), ended, nat) /\ MaskIntact(p)
<1> DEFINE r == proc[p]
           u == [r EXCEPT !.priv = FALSE, !.pc = "poll"]
<1>1. /\ TreeInv(proc, ended, nat) /\ proc \in [Procs -> ProcessRecord] /\ r \in ProcessRecord
      /\ Sound(p, r)
  BY InShell
<1>2. EnterLoop(proc, p) = [proc EXCEPT ![p] = u]
  BY <1>1 DEF EnterLoop, Unprivileged, Goto
<1>3. u \in ProcessRecord
  <2> DEFINE x == [r EXCEPT !.priv = FALSE]
  <2>1. x \in ProcessRecord /\ "poll" \in Labels
    BY <1>1 DEF ProcessRecord, Labels
  <2> HIDE DEF x
  <2>2. [x EXCEPT !.pc = "poll"] \in ProcessRecord
    BY <2>1 DEF ProcessRecord
  <2> QED
    BY <2>2 DEF x
<1>4. /\ u.mask = r.mask /\ u.pc = "poll" /\ ~ u.priv
      /\ u.state = r.state /\ u.report = r.report /\ u.status = r.status
      /\ u.running_ = r.running_ /\ u.terminated_ = r.terminated_ /\ u.ret = r.ret
      /\ u.pending = r.pending /\ u.env = r.env
  BY <1>1 DEF ProcessRecord
<1> HIDE DEF u
<1>5. MayMove(p, r, proc[First(p)], proc[Second(p)], u)
  BY <1>4 DEF MayMove, EntersLoop
<1>6. TreeInv([proc EXCEPT ![p] = u], ended, nat)
  BY <1>1, <1>3, <1>4, <1>5, MoveKeeps DEF Alive
<1>7. MaskIntact(p)
  BY <1>1 DEF MaskIntact, Sound, MaskSound, Blocking
<1> QED
  BY <1>2, <1>6, <1>7

\* The three processes enter their loops with the mask intact.
LEMMA wait_for_exitKeeps ==
  ASSUME ShellInv, wait_for_exit
  PROVE  ShellInv'
<1>1. "root" \in Procs /\ proc["root"].state = "running" /\ proc["root"].pc = "loop"
  BY DEF wait_for_exit, At, Procs
<1>2. TreeInv(EnterLoop(proc, "root"), ended, nat) /\ MaskIntact("root")
  BY <1>1, EnterLoopKeeps
<1> QED
  BY <1>2 DEF wait_for_exit, Check, ShellInv, outside

LEMMA make_queueKeeps ==
  ASSUME ShellInv, NEW p \in {"uplink", "downlink"}, make_queue(p)
  PROVE  ShellInv'
<1>1. p \in Procs \ Programs /\ proc[p].state = "running" /\ proc[p].pc = "queue"
  BY DEF make_queue, At, Procs, Programs
<1>2. TreeInv(EnterLoop(proc, p), ended, nat) /\ MaskIntact(p)
  BY <1>1, EnterLoopKeeps
<1>3. ~ proc[p].priv
  BY <1>1, InShell DEF Sound, RightsSound
<1>4. TreeInv(proc', ended', nat) /\ ended' \subseteq {"ok", "fail", "signal"}
  BY <1>1, <1>2, DoesKeeps DEF make_queue, Alive
<1> QED
  BY <1>2, <1>3, <1>4 DEF make_queue, Check, ShellInv

\* When the event loop of main is destroyed no child is left, and main still has
\* root's rights.
LEMMA LoopDestroyedIsQuiet ==
  ASSUME ShellInv, LoopDestroyed
  PROVE  /\ proc["root"].state = "running" /\ Cleaning(proc["root"])
         /\ Away(proc[First("root")]) /\ Away(proc[Second("root")])
         /\ proc["root"].priv
         /\ Reason(ended, proc["root"].ret)
<1>1. /\ "root" \in Procs /\ "root" \in Parents
      /\ proc["root"].state = "running" /\ Cleaning(proc["root"])
  BY DEF LoopDestroyed, ChildrenDestroyed, At, Cleaning, Procs, Parents
<1>2. /\ Sound("root", proc["root"]) /\ Explained(proc["root"], Free(proc, "root"), ended)
      /\ FamilySound(proc["root"], proc[First("root")], proc[Second("root")])
  BY <1>1, InShell
<1>3. Away(proc[First("root")]) /\ Away(proc[Second("root")])
  BY <1>1, <1>2, DestroyedAreAway DEF LoopDestroyed, At, FamilySound
<1>4. proc["root"].priv
  BY <1>1, <1>2 DEF Sound, RightsSound
<1>5. Reason(ended, proc["root"].ret)
  BY <1>1, <1>2 DEF Explained, Free
<1> QED
  BY <1>1, <1>3, <1>4, <1>5

\* main comes to the destructor of NAT.
LEMMA RulesReached ==
  ASSUME ShellInv, LoopDestroyed
  PROVE  /\ TreeInv(Goto(proc, "root", "rules"), ended, nat)
         /\ Goto(proc, "root", "rules")["root"].pc = "rules"
<1> DEFINE r == proc["root"]
           u == [r EXCEPT !.pc = "rules"]
<1>1. /\ "root" \in Procs /\ "root" \in Parents /\ r.state = "running"
      /\ Away(proc[First("root")]) /\ Away(proc[Second("root")])
      /\ r.priv /\ Cleaning(r) /\ Reason(ended, r.ret)
  BY LoopDestroyedIsQuiet DEF Procs, Parents
<1>2. /\ TreeInv(proc, ended, nat) /\ proc \in [Procs -> ProcessRecord] /\ r \in ProcessRecord
      /\ Sound("root", r) /\ FamilySound(r, proc[First("root")], proc[Second("root")])
      /\ RulesSound(r, nat)
  BY <1>1, InShell DEF TreeInv
<1>3. /\ u \in ProcessRecord
      /\ u.pc = "rules" /\ u.state = r.state /\ u.report = r.report /\ u.status = r.status
      /\ u.running_ = r.running_ /\ u.terminated_ = r.terminated_ /\ u.ret = r.ret
      /\ u.pending = r.pending /\ u.mask = r.mask /\ u.next = r.next
      /\ u.priv = r.priv /\ u.env = r.env
  <2>1. "rules" \in Labels
    BY DEF Labels
  <2> QED
    BY <1>2, <2>1 DEF ProcessRecord
<1>4. Goto(proc, "root", "rules") = [proc EXCEPT !["root"] = u]
  BY <1>2 DEF Goto
<1> HIDE DEF u
<1>5. MaskSound("root", u)
  BY <1>2, <1>3 DEF Sound, MaskSound, Blocking, Parents
<1>6. RightsSound("root", u)
  BY <1>1, <1>2, <1>3 DEF Sound, RightsSound, Unborn
<1>7. FamilySound(u, proc[First("root")], proc[Second("root")])
  BY <1>1, <1>2, <1>3 DEF FamilySound, Destroying
<1>8. RulesSound(u, nat)
  BY <1>2, <1>3 DEF RulesSound
<1>9. TreeInv([proc EXCEPT !["root"] = u], ended, nat)
  <2>1. Leaving(u) /\ Alive(r) /\ u.pending \subseteq r.pending
    BY <1>1, <1>3 DEF Leaving, Alive
  <2> QED
    BY <1>1, <1>2, <1>3, <1>5, <1>6, <1>7, <1>8, <2>1, MovedKeeps
<1> QED
  BY <1>1, <1>2, <1>3, <1>4, <1>9

\* A rule is removed, or iptables fails; it is not denied root's rights.
LEMMA remove_ruleKeeps ==
  ASSUME ShellInv, NEW r \in Rules, remove_rule(r)
  PROVE  ShellInv'
<1>1. LoopDestroyed /\ proc' = Goto(proc, "root", "rules") /\ UNCHANGED bug
  BY DEF remove_rule
<1>2. TreeInv(proc', ended, nat) /\ proc'["root"].pc = "rules"
  BY <1>1, RulesReached
<1>3. /\ RulesSound(proc'["root"], nat)
      /\ nat \in [Rules -> RuleStates] /\ ended \subseteq {"ok", "fail", "signal"}
  BY <1>2 DEF ShellInv, TreeInv
<1>4. PICK was \in {"absent", "left"} : nat' = [nat EXCEPT ![r] = was]
  BY <1>1, LoopDestroyedIsQuiet DEF remove_rule
<1>5. /\ nat' \in [Rules -> RuleStates]
      /\ \A x \in Rules : nat'[x] # "denied"
  BY <1>3, <1>4 DEF RuleStates, RulesSound
<1>6. RulesSound(proc'["root"], nat')
  BY <1>2, <1>5 DEF RulesSound
<1>7. TreeInv(proc', ended, nat')
  BY <1>2, <1>6, OtherRules
<1>8. ended' = ended
  BY DEF remove_rule, Event, outside
<1> QED
  BY <1>1, <1>3, <1>5, <1>7, <1>8 DEF ShellInv

\* main ends when no NATRule is left.
LEMMA finish_rootKeeps ==
  ASSUME ShellInv, finish_root
  PROVE  ShellInv'
<1>1. /\ "root" \in Procs /\ LoopDestroyed
      /\ \A x \in Rules : nat[x] # "owned"
  BY DEF finish_root, Procs
<1>2. proc["root"] \in ProcessRecord /\ TreeInv(proc, ended, nat)
  BY <1>1, InShell
<1>3. MayEnd(proc, ended, nat, "root", proc["root"].ret)
  BY <1>1, LoopDestroyedIsQuiet DEF MayEnd, MayEndAt
<1>4. proc["root"].ret \in {0, 1}
  BY <1>2 DEF ProcessRecord
<1>5. TreeInv(Die(proc, "root", proc["root"].ret), ended, nat)
  BY <1>1, <1>2, <1>3, <1>4, DieKeeps
<1> QED
  BY <1>5 DEF finish_root, ShellInv, outside

\* exit in a child: the destructors have run, so no grandchild is left.
LEMMA exitKeeps ==
  ASSUME ShellInv, NEW p \in {"uplink", "downlink"}, exit(p)
  PROVE  ShellInv'
<1>1. /\ p \in Procs /\ ChildrenDestroyed(p)
      /\ proc[p].state = "running" /\ proc[p].pc = "destroy"
  BY DEF exit, ChildrenDestroyed, At, Procs
<1>2. /\ proc[p] \in ProcessRecord /\ TreeInv(proc, ended, nat)
      /\ Explained(proc[p], Free(proc, p), ended)
  BY <1>1, InShell
<1>3. MayEnd(proc, ended, nat, p, proc[p].ret)
  <2>1. p \in Parents => Away(proc[First(p)]) /\ Away(proc[Second(p)])
    BY <1>1, DestroyedAreAway
  <2>2. Free(proc, p) \/ Reason(ended, proc[p].ret)
    BY <1>1, <1>2 DEF Explained, Cleaning
  <2> QED
    BY <1>1, <2>1, <2>2 DEF MayEnd, MayEndAt
<1>4. proc[p].ret \in {0, 1}
  BY <1>2 DEF ProcessRecord
<1>5. TreeInv(Die(proc, p, proc[p].ret), ended, nat)
  BY <1>1, <1>2, <1>3, <1>4, DieKeeps
<1> QED
  BY <1>5 DEF exit, ShellInv, outside

\* A child unblocks the signals, and lives on or is killed.
LEMMA UnblockKeeps ==
  ASSUME ShellInv, NEW p \in Procs, p # "root", At(p, "born")
  PROVE  /\ TreeInv(Unblock(p), ended, nat)
         /\ Unblock(p)[p].state # "dead" =>
              LET r == Unblock(p)[p]
              IN  /\ r.state = "running" /\ r.pc = "born" /\ r.mask = {}
                  /\ r.pending \subseteq Terminating
<1> DEFINE r == proc[p]
           u == [r EXCEPT !.mask = {}, !.pending = r.pending \cap Terminating]
           t == [proc EXCEPT ![p] = u]
<1>1. TreeInv(proc, ended, nat) /\ proc \in [Procs -> ProcessRecord] /\ r \in ProcessRecord
  BY InShell
<1>2. Unblock(p) = Act(t, p)
  BY <1>1 DEF Unblock
<1>3. u \in ProcessRecord
  <2> DEFINE x == [r EXCEPT !.mask = {}]
             g == r.pending \cap Terminating
  <2>1. x \in ProcessRecord
    BY <1>1 DEF ProcessRecord
  <2>2. g \in SUBSET LoopSignals
    BY <1>1 DEF LoopSignals
  <2> HIDE DEF x, g
  <2>3. [x EXCEPT !.pending = g] \in ProcessRecord
    BY <2>1, <2>2 DEF ProcessRecord
  <2> QED
    BY <2>3 DEF x, g
<1>4. /\ u.mask = {} /\ u.pending = r.pending \cap Terminating
      /\ u.pc = r.pc /\ u.state = r.state /\ u.report = r.report /\ u.status = r.status
      /\ u.running_ = r.running_ /\ u.terminated_ = r.terminated_ /\ u.ret = r.ret
      /\ u.priv = r.priv /\ u.env = r.env
  BY <1>1 DEF ProcessRecord
<1>5. t[p] = u
  BY <1>1
<1> HIDE DEF u
<1>6. MayMove(p, r, proc[First(p)], proc[Second(p)], u)
  BY <1>4 DEF MayMove, Unblocks, At
<1>7. TreeInv(t, ended, nat)
  BY <1>1, <1>3, <1>4, <1>6, MoveKeeps DEF At, Alive
<1> HIDE DEF t
<1>8. /\ TreeInv(Act(t, p), ended, nat)
      /\ Act(t, p) = t \/ Act(t, p)[p].state = "dead"
  BY <1>7, ActKeeps
<1> QED
  BY <1>2, <1>4, <1>5, <1>8 DEF At

\* A child starts by unblocking the signals, and may die of one that was pending
\* before it has children.
LEMMA startKeeps ==
  ASSUME ShellInv, NEW p \in {"uplink", "downlink"}, start(p)
  PROVE  ShellInv'
<1> DEFINE t == Unblock(p)
           r == t[p]
<1>1. At(p, "born") /\ p # "root" /\ p \in Procs /\ p \in Procs \ Programs
  BY DEF start, Procs, Programs
<1>2. /\ TreeInv(t, ended, nat)
      /\ r.state # "dead" => r.state = "running" /\ r.pc = "born"
  BY <1>1, UnblockKeeps
<1>3. /\ t \in [Procs -> ProcessRecord] /\ r \in ProcessRecord
  BY <1>1, <1>2, InTable
<1>4. CASE r.state = "dead"
  BY <1>2, <1>4 DEF start, ShellInv, outside
<1>5. CASE r.state # "dead" /\ p = "uplink"
  <2> DEFINE u == [r EXCEPT !.pc = "setup"]
  <2>1. proc' = Goto(t, p, "setup") /\ UNCHANGED <<bug, nat, ended>>
    BY <1>5 DEF start, outside
  <2> HIDE DEF t
  <2>2. Goto(t, p, "setup") = [t EXCEPT ![p] = u]
    BY <1>1, <1>3 DEF Goto
  <2>3. u \in ProcessRecord
    <3>1. "setup" \in Labels
      BY DEF Labels
    <3> QED
      BY <1>3, <3>1 DEF ProcessRecord
  <2>4. /\ u.pc = "setup" /\ u.mask = r.mask /\ u.pending = r.pending
        /\ u.state = r.state /\ u.report = r.report /\ u.status = r.status
        /\ u.running_ = r.running_ /\ u.terminated_ = r.terminated_ /\ u.ret = r.ret
        /\ u.priv = r.priv /\ u.env = r.env
    BY <1>3 DEF ProcessRecord
  <2> HIDE DEF u
  <2>5. MayMove(p, r, t[First(p)], t[Second(p)], u)
    BY <1>2, <1>5, <2>4 DEF MayMove, Starts, Steady
  <2>6. TreeInv([t EXCEPT ![p] = u], ended, nat)
    BY <1>1, <1>2, <1>5, <2>3, <2>4, <2>5, MoveKeeps DEF Alive
  <2> QED
    BY <2>1, <2>2, <2>6 DEF ShellInv
<1>6. CASE r.state # "dead" /\ p = "downlink"
  <2> DEFINE u == [r EXCEPT !.priv = FALSE, !.env = TRUE, !.pc = "recv_fd"]
             next == Goto(drop_privileges(t, p), p, "recv_fd")
  <2>1. Does(p, next) /\ UNCHANGED <<bug, nat>>
    BY <1>6 DEF start
  <2>2. next = [t EXCEPT ![p] = u]
    <3> HIDE DEF t
    <3> QED
      BY <1>1, <1>3 DEF Goto, drop_privileges
  <2>3. u \in ProcessRecord
    <3> DEFINE x == [r EXCEPT !.priv = FALSE]
               y == [x EXCEPT !.env = TRUE]
    <3>1. x \in ProcessRecord /\ "recv_fd" \in Labels
      BY <1>3 DEF ProcessRecord, Labels
    <3> HIDE DEF x
    <3>2. y \in ProcessRecord
      BY <3>1 DEF ProcessRecord
    <3> HIDE DEF y
    <3>3. [y EXCEPT !.pc = "recv_fd"] \in ProcessRecord
      BY <3>1, <3>2 DEF ProcessRecord
    <3> QED
      BY <3>3 DEF x, y
  <2>4. /\ u.pc = "recv_fd" /\ u.mask = r.mask /\ u.pending = r.pending /\ ~ u.priv
        /\ u.state = r.state /\ u.report = r.report /\ u.status = r.status
        /\ u.running_ = r.running_ /\ u.terminated_ = r.terminated_ /\ u.ret = r.ret
    BY <1>3 DEF ProcessRecord
  <2> HIDE DEF u
  <2>5. MayMove(p, r, t[First(p)], t[Second(p)], u)
    BY <1>2, <1>6, <2>4 DEF MayMove, Starts
  <2>6. TreeInv([t EXCEPT ![p] = u], ended, nat)
    <3> HIDE DEF t
    <3> QED
      BY <1>1, <1>2, <1>6, <2>3, <2>4, <2>5, MoveKeeps DEF Alive
  <2>7. TreeInv(next, ended, nat)
    BY <2>2, <2>6
  <2>8. TreeInv(proc', ended', nat) /\ ended' \subseteq {"ok", "fail", "signal"}
    <3> HIDE DEF next
    <3> QED
      BY <1>1, <2>1, <2>7, DoesKeeps DEF At, Alive
  <2> QED
    BY <2>1, <2>8 DEF ShellInv
<1> QED
  BY <1>4, <1>5, <1>6

\* The children of main block the signals again.
LEMMA uplink_setupKeeps ==
  ASSUME ShellInv, uplink_setup
  PROVE  ShellInv'
<1>1. /\ "uplink" \in Procs /\ "uplink" \in Procs \ Programs
      /\ proc["uplink"].state = "running" /\ proc["uplink"].pc = "setup"
  BY DEF uplink_setup, At, Procs, Programs
<1>2. TreeInv(Goto(Masked("uplink"), "uplink", "fork_dnsmasq"), ended, nat)
  BY <1>1, MaskedKeeps
<1>3. TreeInv(proc', ended', nat) /\ ended' \subseteq {"ok", "fail", "signal"}
  BY <1>1, <1>2, DoesKeeps DEF uplink_setup, Alive
<1> QED
  BY <1>3 DEF uplink_setup, ShellInv

LEMMA recv_fdKeeps ==
  ASSUME ShellInv, recv_fd
  PROVE  ShellInv'
<1>1. /\ "downlink" \in Procs /\ "downlink" \in Procs \ Programs
      /\ proc["downlink"].state = "running" /\ proc["downlink"].pc = "recv_fd"
  BY DEF recv_fd, At, Procs, Programs
<1>2. TreeInv(Goto(Masked("downlink"), "downlink", "queue"), ended, nat)
  BY <1>1, MaskedKeeps
<1>3. TreeInv(proc', ended', nat) /\ ended' \subseteq {"ok", "fail", "signal"}
  BY <1>1, <1>2, DoesKeeps DEF recv_fd, Alive
<1> QED
  BY <1>3 DEF recv_fd, ShellInv

\* Only the place in the program changes.
LEMMA GotoKeeps ==
  ASSUME NEW t, NEW e, NEW n, TreeInv(t, e, n), NEW p \in Procs, Alive(t[p]),
         NEW l \in Labels,
         NEW u, u = [t[p] EXCEPT !.pc = l],
         MayMove(p, t[p], t[First(p)], t[Second(p)], u), t[p].pc # "nat"
  PROVE  TreeInv(Goto(t, p, l), e, n)
<1>1. t \in [Procs -> ProcessRecord] /\ t[p] \in ProcessRecord
  BY InTable
<1>2. Goto(t, p, l) = [t EXCEPT ![p] = u]
  BY <1>1 DEF Goto
<1>3. u \in ProcessRecord
  BY <1>1 DEF ProcessRecord
<1>4. /\ u.pending = t[p].pending
      /\ u.state = t[p].state /\ u.report = t[p].report /\ u.status = t[p].status
      /\ u.running_ = t[p].running_ /\ u.terminated_ = t[p].terminated_ /\ u.ret = t[p].ret
  BY <1>1 DEF ProcessRecord
<1>5. u.pending \subseteq t[p].pending
  BY <1>4
<1>6. TreeInv([t EXCEPT ![p] = u], e, n)
  BY ONLY TreeInv(t, e, n), p \in Procs, Alive(t[p]), <1>3, <1>4, <1>5,
          MayMove(p, t[p], t[First(p)], t[Second(p)], u), t[p].pc # "nat", MoveKeeps
<1> QED
  BY <1>2, <1>6

\* The uplink's steps between its forks.
LEMMA GoesOnKeeps ==
  ASSUME ShellInv, proc["uplink"].state = "running", NEW l,
         \/ proc["uplink"].pc = "await_dnsmasq" /\ l = "fork_command"
         \/ proc["uplink"].pc = "send_fd" /\ l = "queue"
  PROVE  TreeInv(Goto(proc, "uplink", l), ended, nat)
<1> DEFINE r == proc["uplink"]
           u == [r EXCEPT !.pc = l]
<1>1. "uplink" \in Procs
  BY DEF Procs
<1>2. TreeInv(proc, ended, nat) /\ r \in ProcessRecord
  BY <1>1, InShell
<1>3. /\ u.pc = l /\ u.mask = r.mask /\ (u.priv <=> r.priv) /\ (u.env <=> r.env)
  BY <1>2 DEF ProcessRecord
<1>4. u = [proc["uplink"] EXCEPT !.pc = l]
  OBVIOUS
<1>5. l \in Labels
  BY DEF Labels
<1> HIDE DEF u
<1>6. MayMove("uplink", r, proc[First("uplink")], proc[Second("uplink")], u)
  BY <1>3 DEF MayMove, GoesOn, Steady
<1> QED
  BY <1>1, <1>2, <1>4, <1>5, <1>6, GotoKeeps DEF Alive

LEMMA await_dnsmasqKeeps ==
  ASSUME ShellInv, await_dnsmasq
  PROVE  ShellInv'
<1>1. /\ "uplink" \in Procs \ Programs
      /\ proc["uplink"].state = "running" /\ proc["uplink"].pc = "await_dnsmasq"
      /\ UNCHANGED <<bug, nat>>
  BY DEF await_dnsmasq, At, Procs, Programs
<1>2. CASE proc' = Goto(proc, "uplink", "fork_command") /\ UNCHANGED ended
  <2>1. TreeInv(Goto(proc, "uplink", "fork_command"), ended, nat)
    BY <1>1, GoesOnKeeps
  <2> QED
    BY <1>1, <1>2, <2>1 DEF ShellInv
<1>3. CASE proc' = Fail(proc, "uplink") /\ ended' = ended \cup {"fail"}
  <2>1. TreeInv(proc, ended \cup {"fail"}, nat)
    BY MoreOutside DEF ShellInv
  <2>2. TreeInv(Fail(proc, "uplink"), ended \cup {"fail"}, nat)
    BY <1>1, <2>1, FailKeeps DEF Alive
  <2> QED
    BY <1>1, <1>3, <2>2 DEF ShellInv
<1> QED
  BY <1>2, <1>3 DEF await_dnsmasq

LEMMA send_fdKeeps ==
  ASSUME ShellInv, send_fd
  PROVE  ShellInv'
<1>1. /\ "uplink" \in Procs \ Programs
      /\ proc["uplink"].state = "running" /\ proc["uplink"].pc = "send_fd"
  BY DEF send_fd, At, Procs, Programs
<1>2. TreeInv(Goto(proc, "uplink", "queue"), ended, nat)
  BY <1>1, GoesOnKeeps
<1>3. TreeInv(proc', ended', nat) /\ ended' \subseteq {"ok", "fail", "signal"}
  BY <1>1, <1>2, DoesKeeps DEF send_fd, Alive
<1> QED
  BY <1>3 DEF send_fd, ShellInv

\* The command never has root's rights: they are dropped before the fork.
LEMMA fork_commandKeeps ==
  ASSUME ShellInv, fork_command
  PROVE  ShellInv'
<1> DEFINE t == drop_privileges(proc, "uplink")
           r == proc["uplink"]
           u == [r EXCEPT !.priv = FALSE, !.env = TRUE]
<1>1. /\ "uplink" \in Procs /\ "uplink" \in Procs \ Programs
      /\ r.state = "running" /\ r.pc = "fork_command"
  BY DEF fork_command, At, Procs, Programs
<1>2. TreeInv(proc, ended, nat) /\ proc \in [Procs -> ProcessRecord] /\ r \in ProcessRecord
  BY <1>1, InShell
<1>3. t = [proc EXCEPT !["uplink"] = u]
  BY <1>1, <1>2 DEF drop_privileges
<1>4. u \in ProcessRecord
  <2> DEFINE x == [r EXCEPT !.priv = FALSE]
  <2>1. x \in ProcessRecord
    BY <1>2 DEF ProcessRecord
  <2> HIDE DEF x
  <2>2. [x EXCEPT !.env = TRUE] \in ProcessRecord
    BY <2>1 DEF ProcessRecord
  <2> QED
    BY <2>2 DEF x
<1>5. /\ u.pc = r.pc /\ u.mask = r.mask /\ u.pending = r.pending /\ ~ u.priv
      /\ u.state = r.state /\ u.report = r.report /\ u.status = r.status
      /\ u.running_ = r.running_ /\ u.terminated_ = r.terminated_ /\ u.ret = r.ret
  BY <1>2 DEF ProcessRecord
<1>6. t["uplink"] = u
  BY <1>1, <1>2, <1>3
<1> HIDE DEF u
<1>7. MayMove("uplink", r, proc[First("uplink")], proc[Second("uplink")], u)
  BY <1>1, <1>5 DEF MayMove, Drops
<1>8. TreeInv(t, ended, nat)
  <2>1. TreeInv([proc EXCEPT !["uplink"] = u], ended, nat)
    BY <1>1, <1>2, <1>4, <1>5, <1>7, MoveKeeps DEF Alive
  <2> QED
    BY <1>3, <2>1
<1> HIDE DEF t
<1>9. TreeInv(Fork(t, "uplink", "command", "send_fd"), ended, nat)
  <2>1. MayFork("uplink", "command", "fork_command", "send_fd")
    BY DEF MayFork
  <2> QED
    BY <1>1, <1>5, <1>6, <1>8, <2>1, ForkKeeps
<1>10. Does("uplink", Fork(t, "uplink", "command", "send_fd")) /\ UNCHANGED <<bug, nat>>
  BY DEF fork_command, t
<1>11. TreeInv(proc', ended', nat) /\ ended' \subseteq {"ok", "fail", "signal"}
  BY <1>1, <1>9, <1>10, DoesKeeps DEF Alive
<1> QED
  BY <1>10, <1>11 DEF ShellInv

\* The ferry ends, well or with an exception.
LEMMA ferry_endsKeeps ==
  ASSUME ShellInv, NEW p \in {"uplink", "downlink"}, ferry_ends(p)
  PROVE  ShellInv'
<1>1. /\ p \in Procs \ Programs /\ Alive(proc[p]) /\ proc[p].pc = "poll"
      /\ UNCHANGED <<bug, nat>>
  BY DEF ferry_ends, At, Alive, Procs, Programs
<1>2. CASE proc' = Leave(proc, p, 0) /\ Event({"ok"})
  <2>1. TreeInv(proc, ended \cup {"ok"}, nat)
    BY MoreOutside DEF ShellInv
  <2>2. TreeInv(Leave(proc, p, 0), ended \cup {"ok"}, nat)
    BY <1>1, <2>1, LeaveKeeps DEF Reason
  <2> QED
    BY <1>1, <1>2, <2>2 DEF ShellInv, Event
<1>3. CASE proc' = Fail(proc, p) /\ Event({"fail"})
  <2>1. TreeInv(proc, ended \cup {"fail"}, nat)
    BY MoreOutside DEF ShellInv
  <2>2. TreeInv(Fail(proc, p), ended \cup {"fail"}, nat)
    BY <1>1, <2>1, FailKeeps
  <2> QED
    BY <1>1, <1>3, <2>2 DEF ShellInv, Event
<1> QED
  BY <1>2, <1>3 DEF ferry_ends

\* A process without children of its own ends.
LEMMA LeafDies ==
  ASSUME NEW t, NEW e, NEW n, TreeInv(t, e, n), NEW p \in Procs \ Parents,
         t[p].state \in {"running", "dead"}, NEW s \in {0, 1}, Free(t, p) \/ Reason(e, s)
  PROVE  TreeInv(Die(t, p, s), e, n)
<1>1. MayEnd(t, e, n, p, s)
  BY DEF MayEnd, MayEndAt, Parents
<1> QED
  BY <1>1, DieKeeps

\* A link aborts: its children are left to themselves.
LEMMA link_abortsKeeps ==
  ASSUME ShellInv, NEW p \in {"uplink", "downlink"}, link_aborts(p)
  PROVE  ShellInv'
<1>1. /\ p \in Procs /\ p # "root" /\ proc[p].state = "running"
      /\ proc' = EndAt(proc, p, 1, "abort") /\ ended' = ended \cup {"fail"}
      /\ UNCHANGED <<bug, nat>>
  BY DEF link_aborts, Abort, At, Event, Procs
<1>2. TreeInv(proc, ended \cup {"fail"}, nat)
  BY MoreOutside DEF ShellInv
<1>3. MayEndAt(proc, ended \cup {"fail"}, nat, p, 1, "abort")
  BY <1>1 DEF MayEndAt, Reason
<1>4. TreeInv(EndAt(proc, p, 1, "abort"), ended \cup {"fail"}, nat)
  BY <1>1, <1>2, <1>3, EndKeeps
<1> QED
  BY <1>1, <1>4 DEF ShellInv

-----------------------------------------------------------------------------
(* dnsmasq, the command and the user *)

LEMMA execKeeps ==
  ASSUME ShellInv, NEW c \in Programs, exec(c)
  PROVE  ShellInv'
<1> DEFINE t == Unblock(c)
           r == t[c]
           u == [r EXCEPT !.pc = "program", !.mask = Terminating]
           next == [Goto(t, c, "program") EXCEPT ![c].mask = Terminating]
<1>1. /\ c \in Procs /\ c \in Procs \ Parents /\ c # "root" /\ At(c, "born")
      /\ UNCHANGED nat
  BY DEF exec, Programs, Procs, Parents
<1>2. /\ TreeInv(t, ended, nat)
      /\ r.state # "dead" => /\ r.state = "running" /\ r.pc = "born"
                             /\ r.pending \subseteq Terminating
  BY <1>1, UnblockKeeps
<1>3. t \in [Procs -> ProcessRecord] /\ r \in ProcessRecord
  BY <1>1, <1>2, InTable
<1>4. ~ bug'
  <2>1. Sound(c, proc[c])
    BY <1>1, InShell
  <2>2. ~ (proc[c].priv /\ (proc[c].env \/ c = "command"))
    BY <1>1, <2>1 DEF Sound, RightsSound, Unborn, At, Programs
  <2> QED
    BY <2>2 DEF exec, Check, ShellInv
<1>5. CASE proc' = t /\ UNCHANGED outside
  BY <1>1, <1>2, <1>4, <1>5 DEF ShellInv, outside
<1>6. CASE r.state # "dead" /\ proc' = next /\ UNCHANGED outside
  <2>1. next = [t EXCEPT ![c] = u]
    <3> HIDE DEF t
    <3> QED
      BY <1>1, <1>3 DEF Goto
  <2>2. u \in ProcessRecord
    <3> DEFINE x == [r EXCEPT !.pc = "program"]
    <3>1. x \in ProcessRecord
      <4>1. "program" \in Labels
        BY DEF Labels
      <4> QED
        BY <1>3, <4>1 DEF ProcessRecord
    <3> HIDE DEF x
    <3>2. Terminating \in SUBSET LoopSignals
      BY DEF LoopSignals
    <3>3. [x EXCEPT !.mask = Terminating] \in ProcessRecord
      BY <3>1, <3>2 DEF ProcessRecord
    <3> QED
      BY <3>3 DEF x
  <2>3. /\ u.pc = "program" /\ u.mask = Terminating /\ u.pending = r.pending
        /\ u.state = r.state /\ u.report = r.report /\ u.status = r.status
        /\ u.running_ = r.running_ /\ u.terminated_ = r.terminated_ /\ u.ret = r.ret
        /\ u.priv = r.priv /\ u.env = r.env
    BY <1>3 DEF ProcessRecord
  <2> HIDE DEF u
  <2>4. MayMove(c, r, t[First(c)], t[Second(c)], u)
    BY <1>2, <1>6, <2>3 DEF MayMove, Execs
  <2>5. TreeInv([t EXCEPT ![c] = u], ended, nat)
    <3> HIDE DEF t
    <3> QED
      BY <1>1, <1>2, <1>6, <2>2, <2>3, <2>4, MoveKeeps DEF Alive
  <2>6. TreeInv(next, ended, nat)
    BY <2>1, <2>5
  <2> HIDE DEF next
  <2> QED
    BY <1>1, <1>4, <1>6, <2>6 DEF ShellInv, outside
<1>7. CASE proc' = Die(t, c, 1) /\ Event({"fail"})
  <2>1. TreeInv(t, ended \cup {"fail"}, nat)
    BY <1>2, MoreOutside
  <2>2. r.state \in {"running", "dead"}
    BY <1>2
  <2> HIDE DEF t
  <2>3. TreeInv(Die(t, c, 1), ended \cup {"fail"}, nat)
    BY <1>1, <2>1, <2>2, LeafDies DEF Reason
  <2> QED
    BY <1>1, <1>4, <1>7, <2>3 DEF ShellInv, Event
<1> QED
  BY <1>5, <1>6, <1>7 DEF exec

\* The programs: they obey a termination signal, or end by themselves.
LEMMA obeyKeeps ==
  ASSUME ShellInv, NEW c \in Programs, obey(c)
  PROVE  ShellInv'
<1>1. /\ c \in Procs /\ c \in Procs \ Parents
      /\ proc[c].state = "running" /\ proc[c].pc = "program" /\ proc[c].pending # {}
  BY DEF obey, At, Programs, Procs, Parents
<1>2. /\ TreeInv(proc, ended, nat) /\ Sound(c, proc[c])
      /\ Explained(proc[c], Free(proc, c), ended)
  BY <1>1, InShell
<1>3. Free(proc, c) \/ "signal" \in ended
  <2>1. proc[c].pending \cap Terminating # {}
    BY <1>1, <1>2 DEF Sound, MaskSound
  <2> QED
    BY <1>2, <2>1 DEF Explained
<1>4. PICK s \in {0, 1} : proc' = Die(proc, c, s)
  BY DEF obey
<1>5. TreeInv(Die(proc, c, s), ended, nat)
  BY <1>1, <1>2, <1>3, LeafDies DEF Reason
<1> QED
  BY <1>4, <1>5 DEF obey, ShellInv, outside

LEMMA program_endsKeeps ==
  ASSUME ShellInv, NEW c \in Programs, program_ends(c)
  PROVE  ShellInv'
<1>1. c \in Procs \ Parents /\ proc[c].state = "running" /\ UNCHANGED <<bug, nat>>
  BY DEF program_ends, At, Programs, Procs, Parents
<1>2. CASE proc' = Die(proc, c, 0) /\ Event({"ok"})
  <2>1. TreeInv(proc, ended \cup {"ok"}, nat)
    BY MoreOutside DEF ShellInv
  <2>2. TreeInv(Die(proc, c, 0), ended \cup {"ok"}, nat)
    BY <1>1, <2>1, LeafDies DEF Reason
  <2> QED
    BY <1>1, <1>2, <2>2 DEF ShellInv, Event
<1>3. CASE proc' = Die(proc, c, 1) /\ Event({"fail"})
  <2>1. TreeInv(proc, ended \cup {"fail"}, nat)
    BY MoreOutside DEF ShellInv
  <2>2. TreeInv(Die(proc, c, 1), ended \cup {"fail"}, nat)
    BY <1>1, <2>1, LeafDies DEF Reason
  <2> QED
    BY <1>1, <1>3, <2>2 DEF ShellInv, Event
<1> QED
  BY <1>2, <1>3 DEF program_ends

\* The user's signals.
LEMMA user_terminatesKeeps ==
  ASSUME ShellInv, NEW targets, user_terminates(targets)
  PROVE  ShellInv'
<1>1. PICK sig \in UserSignals : proc' = SendAll(proc, targets, sig)
  BY DEF user_terminates
<1>2. ended' = ended \cup {"signal"} /\ UNCHANGED <<bug, nat>>
  BY DEF user_terminates, Event
<1>3. TreeInv(proc, ended \cup {"signal"}, nat)
  BY MoreOutside DEF ShellInv
<1>4. sig \in Terminating
  BY ShellAssumption DEF ShellAssumption
<1>5. TreeInv(SendAll(proc, targets, sig), ended \cup {"signal"}, nat)
  BY <1>3, <1>4, SendAllKeeps
<1> QED
  BY <1>1, <1>2, <1>5 DEF ShellInv

LEMMA user_stopsKeeps ==
  ASSUME ShellInv, NEW targets, user_stops(targets)
  PROVE  ShellInv'
<1>1. TreeInv(StopAll(proc, targets), ended, nat)
  BY StopAllKeeps DEF ShellInv
<1>2. ended' = ended
  BY DEF user_stops, Event
<1> QED
  BY <1>1, <1>2 DEF user_stops, ShellInv

LEMMA user_continuesKeeps ==
  ASSUME ShellInv, user_continues
  PROVE  ShellInv'
<1>1. PICK targets \in {{"root"}, Procs} : proc' = SendAll(proc, targets, "CONT")
  BY DEF user_continues
<1>2. TreeInv(SendAll(proc, targets, "CONT"), ended, nat)
  BY SendAllKeeps DEF ShellInv, Terminating
<1> QED
  BY <1>1, <1>2 DEF user_continues, ShellInv, outside

-----------------------------------------------------------------------------
(* The event loop *)

\* The processes that have an event loop.
Loopers == {"root", "uplink", "downlink"}


\* The event loop: a termination signal makes the process leave with status 0 ...
LEMMA handle_terminationKeeps ==
  ASSUME ShellInv, NEW p \in Loopers, handle_termination(p)
  PROVE  TreeInv(proc', ended, nat) /\ ~ bug'
<1> DEFINE signals == proc[p].pending \ {Lowest(proc[p].pending)}
           t == [proc EXCEPT ![p].pending = signals]
<1>1. p \in Procs /\ p \in Procs \ Programs /\ proc[p].state = "running" /\ proc[p].pc = "poll"
  BY DEF handle_termination, At, Procs, Programs, Loopers
<1>2. /\ TreeInv(proc, ended, nat) /\ proc \in [Procs -> ProcessRecord]
      /\ proc[p] \in ProcessRecord /\ Explained(proc[p], Free(proc, p), ended)
      /\ proc[p].pending \in SUBSET LoopSignals
  BY <1>1, InShell DEF ProcessRecord
<1>3. Lowest(proc[p].pending) \in proc[p].pending \cap Terminating
  BY <1>2, LowestIsPending DEF handle_termination
<1>4. Free(proc, p) \/ "signal" \in ended
  BY <1>2, <1>3 DEF Explained
<1>5. proc' = Leave(t, p, 0)
  BY <1>1, <1>2 DEF handle_termination
<1>6. /\ signals \in SUBSET LoopSignals /\ signals \cap Terminating \subseteq proc[p].pending
      /\ "CHLD" \in signals => "CHLD" \in proc[p].pending
  BY <1>2
<1> HIDE DEF signals
<1>7. /\ TreeInv(t, ended, nat) /\ t[p].state = "running" /\ Apart(proc, t, p)
  BY <1>1, <1>2, <1>6, PendingChanges
<1>8. Free(t, p) \/ Reason(ended, 0)
  <2>1. p # "root" => Parent[p] \in Procs \ {p}
    BY ParentOf DEF Procs, Loopers
  <2>2. Free(proc, p) => Free(t, p)
    BY <1>7, <2>1 DEF Free, Apart, Leaving
  <2> QED
    BY <1>4, <2>2 DEF Reason
<1>9. t[p].pc = "poll"
  BY <1>1, <1>2 DEF ProcessRecord
<1> HIDE DEF t
<1>10. TreeInv(Leave(t, p, 0), ended, nat)
  BY <1>1, <1>7, <1>8, <1>9, LeaveKeeps DEF Alive
<1> QED
  BY <1>5, <1>10 DEF handle_termination, ShellInv

\* ... SIGCONT is passed on ...
LEMMA handle_continueKeeps ==
  ASSUME ShellInv, NEW p \in Loopers, handle_continue(p)
  PROVE  TreeInv(proc', ended, nat) /\ ~ bug'
<1> DEFINE t == [proc EXCEPT ![p].pending = {}]
<1>1. p \in Procs /\ proc[p].state = "running" /\ TreeInv(proc, ended, nat)
  BY DEF handle_continue, At, Procs, Loopers, ShellInv
<1>2. TreeInv(t, ended, nat)
  BY <1>1, PendingChanges
<1> HIDE DEF t
<1>3. TreeInv(resume_children(t, p), ended, nat)
  BY <1>1, <1>2, resume_childrenKeeps
<1> QED
  BY <1>3 DEF handle_continue, ShellInv, t

\* The place in the loop, the pending signals and the loop over the children
\* change.
LEMMA LoopFields ==
  ASSUME NEW r \in ProcessRecord, NEW g \in SUBSET LoopSignals, NEW l \in Labels,
         NEW i \in 1..3
  PROVE  [r EXCEPT !.pending = g, !.pc = l, !.next = i] \in ProcessRecord
<1> DEFINE a == [r EXCEPT !.pending = g]
           b == [a EXCEPT !.pc = l]
<1>1. a \in ProcessRecord
  BY DEF ProcessRecord
<1> HIDE DEF a
<1>2. b \in ProcessRecord
  BY <1>1 DEF ProcessRecord
<1> HIDE DEF b
<1>3. [b EXCEPT !.next = i] \in ProcessRecord
  BY <1>2 DEF ProcessRecord
<1> QED
  BY <1>3 DEF a, b

\* A looping process moves on in its search, or in its destructors past a child
\* that is away.
LEMMA LoopMoves ==
  ASSUME NEW t, NEW e, NEW n, TreeInv(t, e, n), NEW p \in Procs, t[p].state = "running",
         NEW g \in SUBSET LoopSignals, g \subseteq t[p].pending, NEW l, NEW i \in 1..3,
         \/ t[p].pc \in {"poll", "search"} /\ l \in {"poll", "search"}
         \/ /\ p \in Parents /\ t[p].pc = "destroy" /\ l = "destroy"
            /\ i > 1 => Away(t[First(p)])
            /\ i > 2 => Away(t[Second(p)])
  PROVE  TreeInv([t EXCEPT ![p] = [t[p] EXCEPT !.pending = g, !.pc = l, !.next = i]], e, n)
<1> DEFINE r == t[p]
           u == [r EXCEPT !.pending = g, !.pc = l, !.next = i]
<1>1. t \in [Procs -> ProcessRecord] /\ r \in ProcessRecord
  BY InTable
<1>2. u \in ProcessRecord
  <2>1. l \in Labels
    BY DEF Labels
  <2> QED
    BY <1>1, <2>1, LoopFields
<1>3. /\ u.pending = g /\ u.pc = l /\ u.next = i
      /\ u.mask = r.mask /\ u.state = r.state /\ u.report = r.report /\ u.status = r.status
      /\ u.running_ = r.running_ /\ u.terminated_ = r.terminated_ /\ u.ret = r.ret
      /\ (u.priv <=> r.priv) /\ (u.env <=> r.env)
  BY <1>1 DEF ProcessRecord
<1> HIDE DEF u
<1>4. MayMove(p, r, t[First(p)], t[Second(p)], u)
  BY <1>3 DEF MayMove, Loops, Destroys, Steady, Destroying
<1>5. u.pending \subseteq t[p].pending
  BY <1>3
<1>6. TreeInv([t EXCEPT ![p] = u], e, n)
  BY <1>2, <1>3, <1>4, <1>5, MoveKeeps DEF Alive
<1> QED
  BY <1>6 DEF u

\* SIGCHLD never comes to a process that has no children.
LEMMA handle_childKeeps ==
  ASSUME ShellInv, NEW p \in Loopers, handle_child(p)
  PROVE  TreeInv(proc', ended, nat) /\ ~ bug'
<1> DEFINE g == proc[p].pending \ {"CHLD"}
<1>1. p \in Procs /\ proc[p].state = "running" /\ proc[p].pc = "poll"
  BY DEF handle_child, At, Procs, Loopers
<1>2. /\ TreeInv(proc, ended, nat) /\ proc \in [Procs -> ProcessRecord]
      /\ proc[p] \in ProcessRecord /\ Sound(p, proc[p])
      /\ proc[p].pending \in SUBSET LoopSignals
      /\ p \in Parents => FamilySound(proc[p], proc[First(p)], proc[Second(p)])
  BY <1>1, InShell DEF ProcessRecord
<1>3. "CHLD" \in proc[p].pending
  BY <1>2, LowestIsPending DEF handle_child
<1>4. p \in Parents
  BY <1>2, <1>3 DEF Sound, MaskSound
<1>5. Children(p) # <<>>
  BY <1>2, <1>3, <1>4, ChildrenOf DEF FamilySound
<1>6. proc' = [proc EXCEPT ![p] = [proc[p] EXCEPT !.pending = g, !.pc = "search", !.next = 1]]
  BY <1>1, <1>2 DEF handle_child
<1>7. g \in SUBSET LoopSignals /\ g \subseteq proc[p].pending /\ 1 \in 1..3
  BY <1>2
<1> HIDE DEF g
<1>8. TreeInv([proc EXCEPT ![p] = [proc[p] EXCEPT !.pending = g, !.pc = "search", !.next = 1]],
              ended, nat)
  BY <1>1, <1>2, <1>7, LoopMoves
<1> QED
  BY <1>5, <1>6, <1>8 DEF handle_child, Check, ShellInv

\* ... the search of the children ends ...
LEMMA search_endsKeeps ==
  ASSUME ShellInv, NEW p \in Loopers, search_ends(p)
  PROVE  TreeInv(proc', ended, nat) /\ ~ bug'
<1> DEFINE g == proc[p].pending
<1>1. p \in Procs /\ proc[p].state = "running" /\ proc[p].pc = "search"
  BY DEF search_ends, At, Procs, Loopers
<1>2. /\ TreeInv(proc, ended, nat) /\ proc \in [Procs -> ProcessRecord]
      /\ proc[p] \in ProcessRecord /\ g \in SUBSET LoopSignals
  BY <1>1, InShell DEF ProcessRecord
<1>3. [proc EXCEPT ![p].pc = "poll", ![p].next = 1] =
        [proc EXCEPT ![p] = [proc[p] EXCEPT !.pending = g, !.pc = "poll", !.next = 1]]
  BY <1>1, <1>2 DEF ProcessRecord
<1>4. TreeInv([proc EXCEPT ![p] = [proc[p] EXCEPT !.pending = g, !.pc = "poll", !.next = 1]],
              ended, nat)
  <2>1. g \subseteq proc[p].pending /\ 1 \in 1..3
    OBVIOUS
  <2> HIDE DEF g
  <2> QED
    BY <1>1, <1>2, <2>1, LoopMoves
<1> QED
  BY <1>3, <1>4 DEF search_ends, ShellInv

\* The child that a loop over the children has come to.
LEMMA NextChild ==
  ASSUME ShellInv, NEW p \in Loopers, proc[p].next <= Len(Children(p))
  PROVE  LET c == Children(p)[proc[p].next]
         IN  /\ p \in Parents /\ proc[p].next \in {1, 2}
             /\ c = IF proc[p].next = 1 THEN First(p) ELSE Second(p)
             /\ c \in Procs /\ c # "root" /\ c # p /\ Parent[c] = p
             /\ ~ Unborn(proc[c])
<1>1. p \in Procs
  BY DEF Loopers, Procs
<1>2. /\ proc[p].next \in 1..3
      /\ p \in Parents => FamilySound(proc[p], proc[First(p)], proc[Second(p)])
  BY <1>1, InShell DEF ProcessRecord
<1>3. p \in Parents
  <2>1. CASE p \notin Parents
    <3>1. Len(Children(p)) = 0
      BY <2>1, NoChildren
    <3> QED
      BY <1>2, <3>1
  <2> QED
    BY <2>1
<1>4. Unborn(proc[First(p)]) => Unborn(proc[Second(p)])
  BY <1>2, <1>3 DEF FamilySound
<1>5. /\ First(p) \in Procs /\ Second(p) \in Procs /\ First(p) # p /\ Second(p) # p
      /\ First(p) # "root" /\ Second(p) # "root"
      /\ Parent[First(p)] = p /\ Parent[Second(p)] = p
  BY <1>3, ParentOf DEF Parents, First, Second, Procs
<1>6. CASE Unborn(proc[First(p)])
  <2>1. Len(Children(p)) = 0
    BY <1>3, <1>4, <1>6, ChildrenOf
  <2> QED
    BY <1>2, <2>1
<1>7. CASE ~ Unborn(proc[First(p)]) /\ Unborn(proc[Second(p)])
  <2>1. Len(Children(p)) = 1 /\ Children(p)[1] = First(p)
    BY <1>3, <1>4, <1>7, ChildrenOf
  <2>2. proc[p].next = 1
    BY <1>2, <2>1
  <2> QED
    BY <1>3, <1>5, <1>7, <2>1, <2>2
<1>8. CASE ~ Unborn(proc[Second(p)])
  <2>1. /\ Len(Children(p)) = 2 /\ Children(p)[1] = First(p) /\ Children(p)[2] = Second(p)
        /\ ~ Unborn(proc[First(p)])
    BY <1>3, <1>4, <1>8, ChildrenOf
  <2>2. proc[p].next \in {1, 2}
    BY <1>2, <2>1
  <2> QED
    BY <1>3, <1>5, <1>8, <2>1, <2>2
<1> QED
  BY <1>6, <1>7, <1>8

\* ... waits for a child that has changed, and leaves if it ended ...
LEMMA search_childKeeps ==
  ASSUME ShellInv, NEW p \in Loopers, search_child(p)
  PROVE  TreeInv(proc', ended, nat) /\ ~ bug'
<1> DEFINE c == Children(p)[proc[p].next]
           g == proc[p].pending
           i == proc[p].next + 1
           on == [proc EXCEPT ![p].next = @ + 1]
           seen == wait(on, c)
<1>1. /\ p \in Procs /\ p \in Procs \ Programs
      /\ proc[p].state = "running" /\ proc[p].pc = "search"
      /\ proc[p].next <= Len(Children(p))
  BY DEF search_child, At, Procs, Programs, Loopers
<1>2. /\ p \in Parents /\ proc[p].next \in {1, 2}
      /\ c \in Procs /\ c # "root" /\ c # p /\ Parent[c] = p /\ ~ Unborn(proc[c])
  BY <1>1, NextChild
<1>3. /\ TreeInv(proc, ended, nat) /\ proc \in [Procs -> ProcessRecord]
      /\ proc[p] \in ProcessRecord /\ g \in SUBSET LoopSignals
  BY <1>1, InShell DEF ProcessRecord
<1>4. ~ bug'
  BY DEF search_child, Check, MayWait, ShellInv
<1>5. proc' = IF ~ MayWait(c) THEN on
              ELSE IF ~ Waitable(c) THEN Fail(proc, p)
              ELSE IF seen[c].terminated_ THEN Ended(seen, p, c)
              ELSE IF seen[c].running_ THEN seen
              ELSE Stop(seen, p)
  BY DEF search_child
<1> HIDE DEF c
<1>6. /\ proc[c] \in ProcessRecord /\ Sound(c, proc[c])
      /\ Explained(proc[c], Free(proc, c), ended)
  BY <1>2, InShell
<1>7. on = [proc EXCEPT ![p] = [proc[p] EXCEPT !.pending = g, !.pc = "search", !.next = i]]
  BY <1>1, <1>3 DEF ProcessRecord
<1>8. on[c] = proc[c] /\ on[p].state = "running" /\ on[p].pc = "search"
  BY <1>1, <1>2, <1>3 DEF ProcessRecord
<1>9. TreeInv(on, ended, nat)
  <2>1. g \subseteq proc[p].pending /\ i \in 1..3
    BY <1>2
  <2> HIDE DEF g, i
  <2>2. TreeInv([proc EXCEPT ![p] = [proc[p] EXCEPT !.pending = g, !.pc = "search", !.next = i]],
                ended, nat)
    BY <1>1, <1>3, <2>1, LoopMoves
  <2> QED
    BY <1>7, <2>2
<1> HIDE DEF on, seen
<1>10. CASE ~ MayWait(c)
  BY <1>4, <1>5, <1>9, <1>10
<1>11. CASE MayWait(c)
  <2>1. Waitable(c) /\ ~ proc[c].terminated_
    BY <1>11 DEF MayWait
  <2>2. /\ on[c].state = "dead" \/ on[c].report # "none"
        /\ on[c].state \in {"running", "stopped", "dead"}
    BY <1>2, <1>6, <1>8, <2>1 DEF Waitable, Sound, LifeSound, Unborn, ProcessRecord
  <2>3. /\ TreeInv(seen, ended, nat) /\ Apart(on, seen, c)
        /\ seen[c].terminated_ <=> proc[c].state = "dead"
    BY <1>2, <1>8, <1>9, <2>2, waitKeeps DEF seen
  <2>4. seen[p].state = "running" /\ seen[p].pc = "search"
    BY <1>1, <1>2, <1>8, <2>3 DEF Apart
  <2>5. CASE seen[c].terminated_
    <3>1. Reason(ended, proc[c].status)
      BY <1>1, <1>2, <1>6, <2>3, <2>5 DEF Explained, Free, Leaving
    <3>2. CASE proc[c].status # 0
      <4>1. Reason(ended, 1)
        BY <3>1, <3>2 DEF Reason
      <4>2. TreeInv(Leave(seen, p, 1), ended, nat)
        BY <1>1, <2>3, <2>4, <4>1, LeaveKeeps DEF Alive
      <4> QED
        BY <1>4, <1>5, <1>11, <2>1, <2>5, <3>2, <4>2 DEF Ended, Fail
    <3>3. CASE proc[c].status = 0
      <4>1. TreeInv(Leave(seen, p, 0), ended, nat)
        BY <1>1, <2>3, <2>4, <3>1, <3>3, LeaveKeeps DEF Alive
      <4> QED
        BY <1>4, <1>5, <1>11, <2>1, <2>5, <3>3, <4>1 DEF Ended
    <3> QED
      BY <3>2, <3>3
  <2>6. CASE ~ seen[c].terminated_
    <3>1. TreeInv(Stop(seen, p), ended, nat)
      BY <1>1, <2>3, StopKeeps
    <3> QED
      BY <1>4, <1>5, <1>11, <2>1, <2>3, <2>6, <3>1
  <2> QED
    BY <2>5, <2>6
<1> QED
  BY <1>10, <1>11

\* A step of the destructors to another label.
LEMMA DestroyMoves ==
  ASSUME NEW t, NEW e, NEW n, TreeInv(t, e, n), NEW p \in Parents, t[p].state = "running",
         Destroying(t[p]), NEW l \in {"destroy", "destroy_wait"},
         l = "destroy_wait" => \/ t[p].next = 1 /\ ~ Unborn(t[First(p)])
                               \/ t[p].next = 2 /\ ~ Unborn(t[Second(p)])
  PROVE  TreeInv(Goto(t, p, l), e, n)
<1> DEFINE u == [t[p] EXCEPT !.pc = l]
<1>1. p \in Procs /\ l \in Labels
  BY DEF Parents, Procs, Labels
<1>2. t[p] \in ProcessRecord /\ FamilySound(t[p], t[First(p)], t[Second(p)])
  BY <1>1, InTable
<1>3. /\ u.pc = l /\ u.next = t[p].next /\ u.mask = t[p].mask
      /\ (u.priv <=> t[p].priv) /\ (u.env <=> t[p].env)
  BY <1>2 DEF ProcessRecord
<1>4. u = [t[p] EXCEPT !.pc = l]
  OBVIOUS
<1> HIDE DEF u
<1>5. Destroys(p, t[p], t[First(p)], t[Second(p)], u)
  <2>1. Destroying(u) /\ Steady(t[p], u)
    BY <1>3 DEF Destroying, Steady
  <2>2. (u.next > 1 => Away(t[First(p)])) /\ (u.next > 2 => Away(t[Second(p)]))
    BY <1>2, <1>3 DEF FamilySound
  <2>3. u.pc = "destroy_wait" =>
           \/ u.next = 1 /\ ~ Unborn(t[First(p)])
           \/ u.next = 2 /\ ~ Unborn(t[Second(p)])
    BY <1>3
  <2> QED
    BY <2>1, <2>2, <2>3 DEF Destroys
<1>6. MayMove(p, t[p], t[First(p)], t[Second(p)], u)
  BY <1>5 DEF MayMove
<1> QED
  BY <1>1, <1>4, <1>6, GotoKeeps DEF Alive, Destroying

\* ... the destructors terminate a child that is left, or pass one that is not ...
LEMMA destroy_childKeeps ==
  ASSUME ShellInv, NEW p \in Loopers, destroy_child(p)
  PROVE  TreeInv(proc', ended, nat) /\ ~ bug'
<1> DEFINE c == Children(p)[proc[p].next]
           g == proc[p].pending
           i == proc[p].next + 1
           t == terminate(proc, c)
<1>1. /\ p \in Procs /\ proc[p].state = "running" /\ proc[p].pc = "destroy"
      /\ proc[p].next <= Len(Children(p))
  BY DEF destroy_child, At, Procs, Loopers
<1>2. /\ p \in Parents /\ proc[p].next \in {1, 2}
      /\ c = IF proc[p].next = 1 THEN First(p) ELSE Second(p)
      /\ c \in Procs /\ c # "root" /\ c # p /\ Parent[c] = p /\ ~ Unborn(proc[c])
  BY <1>1, NextChild
<1>3. /\ TreeInv(proc, ended, nat) /\ proc \in [Procs -> ProcessRecord]
      /\ proc[p] \in ProcessRecord /\ g \in SUBSET LoopSignals
      /\ FamilySound(proc[p], proc[First(p)], proc[Second(p)])
  BY <1>1, <1>2, InShell DEF ProcessRecord
<1>4. /\ ~ bug'
      /\ proc' = IF proc[c].terminated_ THEN [proc EXCEPT ![p].next = @ + 1]
                 ELSE Goto(t, p, "destroy_wait")
  BY DEF destroy_child, ShellInv
<1> HIDE DEF c
<1>5. CASE proc[c].terminated_
  <2>1. Away(proc[c])
    BY <1>2, <1>5, InShell DEF Sound, LifeSound, Away
  <2>2. (i > 1 => Away(proc[First(p)])) /\ (i > 2 => Away(proc[Second(p)]))
    BY <1>1, <1>2, <1>3, <2>1 DEF FamilySound, Destroying
  <2>3. [proc EXCEPT ![p].next = @ + 1] =
          [proc EXCEPT ![p] = [proc[p] EXCEPT !.pending = g, !.pc = "destroy", !.next = i]]
    BY <1>1, <1>3 DEF ProcessRecord
  <2>4. TreeInv([proc EXCEPT ![p] = [proc[p] EXCEPT !.pending = g, !.pc = "destroy", !.next = i]],
                ended, nat)
    <3>1. g \subseteq proc[p].pending /\ i \in 1..3
      BY <1>2
    <3> HIDE DEF g, i
    <3> QED
      BY <1>1, <1>2, <1>3, <2>2, <3>1, LoopMoves
  <2> QED
    BY <1>4, <1>5, <2>3, <2>4
<1>6. CASE ~ proc[c].terminated_
  <2>1. TreeInv(t, ended, nat) /\ Apart(proc, t, c)
    BY <1>1, <1>2, <1>3, terminateKeeps DEF Leaving
  <2> HIDE DEF t
  <2>2. t[p].state = "running" /\ Destroying(t[p]) /\ t[p].next = proc[p].next /\ ~ Unborn(t[c])
    BY <1>1, <1>2, <2>1 DEF Apart, Destroying
  <2>3. TreeInv(Goto(t, p, "destroy_wait"), ended, nat)
    BY <1>2, <2>1, <2>2, DestroyMoves
  <2> QED
    BY <1>4, <1>6, <2>3
<1> QED
  BY <1>5, <1>6

\* ... and wait for it until it is gone.
LEMMA destroy_waitKeeps ==
  ASSUME ShellInv, NEW p \in Loopers, destroy_wait(p)
  PROVE  TreeInv(proc', ended, nat) /\ ~ bug'
<1> DEFINE c == Children(p)[proc[p].next]
           t == wait(proc, c)
<1>1. p \in Procs /\ proc[p].state = "running" /\ proc[p].pc = "destroy_wait"
  BY DEF destroy_wait, At, Procs, Loopers
<1>2. /\ TreeInv(proc, ended, nat) /\ Sound(p, proc[p])
      /\ p \in Parents => FamilySound(proc[p], proc[First(p)], proc[Second(p)])
  BY <1>1, InShell
<1>3. p \in Parents
  BY <1>1, <1>2 DEF Sound, MaskSound
<1>4. proc[p].next <= Len(Children(p))
  <2>1. Unborn(proc[First(p)]) => Unborn(proc[Second(p)])
    BY <1>2, <1>3 DEF FamilySound
  <2>2. CASE proc[p].next = 1 /\ ~ Unborn(proc[First(p)])
    BY <1>3, <2>1, <2>2, ChildrenOf
  <2>3. CASE proc[p].next = 2 /\ ~ Unborn(proc[Second(p)])
    BY <1>3, <2>1, <2>3, ChildrenOf
  <2> QED
    BY <1>1, <1>2, <1>3, <2>2, <2>3 DEF FamilySound
<1>5. c \in Procs /\ c # "root" /\ c # p /\ ~ Unborn(proc[c])
  BY <1>4, NextChild
<1>6. Waitable(c) /\ proc' = Goto(t, p, "destroy") /\ ~ bug'
  BY DEF destroy_wait, ShellInv
<1> HIDE DEF c
<1>7. proc[c] \in ProcessRecord /\ Sound(c, proc[c])
  BY <1>5, InShell
<1>8. proc[c].state \in {"running", "stopped", "dead"}
  BY <1>5, <1>6, <1>7 DEF Waitable, Sound, BeliefSound, Unborn, ProcessRecord
<1>9. TreeInv(t, ended, nat) /\ Apart(proc, t, c)
  BY <1>2, <1>5, <1>6, <1>8, waitKeeps DEF Waitable
<1> HIDE DEF t
<1>10. t[p].state = "running" /\ Destroying(t[p])
  BY <1>1, <1>5, <1>9 DEF Apart, Destroying
<1>11. TreeInv(Goto(t, p, "destroy"), ended, nat)
  BY <1>3, <1>9, <1>10, DestroyMoves
<1> QED
  BY <1>6, <1>11

\* Every step of the event loops and of the destructors.
LEMMA LoopKeeps ==
  ASSUME ShellInv, NEW p \in Loopers, Loop(p)
  PROVE  ShellInv'
<1>1. TreeInv(proc', ended, nat) /\ ~ bug'
  BY handle_terminationKeeps, handle_continueKeeps, handle_childKeeps, search_childKeeps,
     search_endsKeeps, destroy_childKeeps, destroy_waitKeeps DEF Loop, LoopStep
<1> QED
  BY <1>1 DEF Loop, ShellInv, outside

-----------------------------------------------------------------------------
(* The shell *)

LEMMA InitFields ==
  ASSUME NEW p \in Procs, Init
  PROVE  /\ proc \in [Procs -> ProcessRecord]
         /\ proc[p].state = IF p = "root" THEN "running" ELSE "unborn"
         /\ proc[p].pc = IF p = "root" THEN "nat" ELSE "born"
         /\ proc[p].mask = {} /\ proc[p].pending = {} /\ proc[p].report = "none"
         /\ proc[p].running_ /\ ~ proc[p].terminated_ /\ proc[p].priv /\ ~ proc[p].env
<1> DEFINE t == [q \in Procs |-> NewProcess]
           r == [NewProcess EXCEPT !.state = "running", !.pc = "nat"]
<1>1. NewProcess \in ProcessRecord
  BY DEF NewProcess, ProcessRecord, Labels, LoopSignals
<1>2. r \in ProcessRecord
  <2> DEFINE x == [NewProcess EXCEPT !.state = "running"]
  <2>1. x \in ProcessRecord /\ "nat" \in Labels
    BY <1>1 DEF ProcessRecord, Labels
  <2> HIDE DEF x
  <2>2. [x EXCEPT !.pc = "nat"] \in ProcessRecord
    BY <2>1 DEF ProcessRecord
  <2> QED
    BY <2>2 DEF x
<1>3. /\ r.state = "running" /\ r.pc = "nat"
      /\ r.mask = NewProcess.mask /\ r.pending = NewProcess.pending
      /\ r.report = NewProcess.report /\ (r.running_ <=> NewProcess.running_)
      /\ (r.terminated_ <=> NewProcess.terminated_)
      /\ (r.priv <=> NewProcess.priv) /\ (r.env <=> NewProcess.env)
  BY <1>1 DEF ProcessRecord
<1>4. proc = [t EXCEPT !["root"] = r]
  BY DEF Init, Procs
<1> HIDE DEF r
<1>5. p = "root" => proc[p] = r
  BY <1>4 DEF Procs
<1>6. p # "root" => proc[p] = NewProcess
  BY <1>4 DEF Procs
<1>7. proc \in [Procs -> ProcessRecord]
  BY <1>1, <1>2, <1>4
<1>8. /\ NewProcess.state = "unborn" /\ NewProcess.pc = "born"
      /\ NewProcess.mask = {} /\ NewProcess.pending = {} /\ NewProcess.report = "none"
      /\ NewProcess.running_ /\ ~ NewProcess.terminated_
      /\ NewProcess.priv /\ ~ NewProcess.env
  BY DEF NewProcess
<1> QED
  BY <1>3, <1>5, <1>6, <1>7, <1>8

\* Only main runs at first.
LEMMA InitSound == Init => ShellInv
<1> SUFFICES ASSUME Init PROVE ShellInv
  OBVIOUS
<1>1. proc \in [Procs -> ProcessRecord]
  BY InitFields DEF Procs
<1>2. \A p \in Procs : Sound(p, proc[p])
  BY InitFields DEF Sound, LifeSound, BeliefSound, MaskSound, RightsSound, Unborn, Ended_,
                    Alive, Blocking, Destroying, Cleaning, LoopSignals, Terminating
<1>3. \A p \in Parents : FamilySound(proc[p], proc[First(p)], proc[Second(p)])
  BY InitFields DEF FamilySound, Parents, First, Second, Procs, Unborn, Away,
                    Destroying, LoopSignals, Terminating
<1>4. \A p \in Procs : Explained(proc[p], Free(proc, p), ended)
  BY InitFields DEF Explained, Cleaning
<1>5. RulesSound(proc["root"], nat)
  <2>1. \A x \in Rules : nat[x] = "absent"
    BY DEF Init
  <2>2. proc["root"].pc = "nat" /\ proc["root"].mask = {}
    BY InitFields DEF Procs
  <2> QED
    BY <2>1, <2>2 DEF RulesSound
<1>6. TreeInv(proc, ended, nat)
  BY <1>1, <1>2, <1>3, <1>4, <1>5 DEF TreeInv
<1>7. ~ bug /\ nat \in [Rules -> RuleStates] /\ ended \subseteq {"ok", "fail", "signal"}
  BY DEF Init, RuleStates
<1> QED
  BY <1>6, <1>7 DEF ShellInv

\* Every step of every process, and of the user, keeps the invariant.
LEMMA NextSound == ShellInv /\ [Next]_shellVars => ShellInv'
<1> SUFFICES ASSUME ShellInv, [Next]_shellVars PROVE ShellInv'
  OBVIOUS
<1>1. CASE RootStep
  <2>1. CASE fork("root", "uplink", "fork_uplink", "fork_downlink")
    BY <2>1, forkKeeps DEF MayFork
  <2>2. CASE fork("root", "downlink", "fork_downlink", "loop")
    BY <2>2, forkKeeps DEF MayFork
  <2>3. CASE Loop("root")
    BY <2>3, LoopKeeps DEF Loopers
  <2> QED
    BY <1>1, <2>1, <2>2, <2>3, install_ruleKeeps, remove_ruleKeeps, constructKeeps,
       wait_for_exitKeeps, finish_rootKeeps DEF RootStep
<1>2. CASE UplinkStep
  <2>1. CASE fork("uplink", "dnsmasq", "fork_dnsmasq", "await_dnsmasq")
    BY <2>1, forkKeeps DEF MayFork
  <2>2. CASE Loop("uplink")
    BY <2>2, LoopKeeps DEF Loopers
  <2> QED
    BY <1>2, <2>1, <2>2, startKeeps, uplink_setupKeeps, await_dnsmasqKeeps, fork_commandKeeps,
       send_fdKeeps, make_queueKeeps, exitKeeps DEF UplinkStep
<1>3. CASE DownlinkStep
  <2>1. CASE Loop("downlink")
    BY <2>1, LoopKeeps DEF Loopers
  <2> QED
    BY <1>3, <2>1, startKeeps, recv_fdKeeps, make_queueKeeps, exitKeeps DEF DownlinkStep
<1>4. CASE \E c \in Programs : exec(c) \/ obey(c) \/ program_ends(c)
  BY <1>4, execKeeps, obeyKeeps, program_endsKeeps
<1>5. CASE \E p \in {"uplink", "downlink"} : ferry_ends(p)
  BY <1>5, ferry_endsKeeps
<1>6. CASE \E p \in {"uplink", "downlink"} : link_aborts(p)
  BY <1>6, link_abortsKeeps
<1>7. CASE \E targets \in KillTargets : user_terminates(targets)
  BY <1>7, user_terminatesKeeps
<1>8. CASE \E targets \in StopTargets : user_stops(targets)
  BY <1>8, user_stopsKeeps
<1>9. CASE user_continues
  BY <1>9, user_continuesKeeps
<1>10. CASE UNCHANGED shellVars
  BY <1>10 DEF shellVars, outside, ShellInv
<1> QED
  BY <1>1, <1>2, <1>3, <1>4, <1>5, <1>6, <1>7, <1>8, <1>9, <1>10 DEF Next

\* ShellInv is an invariant.
THEOREM ShellInvariant == Spec => []ShellInv
BY InitSound, NextSound, PTL DEF Spec

\* The types of the state of the shell, for every choice of signals, of
\* targets and of the number of events.
THEOREM ShellTypeCorrect == Spec => []ShellTypeOK
<1>1. ShellInv => ShellTypeOK
  <2> SUFFICES ASSUME ShellInv PROVE ShellTypeOK
    OBVIOUS
  <2>1. ASSUME NEW p \in Procs
        PROVE  proc[p] \in ProcessRecord /\ Sound(p, proc[p])
    BY InShell
  <2> QED
    BY <2>1 DEF ShellTypeOK, ShellInv, ProcessRecord, Sound, LifeSound
<1> QED
  BY <1>1, ShellInvariant, PTL

\* Whether a termination signal ends a process, an exception or a return, none
\* of its children is left: ~ChildProcess has waited for each one of them, or
\* there was none yet.  Only an abort of the uplink, in which no destructor runs,
\* leaves orphans, and these are dnsmasq and the command: main never does.
THEOREM NoProcessIsOrphaned == Spec => []NoOrphans
<1>1. ShellInv => NoOrphans
  <2> SUFFICES ASSUME ShellInv, NEW c \in Procs \ {"root"}, Orphan(c)
               PROVE  Gone(c) \/ (c \in Programs /\ Aborted("uplink"))
    BY DEF NoOrphans
  <2> DEFINE q == Parent[c]
  <2>1. /\ q \in Parents /\ q \in Procs /\ c \in {First(q), Second(q)}
        /\ q = "root" \/ (q = "uplink" /\ c \in Programs)
    BY ParentOf DEF Procs, Parents, First, Second, Programs
  <2>2. Ended_(proc[q])
    BY DEF Orphan, Ended_
  <2> HIDE DEF q
  <2>3. /\ Sound(q, proc[q]) /\ FamilySound(proc[q], proc[First(q)], proc[Second(q)])
        /\ q = "root" => RulesSound(proc[q], nat)
    BY <2>1, InShell DEF TreeInv
  <2>4. CASE proc[q].pc = "end"
    BY <2>1, <2>3, <2>4 DEF FamilySound, Gone, Away
  <2>5. CASE proc[q].pc = "abort"
    BY <2>1, <2>3, <2>5 DEF RulesSound, Aborted
  <2> QED
    BY <2>2, <2>3, <2>4, <2>5 DEF Sound, LifeSound
<1> QED
  BY <1>1, ShellInvariant, PTL

\* The NAT rules are in place as long as main has a child.  Once main has blocked
\* the signals, it ends only after ~NATRule has run for both of them with root's
\* rights, on every way out: a rule that is still there is one whose iptables
\* failed or was killed.
THEOREM NatRulesAreRemoved == Spec => []RulesRemoved
<1>1. ShellInv => RulesRemoved
  <2> SUFFICES ASSUME ShellInv PROVE RulesRemoved
    OBVIOUS
  <2> DEFINE r == proc["root"]
  <2>1. /\ Sound("root", r) /\ FamilySound(r, proc["uplink"], proc["downlink"])
        /\ RulesSound(r, nat)
    BY InShell DEF TreeInv, Procs, Parents, First, Second
  <2>2. nat \in [Rules -> RuleStates]
    BY DEF ShellInv
  <2> HIDE DEF r
  <2>3. ASSUME NEW c \in {"uplink", "downlink"}, ~ Gone(c)
        PROVE  \A x \in Rules : nat[x] = "owned"
    <3>1. ~ Unborn(proc["uplink"]) /\ r.pc \notin {"rules", "end"}
      BY <2>1, <2>3 DEF FamilySound, Gone, Away, Unborn
    <3>2. r.mask # {}
      <4>1. r.mask = LoopSignals
        BY <2>1, <3>1 DEF FamilySound
      <4> QED
        BY <4>1 DEF LoopSignals
    <3> QED
      BY <2>1, <3>1, <3>2 DEF RulesSound
  <2>4. r.state = "dead" /\ r.mask # {} => \A x \in Rules : nat[x] \in {"absent", "left"}
    BY <2>1, <2>2 DEF RulesSound, RuleStates, Sound, LifeSound, Ended_
  <2> QED
    BY <2>3, <2>4 DEF RulesRemoved, r
<1> QED
  BY <1>1, ShellInvariant, PTL

\* No check of the code against itself fails: SIGCHLD comes only to processes
\* with children, the mask is intact when the loop starts, no trace is read and
\* no command run with root's rights; and what ChildProcess believes of a child
\* is right when nothing is left to wait for.
THEOREM ChecksNeverFail == Spec => []InternalChecksHold
<1>1. ShellInv => InternalChecksHold
  <2> SUFFICES ASSUME ShellInv PROVE InternalChecksHold
    OBVIOUS
  <2>1. ~ bug
    BY DEF ShellInv
  <2>2. BeliefsRight
    <3>1. ASSUME NEW c \in Procs \ {"root"} PROVE BeliefSound(proc[c])
      BY InShell DEF Sound
    <3> QED
      BY <3>1 DEF BeliefsRight, BeliefSound, Alive
  <2> QED
    BY <2>1, <2>2 DEF InternalChecksHold
<1> QED
  BY <1>1, ShellInvariant, PTL

\* main's exit status has a reason: success only if something ended well,
\* failure only if something failed, unless there was a signal.  A child that
\* main itself terminates, while it leaves, never decides.
THEOREM StatusHasReason == Spec => []ExitStatusExplained
<1>1. ShellInv => ExitStatusExplained
  <2> SUFFICES ASSUME ShellInv, proc["root"].state = "dead"
               PROVE  ended \cap {"signal", IF proc["root"].status = 0 THEN "ok" ELSE "fail"} # {}
    BY DEF ExitStatusExplained
  <2>1. "root" \in Procs
    BY DEF Procs
  <2>2. Explained(proc["root"], Free(proc, "root"), ended)
    BY <2>1, InShell
  <2>3. Reason(ended, proc["root"].status)
    BY <2>2 DEF Explained, Free
  <2> QED
    BY <2>3 DEF Reason
<1> QED
  BY <1>1, ShellInvariant, PTL

=============================================================================
