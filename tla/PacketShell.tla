---------------------------- MODULE PacketShell ----------------------------
(***************************************************************************)
(* The processes of mm-cellular (src/src/packet/packetshell.cc): main, the *)
(* uplink in a network namespace of its own, with dnsmasq and the user's   *)
(* command as its children, and the downlink.  From start-up to the last   *)
(* exit, under signals that a user may send to one process or to all of    *)
(* them at any time, and with any step failing that can fail.              *)
(***************************************************************************)
EXTENDS EventLoop

CONSTANTS
  UserSignals,  \* termination signals the user sends
  KillTargets,  \* sets of processes the user sends them to
  StopTargets,  \* sets of processes the user stops
  MaxEvents     \* failures, ends and user's signals, SIGCONT not counted (bound)

ASSUME ShellAssumption ==
  /\ UserSignals \subseteq Terminating
  /\ KillTargets \subseteq SUBSET Procs
  /\ StopTargets \subseteq SUBSET Procs
  /\ MaxEvents \in Nat

VARIABLES
  nat,      \* the NAT rules, and what became of them
  fd_sent,  \* the ingress TUN device is in the socket pair
  events,   \* failures, ends and signals so far
  ended     \* history: what came from outside, successes, failures and signals

outside == <<events, ended>>
shellVars == <<proc, bug, nat, fd_sent, outside>>

\* The two rules of NAT, in the order of its members.  A rule is absent; owned
\* by the NATRule that installed it; left in place because iptables failed or
\* was killed; or left in place because iptables was denied root's rights.
Rules == {"pre", "post"}
RuleStates == {"absent", "owned", "left", "denied"}

NewProcess ==
  [state |-> "unborn", pc |-> "born", mask |-> {}, pending |-> {}, report |-> "none",
   status |-> 0, ret |-> 0, next |-> 1, running_ |-> TRUE, terminated_ |-> FALSE,
   priv |-> TRUE, env |-> FALSE]

Init ==
  /\ proc = [[p \in Procs |-> NewProcess] EXCEPT !["root"].state = "running",
                                                 !["root"].pc = "nat"]
  /\ bug = FALSE
  /\ nat = [r \in Rules |-> "absent"]
  /\ fd_sent = FALSE
  /\ events = 0
  /\ ended = {}

\* Something happens that nothing in the shell asked for.
Event(how) ==
  /\ events < MaxEvents
  /\ events' = events + 1
  /\ ended' = ended \cup how

\* A step of p leads to a table of processes, or throws an exception.
Does(p, next) ==
  \/ proc' = next /\ UNCHANGED outside
  \/ proc' = Fail(proc, p) /\ Event({"fail"})

-----------------------------------------------------------------------------
(* main *)

\* The constructors of NAT's two rules run iptables -A, one after the other.  An
\* iptables that was killed may have installed its rule.
install_rule(r) ==
  /\ At("root", "nat")
  /\ nat[r] = "absent"
  /\ r = "post" => nat["pre"] = "owned"
  /\ \/ /\ nat' = [nat EXCEPT ![r] = "owned"]
        /\ UNCHANGED <<proc, outside>>
     \/ /\ \E was \in {"absent", "left"} : nat' = [nat EXCEPT ![r] = was]
        /\ proc' = Fail(proc, "root")
        /\ Event({"fail"})
  /\ UNCHANGED <<bug, fd_sent>>

Masked(p) == [proc EXCEPT ![p].mask = LoopSignals]

\* The event loop is constructed last, and blocks the signals.
construct ==
  /\ At("root", "nat")
  /\ \A r \in Rules : nat[r] = "owned"
  /\ Check(~ proc["root"].env)
  /\ proc' = Goto(Masked("root"), "root", "fork_uplink")
  /\ UNCHANGED <<nat, fd_sent, outside>>

\* A child process, or an exception.
fork(p, c, here, there) ==
  /\ At(p, here)
  /\ Does(p, Fork(proc, p, c, there))
  /\ UNCHANGED <<bug, nat, fd_sent>>

\* wait_for_exit
wait_for_exit ==
  /\ At("root", "loop")
  /\ Check(MaskIntact("root"))
  /\ proc' = EnterLoop(proc, "root")
  /\ UNCHANGED <<nat, fd_sent, outside>>

\* PacketShell is destroyed: the event loop with its children first, then the
\* rules.
LoopDestroyed == ChildrenDestroyed("root") \/ At("root", "rules")

\* ~NATRule, for the last rule first, runs iptables -D, which needs root's
\* rights.  All signals are unblocked in that child, so one to the process
\* group may kill it; and it may fail.  main only prints the exception.
remove_rule(r) ==
  /\ LoopDestroyed
  /\ nat[r] = "owned"
  /\ r = "pre" => nat["post"] # "owned"
  /\ \/ /\ nat' = [nat EXCEPT ![r] = IF proc["root"].priv THEN "absent" ELSE "denied"]
        /\ UNCHANGED outside
     \/ /\ proc["root"].priv
        /\ nat' = [nat EXCEPT ![r] = "left"]
        /\ Event({})
  /\ proc' = Goto(proc, "root", "rules")
  /\ UNCHANGED <<bug, fd_sent>>

finish_root ==
  /\ LoopDestroyed
  /\ \A r \in Rules : nat[r] # "owned"
  /\ proc' = Die(proc, "root", proc["root"].ret)
  /\ UNCHANGED <<bug, nat, fd_sent, outside>>

-----------------------------------------------------------------------------
(* The uplink and the downlink *)

\* drop_privileges, then environ = user_environment_.
drop_privileges(ps, p) == [ps EXCEPT ![p].priv = FALSE, ![p].env = TRUE]

\* A child process begins, and may be killed as it unblocks the signals.
start(p) ==
  /\ At(p, "born")
  /\ LET ready == Unblock(p)
     IN  IF ready[p].state = "dead" THEN proc' = ready /\ UNCHANGED outside
         ELSE IF p = "uplink" THEN proc' = Goto(ready, p, "setup") /\ UNCHANGED outside
         ELSE Does(p, Goto(drop_privileges(ready, p), p, "recv_fd"))
  /\ UNCHANGED <<bug, nat, fd_sent>>

\* The TUN device, its route, and the ferry, which blocks the signals again.
uplink_setup ==
  /\ At("uplink", "setup")
  /\ Does("uplink", Goto(Masked("uplink"), "uplink", "fork_dnsmasq"))
  /\ UNCHANGED <<bug, nat, fd_sent>>

\* start_dnsmasq asks until dnsmasq listens, and gives up in the end.
await_dnsmasq ==
  /\ At("uplink", "await_dnsmasq")
  /\ \/ /\ proc["dnsmasq"].pc = "program"
        /\ proc' = Goto(proc, "uplink", "fork_command")
        /\ UNCHANGED ended
     \/ /\ proc["dnsmasq"].pc # "program"
        /\ proc' = Fail(proc, "uplink")
        /\ ended' = ended \cup {"fail"}
  /\ UNCHANGED <<bug, nat, fd_sent, events>>

\* The privileges are dropped and the environment is restored before the
\* command is forked.
fork_command ==
  /\ At("uplink", "fork_command")
  /\ LET dropped == drop_privileges(proc, "uplink")
     IN  Does("uplink", Fork(dropped, "uplink", "command", "send_fd"))
  /\ UNCHANGED <<bug, nat, fd_sent>>

send_fd ==
  /\ At("uplink", "send_fd")
  /\ Does("uplink", Goto(proc, "uplink", "queue"))
  /\ fd_sent' = (proc'["uplink"].pc = "queue")
  /\ UNCHANGED <<bug, nat>>

\* Blocks, with no signal blocked, until the uplink has sent its TUN device:
\* the other end of the socket pair stays open in main and in the downlink
\* itself, so there is no end of file.  The ferry then blocks the signals.
recv_fd ==
  /\ At("downlink", "recv_fd")
  /\ fd_sent
  /\ Does("downlink", Goto(Masked("downlink"), "downlink", "queue"))
  /\ UNCHANGED <<bug, nat, fd_sent>>

\* The CellularQueue reads its traces, or throws; then the loop starts.
make_queue(p) ==
  /\ At(p, "queue")
  /\ Check(~ proc[p].priv /\ MaskIntact(p))
  /\ Does(p, EnterLoop(proc, p))
  /\ UNCHANGED <<nat, fd_sent>>

\* Ferry::loop ends: the trace is over or poll reports an error (status 0), or
\* something throws an exception.
ferry_ends(p) ==
  /\ At(p, "poll")
  /\ \/ proc' = Leave(proc, p, 0) /\ Event({"ok"})
     \/ proc' = Fail(proc, p) /\ Event({"fail"})
  /\ UNCHANGED <<bug, nat, fd_sent>>

\* A link aborts, and no destructor runs: at a trace with a negative delay, when
\* the queue is made (assert); in the loop at a dequeue from an empty queue
\* (assert), and, in the downlink, whose device may have an MTU above
\* PACKET_SIZE, at a packet that is too large (a pointer is thrown, which no
\* handler catches).
link_aborts(p) ==
  /\ At(p, "queue") \/ At(p, "poll")
  /\ proc' = Abort(proc, p)
  /\ Event({"fail"})
  /\ UNCHANGED <<bug, nat, fd_sent>>

exit(p) ==
  /\ ChildrenDestroyed(p)
  /\ proc' = Die(proc, p, proc[p].ret)
  /\ UNCHANGED <<bug, nat, fd_sent, outside>>

-----------------------------------------------------------------------------
(* dnsmasq and the command *)

\* ezexec refuses to run with root's rights in the user's environment, or to
\* search the user's PATH with them.
exec(c) ==
  /\ At(c, "born")
  /\ Check(~ (proc[c].priv /\ (proc[c].env \/ c = "command")))
  /\ LET ready == Unblock(c)
     IN  \/ /\ proc' = IF ready[c].state = "dead" THEN ready
                       ELSE [Goto(ready, c, "program") EXCEPT ![c].mask = Terminating]
            /\ UNCHANGED outside
         \/ proc' = Die(ready, c, 1) /\ Event({"fail"})
  /\ UNCHANGED <<nat, fd_sent>>

\* A program that was told to terminate does so, with any status ...
obey(c) ==
  /\ At(c, "program")
  /\ proc[c].pending # {}
  /\ \E status \in {0, 1} : proc' = Die(proc, c, status)
  /\ UNCHANGED <<bug, nat, fd_sent, outside>>

\* ... and one that was not may end at any time.
program_ends(c) ==
  /\ At(c, "program")
  /\ proc[c].pending = {}
  /\ \/ proc' = Die(proc, c, 0) /\ Event({"ok"})
     \/ proc' = Die(proc, c, 1) /\ Event({"fail"})
  /\ UNCHANGED <<bug, nat, fd_sent>>

-----------------------------------------------------------------------------
(* The user *)

user_terminates(targets) ==
  /\ \E p \in targets : proc[p].state \in {"running", "stopped"}
  /\ \E sig \in UserSignals : proc' = SendAll(proc, targets, sig)
  /\ Event({"signal"})
  /\ UNCHANGED <<bug, nat, fd_sent>>

user_stops(targets) ==
  /\ \E p \in targets : proc[p].state = "running"
  /\ proc' = StopAll(proc, targets)
  /\ Event({})
  /\ UNCHANGED <<bug, nat, fd_sent>>

\* fg, or kill -CONT: to main, or to the whole process group.
user_continues ==
  /\ proc["root"].state = "stopped"
  /\ \E targets \in {{"root"}, Procs} : proc' = SendAll(proc, targets, "CONT")
  /\ UNCHANGED <<bug, nat, fd_sent, outside>>

-----------------------------------------------------------------------------

Loop(p) == LoopStep(p) /\ UNCHANGED <<nat, fd_sent, outside>>

RootStep ==
  \/ construct \/ wait_for_exit \/ finish_root
  \/ \E r \in Rules : install_rule(r) \/ remove_rule(r)
  \/ fork("root", "uplink", "fork_uplink", "fork_downlink")
  \/ fork("root", "downlink", "fork_downlink", "loop")
  \/ Loop("root")

UplinkStep ==
  \/ start("uplink") \/ uplink_setup \/ await_dnsmasq \/ fork_command \/ send_fd
  \/ fork("uplink", "dnsmasq", "fork_dnsmasq", "await_dnsmasq")
  \/ make_queue("uplink") \/ Loop("uplink") \/ exit("uplink")

DownlinkStep ==
  \/ start("downlink") \/ recv_fd
  \/ make_queue("downlink") \/ Loop("downlink") \/ exit("downlink")

Next ==
  \/ RootStep \/ UplinkStep \/ DownlinkStep
  \/ \E c \in Programs : exec(c) \/ obey(c) \/ program_ends(c)
  \/ \E p \in {"uplink", "downlink"} : ferry_ends(p) \/ link_aborts(p)
  \/ \E targets \in KillTargets : user_terminates(targets)
  \/ \E targets \in StopTargets : user_stops(targets)
  \/ user_continues

Spec == Init /\ [][Next]_shellVars

\* The kernel schedules every process; a program that is told to terminate
\* does (one that ignores SIGHUP keeps the shell waiting); and a user who has
\* stopped the shell comes back to it.
FairSpec ==
  /\ Spec
  /\ WF_shellVars(RootStep)
  /\ WF_shellVars(UplinkStep)
  /\ WF_shellVars(DownlinkStep)
  /\ \A c \in Programs : WF_shellVars(exec(c)) /\ WF_shellVars(obey(c))
  /\ WF_shellVars(user_continues)

-----------------------------------------------------------------------------
(* Properties *)

\* Types of the state of the shell.
ShellTypeOK ==
  /\ \A p \in Procs :
       /\ proc[p].state \in {"unborn", "running", "stopped", "dead", "reaped"}
       /\ proc[p].mask \subseteq LoopSignals
       /\ proc[p].pending \subseteq LoopSignals
       /\ proc[p].report \in {"none", "stopped", "continued"}
       /\ proc[p].status \in {0, 1} /\ proc[p].ret \in {0, 1}
       /\ proc[p].next \in 1..3
       /\ proc[p].terminated_ <=> proc[p].state = "reaped"
  /\ nat \in [Rules -> RuleStates]
  /\ ended \subseteq {"ok", "fail", "signal"}

\* A process that has ended leaves no child behind, whether it was ended by a
\* termination signal, at any time, by an exception or by a return: the only
\* orphans are those of an uplink that aborted, and main has none.
NoOrphans ==
  \A c \in Procs \ {"root"} :
    Orphan(c) => Gone(c) \/ (c \in Programs /\ Aborted("uplink"))

\* The NAT rules are in place as long as main has a child, and go after the last
\* one.  Once main has blocked the signals, no way of ending it and no second
\* signal during the cleanup keeps it from trying to remove each of them with
\* root's rights: a rule is left behind only by an iptables that failed or was
\* itself killed.
RulesRemoved ==
  /\ (\E c \in {"uplink", "downlink"} : ~ Gone(c)) => \A r \in Rules : nat[r] = "owned"
  /\ proc["root"].state = "dead" /\ proc["root"].mask # {} =>
       \A r \in Rules : nat[r] \in {"absent", "left"}

\* What ChildProcess believes of a child is right once there is nothing left
\* to wait for: the parent does not take a stopped child for a running one.
BeliefsRight ==
  \A c \in Procs \ {"root"} :
    proc[c].state \in {"running", "stopped"} /\ proc[c].report = "none" =>
      (proc[c].running_ <=> proc[c].state = "running")

\* No check of the code against itself fails: nonblocking wait finds a change
\* of state, no SIGCHLD comes without children, the signal mask is intact, no
\* trace is read and no command run with root's rights; and what it believes of
\* its children is right.
InternalChecksHold == ~ bug /\ BeliefsRight

\* main returns success only if something ended well, and failure only if
\* something failed, unless the user sent a signal.
ExitStatusExplained ==
  proc["root"].state = "dead" =>
    ended \cap {"signal", IF proc["root"].status = 0 THEN "ok" ELSE "fail"} # {}

\* When any part of the shell has ended, or was asked to, all of it ends: main,
\* its links, and dnsmasq and the command too unless the uplink has aborted.
TreeEnds ==
  ended # {} ~> /\ proc["root"].state = "dead"
                /\ \A p \in {"uplink", "downlink"} : Gone(p)
                /\ \A c \in Programs : Gone(c) \/ Aborted("uplink")

\* Whatever is stopped is resumed, however stops, SIGCONT and SIGCHLD cross
\* each other, if the user continues main as often as main stops.  A stopped
\* orphan is nobody's to resume.
SomeStopped == \E p \in Procs : proc[p].state = "stopped" /\ ~ Orphan(p)
StoppedResumes == SomeStopped ~> ~ SomeStopped

=============================================================================
