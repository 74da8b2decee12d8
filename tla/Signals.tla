------------------------------ MODULE Signals ------------------------------
(***************************************************************************)
(* What the kernel promises the processes of the shell: signals that are   *)
(* blocked stay pending, at most once each; the parent of a process that   *)
(* stops, continues or ends gets SIGCHLD, and can wait for the last such   *)
(* change that it has not waited for.                                      *)
(*                                                                         *)
(* A table of processes is a function from process names to records:       *)
(*                                                                         *)
(*   state        unborn, running, stopped, dead (a zombie) or reaped      *)
(*   pc           where the process is in its program                      *)
(*   mask         the signals it blocks.  A program that was exec'ed acts  *)
(*                on termination signals in its own time; these are in its *)
(*                mask too                                                 *)
(*   pending      signals that are waiting                                 *)
(*   report       the change of state its parent may wait for              *)
(*   status       its exit status, 0 or not (1)                            *)
(*   ret, next    the status it is going to return, and the child its loop *)
(*                over the children has come to                            *)
(*   running_, terminated_   the ChildProcess object its parent keeps      *)
(*   priv, env    effective user is root; environ is set                   *)
(***************************************************************************)
EXTENDS Naturals, Sequences

VARIABLE proc

Procs == {"root", "uplink", "downlink", "dnsmasq", "command"}
Programs == {"dnsmasq", "command"}

Parent == [p \in Procs \ {"root"} |-> IF p \in Programs THEN "uplink" ELSE "root"]

Terminating == {"HUP", "INT", "QUIT", "TERM"}
LoopSignals == Terminating \cup {"CHLD", "CONT"}

\* A signalfd hands out the pending signal with the lowest number.
SignalNumber == [HUP |-> 1, INT |-> 2, QUIT |-> 3, TERM |-> 15, CHLD |-> 17, CONT |-> 18]

Lowest(signals) ==
  CHOOSE s \in signals : \A t \in signals : SignalNumber[s] <= SignalNumber[t]

Gone(p) == proc[p].state \in {"unborn", "reaped"}

\* A process whose parent has ended belongs to init, which is not modelled.
Orphan(p) == p # "root" /\ proc[Parent[p]].state \in {"dead", "reaped"}

\* The process changes its state, and its parent, if it has one of its own, is
\* told.  SIGCHLD is ignored by default, and lost, unless the parent blocks it.
Change(ps, p, state, report) ==
  LET changed == [ps EXCEPT ![p].state = state, ![p].report = report]
  IN  IF p = "root" THEN [ps EXCEPT ![p].state = state]
      ELSE IF \/ ps[Parent[p]].state \in {"dead", "reaped"}
              \/ "CHLD" \notin ps[Parent[p]].mask THEN changed
      ELSE [changed EXCEPT ![Parent[p]].pending = @ \cup {"CHLD"}]

EndAt(ps, p, status, label) ==
  Change([ps EXCEPT ![p].status = status, ![p].pending = {}, ![p].pc = label,
                    ![p].ret = 0, ![p].next = 1], p, "dead", "none")

Die(ps, p, status) == EndAt(ps, p, status, "end")

\* SIGABRT ends the process where it is, and no destructor runs.
Abort(ps, p) == EndAt(ps, p, 1, "abort")

Aborted(p) == proc[p].pc = "abort"

\* SIGSTOP, which discards a pending SIGCONT.
Stop(ps, p) ==
  IF ps[p].state # "running" THEN ps
  ELSE Change([ps EXCEPT ![p].pending = @ \ {"CONT"}], p, "stopped", "stopped")

\* The default action of a signal that is not blocked is to end the process.
Act(ps, p) ==
  IF ps[p].state = "running" /\ ps[p].pending \cap (Terminating \ ps[p].mask) # {}
  THEN Die(ps, p, 1)
  ELSE ps

Resume(ps, p) ==
  IF ps[p].state # "stopped" THEN ps
  ELSE Change(ps, p, "running", "continued")

\* kill( p, sig )
Send(ps, p, sig) ==
  IF ps[p].state \notin {"running", "stopped"} THEN ps
  ELSE LET woken == IF sig = "CONT" THEN Resume(ps, p) ELSE ps
           kept  == sig \in Terminating \/ sig \in woken[p].mask
       IN  Act(IF kept THEN [woken EXCEPT ![p].pending = @ \cup {sig}] ELSE woken, p)

\* A signal to several processes reaches one after the other.
InTurn(Tell(_, _), ps) ==
  Tell(Tell(Tell(Tell(Tell(ps, "root"), "uplink"), "downlink"), "dnsmasq"), "command")

SendAll(ps, targets, sig) ==
  InTurn(LAMBDA acc, p : IF p \in targets THEN Send(acc, p, sig) ELSE acc, ps)

StopAll(ps, targets) ==
  InTurn(LAMBDA acc, p : IF p \in targets THEN Stop(acc, p) ELSE acc, ps)

\* waitid with WNOWAIT: there is a change of state to wait for.
Waitable(c) == proc[c].state = "dead" \/ proc[c].report # "none"

=============================================================================
