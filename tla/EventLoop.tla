----------------------------- MODULE EventLoop -----------------------------
(***************************************************************************)
(* The event loop of a process of the shell (src/src/util/event_loop.cc)   *)
(* and the children it manages (src/src/util/child_process.cc), one system *)
(* call on a child at a time: other processes run, stop and end between    *)
(* looking at a child, waiting for it and signalling it.                   *)
(***************************************************************************)
EXTENDS Signals

VARIABLE bug  \* a check of the code that must not fail has failed

loopVars == <<proc, bug>>

\* The children a process has created, in the order of child_processes_.
\* add_special_child_process is not used: the status with which a child may
\* end and leave the loop running is -1, which no child returns.
Children(p) ==
  LET Created(c) == IF proc[c].state = "unborn" THEN <<>> ELSE <<c>>
  IN  CASE p = "root"   -> Created("uplink") \o Created("downlink")
        [] p = "uplink" -> Created("dnsmasq") \o Created("command")
        [] OTHER        -> <<>>

At(p, label) == proc[p].state = "running" /\ proc[p].pc = label

Goto(ps, p, label) == [ps EXCEPT ![p].pc = label]

\* TemporarilyUnprivileged gives up root's rights for a scope ...
Unprivileged(ps, p) == [ps EXCEPT ![p].priv = FALSE]

\* ... and restores them, if the process has not dropped them for good.
Restored(ps, p) == [ps EXCEPT ![p].priv = @ \/ p = "root"]

\* Bug: the rights given up for the loop are not restored.
Leave_unprivileged(ps, p, status) ==
  [ps EXCEPT ![p].pc = "destroy", ![p].ret = status, ![p].next = 1]

\* A return or an exception with which the process leaves its scopes: the
\* children are destroyed first.
Leave(ps, p, status) ==
  [Restored(ps, p) EXCEPT ![p].pc = "destroy", ![p].ret = status, ![p].next = 1]

Fail(ps, p) == Leave(ps, p, 1)

\* A check that says BUG, or an assert.
Check(condition) == bug' = (bug \/ ~ condition)

-----------------------------------------------------------------------------
(* ChildProcess *)

\* The child starts with its parent's mask and rights.
Fork(ps, p, c, there) ==
  [ps EXCEPT ![p].pc = there,
             ![c] = [@ EXCEPT !.state = "running", !.mask = ps[p].mask,
                              !.priv = ps[p].priv, !.env = ps[p].env]]

\* Bug: the child keeps the mask of its parent.
Unblock_not(c) == proc

\* The child unblocks all signals; a termination signal that has come meanwhile
\* ends it, the others are ignored.
Unblock(c) ==
  Act([proc EXCEPT ![c].mask = {}, ![c].pending = @ \cap Terminating], c)

\* ChildProcess::wait, once there is something to wait for.
wait(ps, c) ==
  IF ps[c].state = "dead"
  THEN [ps EXCEPT ![c].state = "reaped", ![c].terminated_ = TRUE, ![c].status = 0]
  ELSE [ps EXCEPT ![c].report = "none", ![c].running_ = (ps[c].report = "continued")]

\* ChildProcess::resume and ChildProcess::signal.
signal(ps, c, sig) == IF ps[c].terminated_ THEN ps ELSE Send(ps, c, sig)

resume(ps, c) == IF ps[c].running_ THEN ps ELSE signal(ps, c, "CONT")

\* resume for every child; one that was not created is none that has stopped.
resume_children(ps, p) ==
  CASE p = "root"   -> resume(resume(ps, "uplink"), "downlink")
    [] p = "uplink" -> resume(resume(ps, "dnsmasq"), "command")
    [] OTHER        -> ps

-----------------------------------------------------------------------------
(* EventLoop::internal_loop *)

\* The process enters its loop, without root's rights, and with the signals
\* still blocked.
EnterLoop(ps, p) == Goto(Unprivileged(ps, p), p, "poll")

MaskIntact(p) == proc[p].mask = LoopSignals

\* handle_signal: a termination signal ends the loop with status 0 ...
handle_termination(p) ==
  /\ At(p, "poll")
  /\ proc[p].pending # {}
  /\ Lowest(proc[p].pending) \in Terminating
  /\ proc' = Leave([proc EXCEPT ![p].pending = @ \ {Lowest(@)}], p, 0)
  /\ UNCHANGED bug

\* Bug: SIGCONT is not passed on.
handle_continue_self_only(p) ==
  /\ At(p, "poll")
  /\ proc[p].pending # {}
  /\ Lowest(proc[p].pending) = "CONT"
  /\ proc' = [proc EXCEPT ![p].pending = {}]
  /\ UNCHANGED bug

\* ... SIGCONT resumes the children known to be stopped ...
handle_continue(p) ==
  /\ At(p, "poll")
  /\ proc[p].pending # {}
  /\ Lowest(proc[p].pending) = "CONT"
  /\ proc' = resume_children([proc EXCEPT ![p].pending = {}], p)
  /\ UNCHANGED bug

\* ... and SIGCHLD starts a search of all the children.
handle_child(p) ==
  /\ At(p, "poll")
  /\ proc[p].pending # {}
  /\ Lowest(proc[p].pending) = "CHLD"
  /\ Check(Children(p) # <<>>)
  /\ proc' = [proc EXCEPT ![p].pending = @ \ {"CHLD"}, ![p].pc = "search", ![p].next = 1]

\* Bug: a child that has not terminated is taken to be waitable.
MayWait_unasked(c) == ~ proc[c].terminated_

MayWait(c) == ~ proc[c].terminated_ /\ Waitable(c)

\* Bug: a child's failure is not looked at.
Ended_quietly(ps, p, c) == Leave(ps, p, 0)

\* The first child that ends decides: its failure is the process's failure.
Ended(ps, p, c) == IF proc[c].status # 0 THEN Fail(ps, p) ELSE Leave(ps, p, 0)

\* One turn of the search.  A waitable child stays so until it is waited for,
\* so waitable and wait( true ) are one step.  A process with a stopped child
\* stops itself; the search goes on when it is continued.
search_child(p) ==
  /\ At(p, "search")
  /\ proc[p].next <= Len(Children(p))
  /\ LET c    == Children(p)[proc[p].next]
         on   == [proc EXCEPT ![p].next = @ + 1]
         seen == wait(on, c)
     IN  /\ Check(MayWait(c) => Waitable(c))
         /\ proc' = IF ~ MayWait(c) THEN on
                    ELSE IF ~ Waitable(c) THEN Fail(proc, p)
                    ELSE IF seen[c].terminated_ THEN Ended(seen, p, c)
                    ELSE IF seen[c].running_ THEN seen
                    ELSE Stop(seen, p)

search_ends(p) ==
  /\ At(p, "search")
  /\ proc[p].next > Len(Children(p))
  /\ proc' = [proc EXCEPT ![p].pc = "poll", ![p].next = 1]
  /\ UNCHANGED bug

-----------------------------------------------------------------------------
(* ChildProcess::~ChildProcess, for the children in order *)

\* resume and signal; dnsmasq is started with SIGTERM, the others have SIGHUP.
terminate(ps, c) == signal(resume(ps, c), c, IF c = "dnsmasq" THEN "TERM" ELSE "HUP")

destroy_child(p) ==
  /\ At(p, "destroy")
  /\ proc[p].next <= Len(Children(p))
  /\ LET c == Children(p)[proc[p].next]
     IN  proc' = IF proc[c].terminated_
                 THEN [proc EXCEPT ![p].next = @ + 1]
                 ELSE Goto(terminate(proc, c), p, "destroy_wait")
  /\ UNCHANGED bug

\* Bug: one change of state is taken for the end of the child.
destroy_wait_once(p) ==
  /\ At(p, "destroy_wait")
  /\ LET c == Children(p)[proc[p].next]
     IN  /\ Waitable(c)
         /\ proc' = [wait(proc, c) EXCEPT ![p].pc = "destroy", ![p].next = @ + 1]
  /\ UNCHANGED bug

\* wait() blocks until there is a change of state; the loop then signals again
\* unless it was the end.
destroy_wait(p) ==
  /\ At(p, "destroy_wait")
  /\ LET c == Children(p)[proc[p].next]
     IN  /\ Waitable(c)
         /\ proc' = Goto(wait(proc, c), p, "destroy")
  /\ UNCHANGED bug

ChildrenDestroyed(p) == At(p, "destroy") /\ proc[p].next > Len(Children(p))

LoopStep(p) ==
  \/ handle_termination(p) \/ handle_continue(p) \/ handle_child(p)
  \/ search_child(p) \/ search_ends(p)
  \/ destroy_child(p) \/ destroy_wait(p)

=============================================================================
