-------------------------- MODULE MiddlewareClient --------------------------
(***************************************************************************)
(* The TrueNAS middleware client (app/services/truenas_ws.py).  Operations *)
(* (an inventory read, a SMART batch, a single LED or SMART call) run as   *)
(* asyncio tasks of one process against one appliance.  Each opens a       *)
(* connection, logs in, makes its calls and closes; every login and every  *)
(* call takes a slot of the appliance's MiddlewareCallLimiter.             *)
(*                                                                         *)
(* A step is what a task runs between two awaits.  A request is <<o, i>>:  *)
(* the login of operation o when i = 0, and its i-th call otherwise.       *)
(* Cancelling a task (its own timeout, the operation's, or a sibling's     *)
(* failure) and the task's running again are two steps, between which the  *)
(* reader, the limiter and every other task may run.                       *)
(*                                                                         *)
(* The cooldown is counted in ticks that remain.  The appliance and the    *)
(* connection are external: a request reaches the appliance at any time    *)
(* after its first byte was sent, or never, and so does its answer.        *)
(***************************************************************************)
EXTENDS Integers, Sequences, FiniteSets, FiniteSetsExt

CONSTANTS
    Ops,             \* callers that start operations, one after the other
    KindsOf,         \* the operations each of them starts
    CallsPerOp,      \* calls of an inventory read or a batch
    Limits,          \* limits a configuration may give this process
    MaxConcurrency,  \* the width a SMART batch asks for
    BaseDelay,       \* base_delay_seconds, in ticks
    MaxDelay,        \* max_delay_seconds, in ticks
    MaxFailures      \* bound: _failures is counted no further, the delay is at its limit

ASSUME ClientAssumption ==
    /\ IsFiniteSet(Ops) /\ KindsOf \in [Ops -> SUBSET {"inventory", "batch", "single"}]
    /\ Limits \subseteq Nat \ {0} /\ Limits # {}
    /\ CallsPerOp \in Nat \ {0} /\ MaxConcurrency \in Nat \ {0}
    /\ BaseDelay \in Nat \ {0} /\ MaxDelay \in Nat \ {0} /\ MaxFailures \in Nat \ {0}
    /\ BaseDelay * 2^(MaxFailures - 1) >= MaxDelay

VARIABLES
    limit, active, waiters,   \* MiddlewareCallLimiter: its slots and its queue
    failures, cooldown,       \* and its backoff
    op,                       \* where an operation is
    kind,                     \* "inventory", "batch" or "single"
    width,                    \* calls it makes at once
    primary,                  \* the exception that ends it: "error", or "interrupted" (timeout, cancellation)
    timedOut,                 \* whether fetch_all will see a TimeoutError
    lost,                     \* whether its connection failed
    st,                       \* where a request is
    cancel,                   \* whether its task has been cancelled and has not run since
    fut,                      \* its future
    server                    \* the request and its answer outside the process

slots == <<limit, active, waiters>>
backoff == <<failures, cooldown>>
operation == <<op, kind, width, primary, timedOut, lost>>
request == <<st, cancel, fut, server>>
vars == <<slots, backoff, operation, request>>

Calls == 1..CallsPerOp
Requests == Ops \X (0..CallsPerOp)
Login(o) == <<o, 0>>
CallsOf(o) == {<<o, i>> : i \in IF kind[o] = "single" THEN {1} ELSE Calls}
Outcomes == {"ok", "busy", "error"}
InFlight == {"queued", "granted", "sending", "waiting"}

Init ==
    /\ limit \in Limits /\ active = 0 /\ waiters = <<>>
    /\ failures = 0 /\ cooldown = 0
    /\ op = [o \in Ops |-> "idle"] /\ kind = [o \in Ops |-> "single"] /\ width = [o \in Ops |-> 0]
    /\ primary = [o \in Ops |-> "none"]
    /\ timedOut = [o \in Ops |-> FALSE] /\ lost = [o \in Ops |-> FALSE]
    /\ st = [r \in Requests |-> "new"] /\ cancel = [r \in Requests |-> FALSE]
    /\ fut = [r \in Requests |-> "none"] /\ server = [r \in Requests |-> "none"]

(***************************************************************************)
(* MiddlewareCallLimiter.                                                  *)
(***************************************************************************)

\* The waiter's future is not done: neither granted nor cancelled.
Live(r) == st[r] = "queued" /\ ~cancel[r]

\* _admit: waiters are popped while a slot is free, and the live ones take one.
Popped(taken, l) ==
    {i \in DOMAIN waiters : taken + Cardinality({j \in 1..(i - 1) : Live(waiters[j])}) < l}
Granted(taken, l) == {waiters[i] : i \in {j \in Popped(taken, l) : Live(waiters[j])}}

\* Mutant: one slot more than the limit is handed out.
AdmitOneMore(taken, l, states) ==
    /\ waiters' = SubSeq(waiters, Cardinality(Popped(taken, l + 1)) + 1, Len(waiters))
    /\ active' = taken + Cardinality(Granted(taken, l + 1))
    /\ st' = [r \in Requests |-> IF r \in Granted(taken, l + 1) THEN "granted" ELSE states[r]]

\* Mutant: at most one waiter is admitted, whether or not it is still live.
AdmitOne(taken, l, states) ==
    LET popped == Popped(taken, l) \intersect {1}
        granted == {waiters[i] : i \in {j \in popped : Live(waiters[j])}}
    IN  /\ waiters' = SubSeq(waiters, Cardinality(popped) + 1, Len(waiters))
        /\ active' = taken + Cardinality(granted)
        /\ st' = [r \in Requests |-> IF r \in granted THEN "granted" ELSE states[r]]

Admit(taken, l, states) ==
    /\ waiters' = SubSeq(waiters, Cardinality(Popped(taken, l)) + 1, Len(waiters))
    /\ active' = taken + Cardinality(Granted(taken, l))
    /\ st' = [r \in Requests |-> IF r \in Granted(taken, l) THEN "granted" ELSE states[r]]

\* deque.remove, if the waiter is still there
Remove(r) ==
    LET places == {i \in DOMAIN waiters : waiters[i] = r}
        i == Min(places)
    IN  waiters' = IF places = {} THEN waiters
                   ELSE SubSeq(waiters, 1, i - 1) \o SubSeq(waiters, i + 1, Len(waiters))

\* The requests that own a slot.
Holds(r) == st[r] \in {"granted", "sending", "waiting", "broken", "failed", "abandoned", "orphaned"}

\* _release, n times
Release(n, states) == Admit(active - n, limit, states) /\ UNCHANGED limit
Keep(states) == st' = states /\ UNCHANGED slots

SetLimit ==
    /\ limit' \in Limits \ {limit}
    /\ Admit(active, limit', st)
    /\ UNCHANGED <<backoff, operation, cancel, fut, server>>

Open == cooldown = 0

\* Mutant: a refusal during a cooldown prolongs it.
NoteBusyAdds ==
    /\ failures' = Min({failures + 1, MaxFailures})
    /\ LET delay == Min({MaxDelay, BaseDelay * 2^(failures' - 1)})
       IN  \E jittered \in ((delay + 1) \div 2)..delay : cooldown' = cooldown + jittered

\* note_busy, jittered down by at most half
NoteBusy ==
    /\ failures' = Min({failures + 1, MaxFailures})
    /\ LET delay == Min({MaxDelay, BaseDelay * 2^(failures' - 1)})
       IN  \E jittered \in ((delay + 1) \div 2)..delay : cooldown' = Max({cooldown, jittered})

NoteSuccess == failures' = (IF Open THEN 0 ELSE failures) /\ UNCHANGED cooldown

NoteOutcome(outcome) ==
    CASE outcome = "ok" -> NoteSuccess
      [] outcome = "busy" -> NoteBusy
      [] OTHER -> UNCHANGED backoff

Tick ==
    /\ cooldown > 0 /\ cooldown' = cooldown - 1
    /\ UNCHANGED <<slots, failures, operation, request>>

(***************************************************************************)
(* An operation ends: its calls are cancelled and drained.                 *)
(***************************************************************************)

\* Task.cancel: whatever its future holds will not be looked at.
CancelRequests(rs) ==
    /\ cancel' = [r \in Requests |-> cancel[r] \/ (r \in rs /\ st[r] \in InFlight)]
    /\ fut' = [r \in Requests |-> IF r \in rs THEN "none" ELSE fut[r]]

Drain(o, why) ==
    /\ op' = [op EXCEPT ![o] = "draining"] /\ primary' = [primary EXCEPT ![o] = why]
    /\ CancelRequests(CallsOf(o))

\* A call's task has run to its end.  Its failure belongs to its disk or its method,
\* or will end the operation.
CallEnds(r, ok) ==
    /\ cancel' = [cancel EXCEPT ![r] = FALSE] /\ fut' = [fut EXCEPT ![r] = "none"]
    /\ \/ UNCHANGED primary
       \/ ~ok /\ op[r[1]] = "calling" /\ primary' = [primary EXCEPT ![r[1]] = "error"]

(***************************************************************************)
(* admit, for a login and for a call.                                      *)
(***************************************************************************)

\* _acquire takes a slot at once only when nobody is queued.
Acquire(r) ==
    IF active < limit /\ waiters = <<>>
    THEN /\ active' = active + 1 /\ st' = [st EXCEPT ![r] = "sending"] /\ UNCHANGED waiters
    ELSE /\ waiters' = Append(waiters, r) /\ st' = [st EXCEPT ![r] = "queued"] /\ UNCHANGED active

StartCall(r) ==
    /\ r[2] # 0 /\ op[r[1]] = "calling" /\ r \in CallsOf(r[1]) /\ st[r] = "new"
    /\ Cardinality({q \in CallsOf(r[1]) : st[q] \in InFlight}) < width[r[1]]
    /\ IF Open
       THEN Acquire(r) /\ UNCHANGED <<limit, primary, cancel, fut>>
       ELSE Keep([st EXCEPT ![r] = "done"]) /\ CallEnds(r, FALSE)
    /\ UNCHANGED <<backoff, op, kind, width, timedOut, lost, server>>

LoginEnds(o, why) == op' = [op EXCEPT ![o] = "settling"] /\ primary' = [primary EXCEPT ![o] = why]

StartLogin(o) ==
    /\ op[o] = "connecting"
    /\ IF Open
       THEN Acquire(Login(o)) /\ op' = [op EXCEPT ![o] = "login"] /\ UNCHANGED <<limit, primary>>
       ELSE LoginEnds(o, "error") /\ UNCHANGED <<slots, st>>
    /\ UNCHANGED <<backoff, kind, width, timedOut, lost, cancel, fut, server>>

\* Mutant: a call that was queued does not look at the cooldown again.
ResumeUnchecked(r) ==
    /\ st[r] = "granted" /\ ~cancel[r]
    /\ Keep([st EXCEPT ![r] = "sending"])
    /\ UNCHANGED <<backoff, operation, cancel, fut, server>>

\* The queued task has its slot and runs: it checks the cooldown once more.
Resume(r) ==
    /\ st[r] = "granted" /\ ~cancel[r]
    /\ \/ Open /\ Keep([st EXCEPT ![r] = "sending"]) /\ UNCHANGED <<op, primary, cancel, fut>>
       \/ /\ ~Open /\ Release(1, [st EXCEPT ![r] = "done"])
          /\ IF r[2] = 0
             THEN LoginEnds(r[1], "error") /\ UNCHANGED <<cancel, fut>>
             ELSE CallEnds(r, FALSE) /\ UNCHANGED op
    /\ UNCHANGED <<backoff, kind, width, timedOut, lost, server>>

(***************************************************************************)
(* _MiddlewareCallDispatcher, and _call for a single call.                 *)
(***************************************************************************)

SendDone(r) ==
    /\ st[r] = "sending" /\ ~cancel[r] /\ ~lost[r[1]]
    /\ Keep([st EXCEPT ![r] = "waiting"])
    /\ UNCHANGED <<backoff, operation, cancel, fut, server>>

\* The call returns or raises: its outcome is noted before its slot is released.
Finish(r) ==
    /\ r[2] # 0 /\ ~cancel[r]
    /\ \E outcome \in Outcomes :
          /\ \/ st[r] = "waiting" /\ outcome = fut[r]
             \/ st[r] = "sending" /\ lost[r[1]] /\ outcome = "error"
          /\ NoteOutcome(outcome)
          /\ CallEnds(r, outcome = "ok")
    /\ Release(1, [st EXCEPT ![r] = "done"])
    /\ server' = [server EXCEPT ![r] = "none"]
    /\ UNCHANGED <<op, kind, width, timedOut, lost>>

\* A batch's deadline for one call, or for its wait for a slot, expires.
CallTimeout(r) ==
    /\ r[2] # 0 /\ kind[r[1]] = "batch" /\ op[r[1]] = "calling"
    /\ st[r] \in InFlight /\ ~cancel[r]
    /\ CancelRequests({r})
    /\ UNCHANGED <<slots, backoff, operation, st, server>>

\* Mutant: a slot handed over just as its caller was cancelled is not given back.
UnwindForgets(r) ==
    /\ cancel[r] /\ r[2] # 0 /\ st[r] = "granted"
    /\ Keep([st EXCEPT ![r] = "done"])
    /\ CallEnds(r, FALSE)
    /\ UNCHANGED <<backoff, op, kind, width, timedOut, lost, server>>

\* Mutant: a call that timed out gives its slot back although it is still running.
UnwindReleases(r) ==
    /\ cancel[r] /\ r[2] # 0 /\ st[r] \in {"sending", "waiting"}
    /\ Release(1, [st EXCEPT ![r] = "done"])
    /\ CallEnds(r, FALSE)
    /\ UNCHANGED <<backoff, op, kind, width, timedOut, lost, server>>

\* The cancelled waiter leaves the queue, if _admit has not popped it.
UnwindQueued(r) ==
    /\ cancel[r] /\ r[2] # 0 /\ st[r] = "queued"
    /\ Remove(r)
    /\ st' = [st EXCEPT ![r] = "done"]
    /\ CallEnds(r, FALSE)
    /\ UNCHANGED <<limit, active, backoff, op, kind, width, timedOut, lost, server>>

UnwindGranted(r) ==
    /\ cancel[r] /\ r[2] # 0 /\ st[r] = "granted"
    /\ Release(1, [st EXCEPT ![r] = "done"])
    /\ CallEnds(r, FALSE)
    /\ UNCHANGED <<backoff, op, kind, width, timedOut, lost, server>>

\* Sent: a dispatcher's call keeps its slot as an orphan, a single call's slot ends with it.
UnwindSent(r) ==
    /\ cancel[r] /\ r[2] # 0 /\ st[r] \in {"sending", "waiting"}
    /\ IF kind[r[1]] = "single"
       THEN Release(1, [st EXCEPT ![r] = "done"])
       ELSE Keep([st EXCEPT ![r] = "orphaned"])
    /\ CallEnds(r, FALSE)
    /\ UNCHANGED <<backoff, op, kind, width, timedOut, lost, server>>

Pending(r) == st[r] \in {"sending", "waiting"} /\ ~cancel[r] /\ fut[r] = "none"

\* A reply is read (_handle_message): an orphan's slot is released, and a pending
\* future is set.
Receive(r) ==
    /\ r[2] # 0 /\ op[r[1]] \in {"calling", "draining"} /\ server[r] = "running"
    /\ server' = [server EXCEPT ![r] = IF st[r] \in {"sending", "waiting"} THEN "answered" ELSE "none"]
    /\ IF st[r] = "orphaned" THEN Release(1, [st EXCEPT ![r] = "done"]) ELSE Keep(st)
    /\ IF Pending(r) THEN \E a \in Outcomes : fut' = [fut EXCEPT ![r] = a] ELSE UNCHANGED fut
    /\ UNCHANGED <<backoff, operation, cancel>>

\* The connection fails, and _reader gives every pending future the exception.
ConnectionLost(o) ==
    /\ op[o] \in {"login", "calling", "draining", "settling"} /\ ~lost[o]
    /\ lost' = [lost EXCEPT ![o] = TRUE]
    /\ fut' = [r \in Requests |-> IF r \in CallsOf(o) /\ Pending(r) THEN "error" ELSE fut[r]]
    /\ server' = [r \in Requests |-> IF r[1] = o THEN "none" ELSE server[r]]
    /\ UNCHANGED <<slots, backoff, op, kind, width, primary, timedOut, st, cancel>>

(***************************************************************************)
(* _run_operation, fetch_all, smartctl_batch and _session.                 *)
(***************************************************************************)

\* No connection and no login while backing off.
Begin(o) ==
    /\ op[o] = "idle" /\ Open
    /\ op' = [op EXCEPT ![o] = "connecting"]
    /\ \E k \in KindsOf[o] :
          /\ kind' = [kind EXCEPT ![o] = k]
          /\ width' = [width EXCEPT ![o] =
                IF k = "batch" THEN Min({MaxConcurrency, CallsPerOp, limit}) ELSE CallsPerOp]
    /\ UNCHANGED <<slots, backoff, primary, timedOut, lost, request>>

\* Connecting or the handshake fails, times out or is cancelled.
ConnectFails(o) ==
    /\ op[o] = "connecting"
    /\ op' = [op EXCEPT ![o] = "closing"] /\ primary' = [primary EXCEPT ![o] = "error"]
    /\ timedOut' \in {timedOut, [timedOut EXCEPT ![o] = kind[o] = "inventory"]}
    /\ UNCHANGED <<slots, backoff, kind, width, lost, request>>

\* Mutant: an interrupted login is given up as if it had not been sent.
InterruptGivesUp(o) ==
    /\ \/ /\ op[o] = "login" /\ st[Login(o)] \in {"queued", "granted"} /\ ~cancel[Login(o)]
          /\ cancel' = [cancel EXCEPT ![Login(o)] = TRUE]
          /\ UNCHANGED <<op, primary, st, fut>>
       \/ /\ op[o] = "login" /\ st[Login(o)] \in {"sending", "waiting"}
          /\ LoginEnds(o, "interrupted")
          /\ st' = [st EXCEPT ![Login(o)] = IF @ = "waiting" THEN "failed" ELSE "broken"]
          /\ UNCHANGED <<cancel, fut>>
       \/ op[o] = "calling" /\ Drain(o, "interrupted") /\ UNCHANGED st
    /\ UNCHANGED <<slots, backoff, kind, width, lost, server>>

\* The operation's task is cancelled: a login in the queue, a login on its way (a
\* frame cut in the middle leaves the connection unusable), or the calls.
Interrupt(o) ==
    /\ \/ /\ op[o] = "login" /\ st[Login(o)] \in {"queued", "granted"} /\ ~cancel[Login(o)]
          /\ cancel' = [cancel EXCEPT ![Login(o)] = TRUE]
          /\ UNCHANGED <<op, primary, st, fut>>
       \/ /\ op[o] = "login" /\ st[Login(o)] \in {"sending", "waiting"}
          /\ LoginEnds(o, "interrupted")
          /\ st' = [st EXCEPT ![Login(o)] = IF @ = "waiting" THEN "waiting" ELSE "broken"]
          /\ UNCHANGED <<cancel, fut>>
       \/ op[o] = "calling" /\ Drain(o, "interrupted") /\ UNCHANGED st
    /\ UNCHANGED <<slots, backoff, kind, width, lost, server>>

\* The budget of the whole operation expires; a batch has one for its session only.
OpTimeout(o) ==
    /\ kind[o] = "batch" => op[o] = "login"
    /\ timedOut' = [timedOut EXCEPT ![o] = kind[o] = "inventory"]
    /\ Interrupt(o)

\* It expires when the operation is already ending for another reason.
LateTimeout(o) ==
    /\ kind[o] = "inventory" /\ op[o] \in {"draining", "settling", "closing"} /\ primary[o] # "interrupted"
    /\ ~timedOut[o] /\ timedOut' = [timedOut EXCEPT ![o] = TRUE]
    /\ UNCHANGED <<slots, backoff, op, kind, width, primary, lost, request>>

OpCancelled(o) == Interrupt(o) /\ UNCHANGED timedOut

\* A login cancelled in the queue, or just as it got its slot.
UnwindLogin(o) ==
    LET r == Login(o)
    IN  /\ cancel[r]
        /\ IF st[r] = "queued"
           THEN /\ Remove(r)
                /\ st' = [st EXCEPT ![r] = "done"]
                /\ UNCHANGED <<limit, active>>
           ELSE Release(1, [st EXCEPT ![r] = "done"])
        /\ cancel' = [cancel EXCEPT ![r] = FALSE]
        /\ LoginEnds(o, "interrupted")
        /\ UNCHANGED <<backoff, kind, width, timedOut, lost, fut, server>>

\* A heartbeat is answered while the login is out: a frame is being sent again.
Ping(o) ==
    /\ op[o] = "login" /\ st[Login(o)] = "waiting" /\ ~lost[o]
    /\ Keep([st EXCEPT ![Login(o)] = "sending"])
    /\ UNCHANGED <<backoff, operation, cancel, fut, server>>

\* The login is answered: a refusal for capacity starts the backoff before the slot
\* is released, in _settle_login; a success does not end one.
LoginReply(o) ==
    LET r == Login(o)
    IN  /\ op[o] = "login" /\ st[r] = "waiting" /\ server[r] = "running"
        /\ server' = [server EXCEPT ![r] = "none"]
        /\ \/ /\ Release(1, [st EXCEPT ![r] = "done"]) /\ UNCHANGED backoff
              /\ \/ op' = [op EXCEPT ![o] = "calling"] /\ UNCHANGED primary
                 \/ LoginEnds(o, "error")
           \/ /\ Keep([st EXCEPT ![r] = "failed"]) /\ (NoteBusy \/ UNCHANGED backoff)
              /\ LoginEnds(o, "error")
        /\ UNCHANGED <<kind, width, timedOut, lost, cancel, fut>>

LoginLost(o) ==
    /\ op[o] = "login" /\ lost[o] /\ st[Login(o)] \in {"sending", "waiting"}
    /\ LoginEnds(o, "error")
    /\ Keep([st EXCEPT ![Login(o)] = "failed"])
    /\ UNCHANGED <<backoff, kind, width, timedOut, lost, cancel, fut, server>>

\* A call has failed the operation, or the reader has.
CallsFailed(o) ==
    /\ op[o] = "calling" /\ (primary[o] = "error" \/ (lost[o] /\ kind[o] # "single"))
    /\ Drain(o, "error")
    /\ UNCHANGED <<slots, backoff, kind, width, timedOut, lost, st, server>>

CallsReturned(o) ==
    /\ op[o] = "calling" /\ \A r \in CallsOf(o) : st[r] \in {"done", "orphaned"}
    /\ op' = [op EXCEPT ![o] = "draining"]
    /\ UNCHANGED <<slots, backoff, kind, width, primary, timedOut, lost, request>>

\* Mutant: close waits for the replies to the orphans.
CloseWaits(o) ==
    /\ op[o] = "draining" /\ \A r \in CallsOf(o) : st[r] \notin InFlight \union {"orphaned"}
    /\ op' = [op EXCEPT ![o] = "settling"]
    /\ server' = [r \in Requests |-> IF r[1] = o THEN "none" ELSE server[r]]
    /\ UNCHANGED <<slots, backoff, kind, width, primary, timedOut, lost, st, cancel, fut>>

\* close, once every call has unwound: the orphans' slots are released.
CloseDispatcher(o) ==
    /\ op[o] = "draining" /\ \A r \in CallsOf(o) : st[r] \notin InFlight
    /\ op' = [op EXCEPT ![o] = "settling"]
    /\ Release(Cardinality({r \in CallsOf(o) : st[r] = "orphaned"}),
               [r \in Requests |-> IF r \in CallsOf(o) THEN "done" ELSE st[r]])
    /\ server' = [r \in Requests |-> IF r[1] = o THEN "none" ELSE server[r]]
    /\ UNCHANGED <<backoff, kind, width, primary, timedOut, lost, cancel, fut>>

(***************************************************************************)
(* _settle_login and the close of the connection.                          *)
(***************************************************************************)

\* Only an interrupted login whose request is out is waited for.
Settles(o) == st[Login(o)] = "waiting" /\ primary[o] = "interrupted"

GraceOver(o) ==
    /\ op[o] = "settling" /\ Settles(o)
    /\ Keep([st EXCEPT ![Login(o)] = "abandoned"])
    /\ UNCHANGED <<backoff, operation, cancel, fut, server>>

\* The wait is over, or there is none; the login's slot, if it still has one, is
\* released.
SettleLogin(o) ==
    /\ op[o] = "settling"
    /\ IF Settles(o) /\ ~lost[o]
       THEN server[Login(o)] = "running" /\ server' = [server EXCEPT ![Login(o)] = "none"]
       ELSE UNCHANGED server
    /\ op' = [op EXCEPT ![o] = "closing"]
    /\ IF Holds(Login(o)) THEN Release(1, [st EXCEPT ![Login(o)] = "done"]) ELSE Keep(st)
    /\ UNCHANGED <<backoff, kind, width, primary, timedOut, lost, cancel, fut>>

\* The connection is closed and the caller gets its result or exception; an inventory
\* read that timed out starts a backoff.
Closed(o) ==
    /\ op[o] = "closing"
    /\ op' = [op EXCEPT ![o] = "idle"] /\ kind' = [kind EXCEPT ![o] = "single"] /\ width' = [width EXCEPT ![o] = 0]
    /\ primary' = [primary EXCEPT ![o] = "none"]
    /\ timedOut' = [timedOut EXCEPT ![o] = FALSE] /\ lost' = [lost EXCEPT ![o] = FALSE]
    /\ st' = [r \in Requests |-> IF r[1] = o THEN "new" ELSE st[r]]
    /\ server' = [server EXCEPT ![Login(o)] = "none"]
    /\ IF timedOut[o] THEN NoteBusy ELSE UNCHANGED backoff
    /\ UNCHANGED <<slots, cancel, fut>>

(***************************************************************************)
(* The appliance.                                                          *)
(***************************************************************************)

\* A request arrives, once its first byte was sent.
Deliver(r) ==
    /\ op[r[1]] \in {"login", "calling", "draining", "settling"} /\ ~lost[r[1]] /\ server[r] = "none"
    /\ st[r] \in {"sending", "waiting", "broken", "orphaned"}
    /\ server' = [server EXCEPT ![r] = "running"]
    /\ UNCHANGED <<slots, backoff, operation, st, cancel, fut>>

Next ==
    \/ SetLimit \/ Tick
    \/ \E o \in Ops :
          \/ Begin(o) \/ ConnectFails(o) \/ StartLogin(o) \/ Ping(o) \/ LoginReply(o) \/ LoginLost(o)
          \/ OpTimeout(o) \/ LateTimeout(o) \/ OpCancelled(o) \/ UnwindLogin(o) \/ ConnectionLost(o) \/ CallsFailed(o)
          \/ CallsReturned(o) \/ CloseDispatcher(o) \/ GraceOver(o) \/ SettleLogin(o) \/ Closed(o)
    \/ \E r \in Requests :
          \/ StartCall(r) \/ Resume(r) \/ SendDone(r) \/ Finish(r) \/ CallTimeout(r)
          \/ UnwindQueued(r) \/ UnwindGranted(r) \/ UnwindSent(r) \/ Receive(r) \/ Deliver(r)

Spec == Init /\ [][Next]_vars

(***************************************************************************)
(* Properties.                                                             *)
(***************************************************************************)

\* Types: a queue of requests, a cooldown that several refusals do not stretch beyond
\* max_delay_seconds, and only a request in flight is cancelled.
TypeOK ==
    /\ limit \in Limits /\ active \in 0..Cardinality(Requests) /\ waiters \in Seq(Requests)
    /\ failures \in 0..MaxFailures /\ cooldown \in 0..MaxDelay
    /\ op \in [Ops -> {"idle", "connecting", "login", "calling", "draining", "settling", "closing"}]
    /\ kind \in [Ops -> {"inventory", "batch", "single"}] /\ width \in [Ops -> 0..CallsPerOp]
    /\ primary \in [Ops -> {"none", "error", "interrupted"}]
    /\ timedOut \in [Ops -> BOOLEAN] /\ lost \in [Ops -> BOOLEAN]
    /\ st \in [Requests -> InFlight \union {"new", "broken", "failed", "abandoned", "orphaned", "done"}]
    /\ cancel \in [Requests -> BOOLEAN]
    /\ \A r \in Requests : cancel[r] => st[r] \in InFlight
    /\ fut \in [Requests -> Outcomes \union {"none"}]
    /\ server \in [Requests -> {"none", "running", "answered"}]

\* No slot is leaked or released twice, whatever is cancelled, times out or fails and
\* when: the limiter counts exactly the requests that hold one.
SlotsConserved == active = Cardinality({r \in Requests : Holds(r)})

\* No lost wakeup: a request waits only while every slot is taken, and the limiter has
\* not forgotten it.
QueuedForAReason ==
    \A r \in Requests : Live(r) => active >= limit /\ \E i \in DOMAIN waiters : waiters[i] = r

\* The budget: whatever the appliance still runs of a connection that is in use, also
\* what the client stopped waiting for, holds a slot.  A single call that is draining
\* is not among them: it has left slot(), which releases as the teardown starts, and
\* the close of its connection follows at once.
RunningHoldsSlot ==
    \A r \in Requests :
        /\ server[r] = "running"
        /\ op[r[1]] \in {"login", "calling"} \union (IF kind[r[1]] = "single" THEN {} ELSE {"draining"})
        => Holds(r)

\* While backing off nothing new is sent, also by requests that were queued before.
NothingSentWhileCooling ==
    [][\A r \in Requests : st[r] \in {"new", "queued", "granted"} /\ st'[r] = "sending" => Open]_vars

\* Slots are given up to the limit in force, and in the order of the queue.
AdmissionInTurn ==
    [][/\ active' > active => active' <= limit'
       /\ \A j \in DOMAIN waiters : \A i \in 1..(j - 1) :
             Live(waiters[j]) /\ st'[waiters[j]] = "granted" /\ Live(waiters[i]) => st'[waiters[i]] = "granted"
       /\ \A r \in Requests : st[r] = "new" /\ st'[r] = "sending" => \A q \in Requests : ~Live(q)]_vars

\* A connection does not start to close while its login runs on the appliance, unless
\* the grace is over, the connection failed, or it was in the middle of a frame.
NoSessionLeftBehind ==
    [][\A o \in Ops :
          op[o] = "settling" /\ op'[o] = "closing" /\ server'[Login(o)] = "running"
          => st[Login(o)] \in {"abandoned", "broken"}]_vars

\* What the event loop and the timers do for an operation and for a call without the
\* help of the appliance or of another operation.
OperationStep(o) ==
    \/ ConnectFails(o) \/ StartLogin(o) \/ Resume(Login(o)) \/ UnwindLogin(o) \/ LoginLost(o) \/ OpTimeout(o)
    \/ CallsFailed(o) \/ CallsReturned(o) \/ CloseDispatcher(o) \/ GraceOver(o) \/ SettleLogin(o) \/ Closed(o)
CallStep(r) ==
    \/ StartCall(r) \/ Resume(r) \/ Finish(r) \/ CallTimeout(r)
    \/ UnwindQueued(r) \/ UnwindGranted(r) \/ UnwindSent(r)

\* When they can: by where the operation is, ConnectFails; UnwindLogin or OpTimeout;
\* OpTimeout or CallsReturned; CloseDispatcher; GraceOver, SettleLogin or Closed.
OperationReady(o) ==
    \/ op[o] = "connecting"
    \/ op[o] = "login" /\ st[Login(o)] \in (IF cancel[Login(o)] THEN {"queued", "granted"} ELSE InFlight)
    \/ op[o] = "calling" /\ (kind[o] # "batch" \/ \A r \in CallsOf(o) : st[r] \in {"done", "orphaned"})
    \/ op[o] = "draining" /\ \A r \in CallsOf(o) : st[r] \notin InFlight
    \/ op[o] \in {"settling", "closing"}
\* A call: StartCall; CallTimeout; or one of the three ways in which it unwinds.
CallReady(r) ==
    \/ /\ op[r[1]] = "calling" /\ st[r] = "new"
       /\ Cardinality({q \in CallsOf(r[1]) : st[q] \in InFlight}) < width[r[1]]
    \/ op[r[1]] = "calling" /\ kind[r[1]] = "batch" /\ st[r] \in InFlight
    \/ cancel[r]

HasStep == \A o \in Ops : op[o] # "idle" => OperationReady(o) \/ \E r \in CallsOf(o) : CallReady(r)

\* Nobody waits for ever: while an operation runs, it has a step of its own to take
\* towards its end, even if the appliance never answers and every slot is taken.
NeverStuck ==
    /\ HasStep
    /\ \A o \in Ops : OperationReady(o) => ENABLED OperationStep(o)
    /\ \A o \in Ops : \A r \in CallsOf(o) : CallReady(r) => ENABLED CallStep(r)
=============================================================================
