------------------------------ MODULE Sessions ------------------------------
(***************************************************************************)
(* Server and Session: connections, their asynchronous reads, writes and   *)
(* timer, the authentication of one user, and the roles a reload changes.  *)
(*                                                                         *)
(* An operation is "wait" until the system completes it; then its handler  *)
(* is queued, with "data", "ok", "fired" or "error".  The handlers of one  *)
(* session run on one thread, one after the other; sessions are on threads *)
(* of their own, which only meet in the critical sections of ZestDB.  A    *)
(* session lives as long as one of its handlers is queued, waits or runs.  *)
(***************************************************************************)
EXTENDS Integers, FiniteSets

CONSTANTS
    Slots,           \* the sessions of an instance
    Faulty,          \* bound: those whose connection may fail or time out
    MaxConnections,  \* maxConnections_
    MaxFailures,     \* MAX_AUTH_FAILURES
    BatchSizes,      \* the numbers of commands of a batch
    MaxAccepted,     \* bound: connections accepted
    MaxBatches,      \* bound: batches received
    MaxReloads       \* bound: reloads

ASSUME SessionsAssumption ==
    IsFiniteSet(Slots) /\ Faulty \subseteq Slots /\ MaxConnections \in Nat \ {0} /\ MaxFailures \in Nat \ {0} /\ BatchSizes \subseteq Nat

VARIABLES
    sess,        \* sess[s]: the session, see Gone
    userRole,    \* the user's role, "none" when the users do not have it
    failures,    \* authFailures of the user: how many,
    recent,      \* and whether the last is less than AUTH_LOCKOUT ago
    server,      \* "up", "halted" or, when the workers are joined, "joined"
    accepted, batches, reloads,
    stale        \* history: stale[s], the commands of s carried out with
                 \* another role than the user's since the last reload

shared == <<userRole, failures, recent>>
counts == <<accepted, batches, reloads, stale>>
vars == <<sess, shared, server, counts>>

(***************************************************************************)
(* rd, wr, tm: the asynchronous read, write and timer; queue: the length   *)
(* of write_queue_; moved: deadline_ is later than the timer's expiry;     *)
(* at: where its thread is in a batch ("none" outside), left: commands not *)
(* carried out yet; last: should_close; role: what roleOf returned.        *)
(***************************************************************************)
Gone == [alive |-> FALSE, started |-> FALSE, open |-> FALSE, auth |-> FALSE,
         rd |-> "none", wr |-> "none", tm |-> "none", queue |-> 0, closing |-> FALSE,
         moved |-> FALSE, at |-> "none", left |-> 0, last |-> FALSE, role |-> "none"]

Roles == {"read", "admin"}

SessionsInit ==
    /\ sess = [s \in Slots |-> Gone]
    /\ userRole = "read"         \* nothing here tells one role from another
    /\ failures = 0 /\ recent = FALSE
    /\ server = "up"
    /\ accepted = 0 /\ batches = 0 /\ reloads = 0
    /\ stale = [s \in Slots |-> 0]

-----------------------------------------------------------------------------
(* The parts of Session the handlers are made of *)

(* ~Session, when the last handler that holds the session is gone; the     *)
(* handlers still queued when the workers are halted go with them.         *)
Settled(r) ==
    IF r.at = "none" /\ (server # "up" \/ (r.rd = "none" /\ r.wr = "none" /\ r.tm = "none"))
    THEN Gone ELSE r

(* close_stream: what waits is cancelled, what is queued already is not. *)
Closed(r) == [r EXCEPT !.open = FALSE,
                       !.rd = IF @ = "wait" THEN "error" ELSE @,
                       !.wr = IF @ = "wait" THEN "error" ELSE @,
                       !.tm = IF @ = "wait" THEN "none" ELSE @]

StartRead(r) == [r EXCEPT !.rd = IF r.open THEN "wait" ELSE "error", !.moved = TRUE]

(* Mutant: the deadline is taken for the time-out itself. *)
WatchedAlways(r) == [r EXCEPT !.tm = "wait"]

(* watch_deadline. *)
Watched(r) == [r EXCEPT !.tm = "wait", !.moved = FALSE]

StartWrite(r) == [r EXCEPT !.wr = IF r.open THEN "wait" ELSE "error"]

(* queue_write. *)
QueueWrite(r, close) ==
    LET q == [r EXCEPT !.queue = @ + 1, !.closing = close]
    IN IF r.queue = 0 THEN StartWrite(q) ELSE q

(* Mutant: the next reply waits for somebody else to start its write. *)
WrittenNoNext(r) ==
    LET q == [r EXCEPT !.queue = @ - 1, !.wr = "none"]
    IN IF q.queue = 0 /\ q.closing THEN Closed(q) ELSE q

(* The handler of do_write, after a write that succeeded. *)
Written(r) ==
    LET q == [r EXCEPT !.queue = @ - 1, !.wr = "none"]
    IN IF q.queue > 0 THEN StartWrite(q) ELSE IF q.closing THEN Closed(q) ELSE q

(* A step of the thread of s, which leaves the session as r. *)
Becomes(s, r) == sess' = [sess EXCEPT ![s] = Settled(r)]

Idle(s) == sess[s].alive /\ sess[s].at = "none" /\ server = "up"

-----------------------------------------------------------------------------
(* Server *)

(* The handler of do_accept; handlers of the acceptor run on one thread. *)
Accept(s) ==
    /\ server = "up" /\ accepted < MaxAccepted            \* bound
    /\ sess[s] = Gone
    /\ Cardinality({q \in Slots : sess[q].alive}) < MaxConnections
    /\ sess' = [sess EXCEPT ![s] = [Gone EXCEPT !.alive = TRUE, !.open = TRUE]]
    /\ accepted' = accepted + 1
    /\ stale' = [stale EXCEPT ![s] = 0]
    /\ UNCHANGED <<shared, server, batches, reloads>>

(* Session::start, dispatched to the session's thread. *)
Start(s) ==
    /\ Idle(s) /\ ~sess[s].started
    /\ LET r == [sess[s] EXCEPT !.started = TRUE] IN
       \/ s \in Faulty /\ Becomes(s, Closed(r))           \* the client has left
       \/ s \in Faulty /\ Becomes(s, QueueWrite(r, TRUE)) \* "unauthorized"
       \/ Becomes(s, StartRead(Watched(r)))
    /\ UNCHANGED <<shared, server, counts>>

(* Server::stop: the acceptor is closed and the workers told to stop, *)
StopServer ==
    /\ server = "up" /\ server' = "halted"
    /\ sess' = [s \in Slots |-> IF sess[s].at = "none" THEN Gone ELSE sess[s]]
    /\ UNCHANGED <<shared, counts>>

(* which end the handler they are in before they are joined. *)
Join ==
    /\ server = "halted" /\ \A s \in Slots : sess[s].at = "none"
    /\ server' = "joined"
    /\ UNCHANGED <<sess, shared, counts>>

-----------------------------------------------------------------------------
(***************************************************************************)
(* The client, the network and the clock.  What completes during a batch   *)
(* is the same to the session as what completes just before it.            *)
(***************************************************************************)

Event(s, r) == Idle(s) /\ sess' = [sess EXCEPT ![s] = r] /\ UNCHANGED <<shared, server>>

Arrives(s) ==
    /\ sess[s].rd = "wait" /\ batches < MaxBatches        \* bound
    /\ batches' = batches + 1
    /\ Event(s, [sess[s] EXCEPT !.rd = "data"])
    /\ UNCHANGED <<accepted, reloads, stale>>

Leaves(s) ==
    /\ s \in Faulty /\ sess[s].rd = "wait"
    /\ Event(s, [sess[s] EXCEPT !.rd = "error"]) /\ UNCHANGED counts

SendEnds(s) ==
    /\ sess[s].wr = "wait"
    /\ \E how \in {"ok"} \cup {h \in {"error"} : s \in Faulty} : Event(s, [sess[s] EXCEPT !.wr = how])
    /\ UNCHANGED counts

TimerExpires(s) ==
    /\ s \in Faulty /\ sess[s].tm = "wait"
    /\ Event(s, [sess[s] EXCEPT !.tm = "fired"]) /\ UNCHANGED counts

(* AUTH_LOCKOUT passes since the last recorded failure. *)
LockoutEnds == server = "up" /\ recent /\ recent' = FALSE /\ UNCHANGED <<sess, userRole, failures, server, counts>>

(* reload by an administrator swaps the users, under usersMtx. *)
Reload(role) ==
    /\ server = "up" /\ reloads < MaxReloads              \* bound
    /\ reloads' = reloads + 1
    /\ userRole' = role
    /\ stale' = [s \in Slots |-> 0]
    /\ UNCHANGED <<sess, failures, recent, server, accepted, batches>>

-----------------------------------------------------------------------------
(* The handlers of a session *)

(* do_read_size and do_read_command up to the loop over the commands. *)
OnRead(s) ==
    LET r == [sess[s] EXCEPT !.rd = "none"] IN
    /\ Idle(s)
    /\ \/ sess[s].rd = "error" /\ Becomes(s, Closed(r))
       \/ /\ s \in Faulty /\ sess[s].rd = "data"
          /\ Becomes(s, QueueWrite(r, TRUE))               \* too large
       \/ sess[s].rd = "data" /\ \E n \in BatchSizes :
             Becomes(s, [r EXCEPT !.at = "command", !.left = n, !.last = FALSE])
    /\ UNCHANGED <<shared, server, counts>>

(* do_write's handler. *)
OnWrite(s) ==
    /\ Idle(s)
    /\ \/ sess[s].wr = "ok" /\ Becomes(s, Written(sess[s]))
       \/ sess[s].wr = "error" /\ Becomes(s, Closed([sess[s] EXCEPT !.wr = "none"]))
    /\ UNCHANGED <<shared, server, counts>>

(* watch_deadline's handler; a deadline that was moved may have passed too. *)
OnTimer(s) ==
    LET r == [sess[s] EXCEPT !.tm = "none"] IN
    /\ Idle(s) /\ sess[s].tm = "fired"
    /\ \/ Becomes(s, Closed(r))
       \/ sess[s].moved /\ Becomes(s, Watched(r))
    /\ UNCHANGED <<shared, server, counts>>

(* Mutant: one failure more is allowed. *)
AuthAllowedOneMore == failures <= MaxFailures \/ ~recent

(* authAllowed. *)
AuthAllowed == failures < MaxFailures \/ ~recent

(***************************************************************************)
(* handle_command up to its first critical section: authAllowed for a      *)
(* session that is not authenticated, roleOf for one that is.  A command   *)
(* that ends the session is answered and the rest of the batch dropped.    *)
(***************************************************************************)
Command(s) ==
    LET r == sess[s] IN
    /\ r.at = "command"
    /\ \/ (r.left = 0 \/ r.last) /\ Becomes(s, [r EXCEPT !.at = "reply"])
       \/ /\ r.left > 0 /\ ~r.last /\ ~r.auth
          /\ \/ Becomes(s, [r EXCEPT !.last = TRUE])      \* no authorization
             \/ ~AuthAllowed /\ Becomes(s, [r EXCEPT !.last = TRUE])
             \/ AuthAllowed /\ Becomes(s, [r EXCEPT !.at = "token"])
       \/ /\ r.left > 0 /\ ~r.last /\ r.auth
          /\ Becomes(s, IF userRole = "none" THEN [r EXCEPT !.last = TRUE]
                        ELSE [r EXCEPT !.at = "exec", !.role = userRole])
    /\ UNCHANGED <<shared, server, counts>>

(* authenticate; the token may be right only of a user that exists. *)
Authenticate(s) ==
    /\ sess[s].at = "token"
    /\ \/ userRole # "none" /\ Becomes(s, [sess[s] EXCEPT !.at = "right"])
       \/ Becomes(s, [sess[s] EXCEPT !.at = "wrong"])
    /\ UNCHANGED <<shared, server, counts>>

(* recordAuthResult; failures older than the lock-out are forgotten. *)
RecordAuthResult(s) ==
    LET r == [sess[s] EXCEPT !.at = "command", !.left = @ - 1] IN
    /\ \/ /\ sess[s].at = "right"
          /\ failures' = 0 /\ recent' = FALSE
          /\ Becomes(s, [r EXCEPT !.auth = TRUE])
       \/ /\ sess[s].at = "wrong"
          /\ failures' = IF recent THEN failures + 1 ELSE 1
          /\ recent' = TRUE
          /\ Becomes(s, [r EXCEPT !.last = TRUE])
    /\ UNCHANGED <<userRole, server, counts>>

(* Mutant: the role is looked up once for a batch. *)
NextCommandSameRole(r) == [r EXCEPT !.left = @ - 1, !.at = IF r.left > 1 THEN "exec" ELSE "command"]

(* The loop goes on to the next command. *)
NextCommand(r) == [r EXCEPT !.left = @ - 1, !.at = "command", !.role = "none"]

(* execCmd, with the role found before. *)
Exec(s) ==
    /\ sess[s].at = "exec"
    /\ stale' = [stale EXCEPT ![s] = IF sess[s].role = userRole THEN @ ELSE @ + 1]
    /\ Becomes(s, NextCommand(sess[s]))
    /\ UNCHANGED <<shared, server, accepted, batches, reloads>>

(* The end of do_read_command: syncWAL fails, or the replies are queued. *)
Reply(s) ==
    LET r == [sess[s] EXCEPT !.at = "none", !.left = 0]
        q == QueueWrite(r, r.last) IN
    /\ sess[s].at = "reply"
    /\ \/ Becomes(s, Closed(r))
       \/ Becomes(s, IF r.last THEN q ELSE StartRead(q))
    /\ UNCHANGED <<shared, server, counts>>

Handler(s) == Start(s) \/ OnRead(s) \/ OnWrite(s) \/ OnTimer(s) \/ Command(s)
    \/ Authenticate(s) \/ RecordAuthResult(s) \/ Exec(s) \/ Reply(s)

SessionsNext ==
    \/ \E s \in Slots : Accept(s) \/ Handler(s)
    \/ \E s \in Slots : Arrives(s) \/ Leaves(s) \/ SendEnds(s) \/ TimerExpires(s)
    \/ LockoutEnds
    \/ \E role \in Roles \cup {"none"} : Reload(role)
    \/ StopServer
    \/ Join

(* The reply to a refused address, short enough for any socket's buffer. *)
RefusalSent(s) == sess[s].tm = "none" /\ sess[s].open /\ SendEnds(s)

(***************************************************************************)
(* Threads run what is queued, and clocks go on.  Nothing is assumed of    *)
(* the client: it may never send, and never read what it is sent.          *)
(***************************************************************************)
SessionsSpec ==
    /\ SessionsInit /\ [][SessionsNext]_vars
    /\ \A s \in Slots : WF_vars(Handler(s)) /\ WF_vars(TimerExpires(s)) /\ WF_vars(RefusalSent(s))
    /\ WF_vars(Join)

-----------------------------------------------------------------------------
(* Properties *)

(***************************************************************************)
(* The check of the failures and the count of one more are two critical    *)
(* sections, so sessions may pass the check together; but each session     *)
(* has one attempt at a time, so no more than one per session, the first   *)
(* included, gets beyond the last failure that is allowed.  "A user is     *)
(* locked out for 60 seconds after 5 failed authentications" (README:82):  *)
(* the bound is looser than that, by one for each session but the first.   *)
(***************************************************************************)
FailuresBounded == failures <= MaxFailures - 1 + Cardinality(Slots)

(***************************************************************************)
(* A reload applies to open sessions: of each session at most the one      *)
(* command that was between roleOf and execCmd is carried out with the     *)
(* role of before.                                                         *)
(***************************************************************************)
ReloadApplies == \A s \in Slots : stale[s] <= 1

(***************************************************************************)
(* No reply gets stuck: while the connection is open, a reply in the write *)
(* queue has a write that waits or whose handler is queued, whichever      *)
(* order the handlers of reads, writes and the timer run in; and a write   *)
(* is about the front of a queue that is not empty.                        *)
(***************************************************************************)
RepliesMove ==
    \A s \in Slots : /\ sess[s].open /\ sess[s].queue > 0 => sess[s].wr # "none"
                     /\ sess[s].wr # "none" => sess[s].queue > 0

(***************************************************************************)
(* Every session ends and gives its place back, although its client may do *)
(* nothing for ever: by the deadline, also when the timer's handler was    *)
(* queued before the connection was closed, and when the server stops      *)
(* while the session is in a batch.                                        *)
(***************************************************************************)
SessionsEnd == \A s \in Faulty : sess[s].alive ~> ~sess[s].alive

(***************************************************************************)
(* The inductive invariant.  While the lock-out is on, the failures and    *)
(* the attempts under way together stay within the bound; a session about  *)
(* to act with a role that a reload has taken away has not done so yet.    *)
(***************************************************************************)
Session ==
    [alive : BOOLEAN, started : BOOLEAN, open : BOOLEAN, auth : BOOLEAN,
     rd : {"none", "wait", "data", "error"}, wr : {"none", "wait", "ok", "error"},
     tm : {"none", "wait", "fired"}, queue : Nat, closing : BOOLEAN, moved : BOOLEAN,
     at : {"none", "command", "token", "right", "wrong", "exec", "reply"},
     left : Int, last : BOOLEAN, role : Roles \cup {"none"}]

SessionsTypeOK ==
    /\ sess \in [Slots -> Session]
    /\ userRole \in Roles \cup {"none"} /\ failures \in Nat /\ recent \in BOOLEAN
    /\ stale \in [Slots -> Nat]

(* The sessions between authAllowed and recordAuthResult. *)
Attempting == {s \in Slots : sess[s].at \in {"token", "right", "wrong"}}

LockoutHolds == recent => failures + Cardinality(Attempting) <= MaxFailures - 1 + Cardinality(Slots)

OldRoleUnused == \A s \in Slots : sess[s].at = "exec" /\ sess[s].role # userRole => stale[s] = 0

SessionsInv ==
    /\ SessionsTypeOK /\ RepliesMove
    /\ FailuresBounded /\ LockoutHolds
    /\ ReloadApplies /\ OldRoleUnused
=============================================================================
