--------------------------- MODULE Sessions_proofs ---------------------------
(***************************************************************************)
(* Lock-out, reload and write queue for any number of sessions, failures   *)
(* allowed and connections.                                                *)
(***************************************************************************)
EXTENDS Sessions, FiniteSetTheorems, TLAPS

(* RepliesMove of one session. *)
Moves(r) == /\ r.open /\ r.queue > 0 => r.wr # "none"
            /\ r.wr # "none" => r.queue > 0

(* r has become q, and its thread is where it was. *)
Keeps(r, q) == q \in Session /\ Moves(q) /\ q.at = r.at /\ q.role = r.role

-----------------------------------------------------------------------------
(* The parts of the handlers *)

LEMMA GoneMoves == Gone \in Session /\ Moves(Gone) /\ Gone.at = "none"
BY DEF Gone, Session, Moves, Roles

(* close_stream cancels the write that waits and leaves it a handler. *)
LEMMA ClosedKeeps ==
  ASSUME NEW r \in Session, r.wr # "none" => r.queue > 0
  PROVE  Keeps(r, Closed(r))
<1>1. Closed(r) \in Session
  <2> DEFINE rd2 == IF r.rd = "wait" THEN "error" ELSE r.rd
             wr2 == IF r.wr = "wait" THEN "error" ELSE r.wr
             tm2 == IF r.tm = "wait" THEN "none" ELSE r.tm
  <2>1. /\ rd2 \in {"none", "wait", "data", "error"} /\ tm2 \in {"none", "wait", "fired"}
        /\ wr2 \in {"none", "wait", "ok", "error"}
    BY DEF Session
  <2>2. Closed(r) = [r EXCEPT !.open = FALSE, !.rd = rd2, !.wr = wr2, !.tm = tm2]
    BY DEF Closed
  <2> HIDE DEF rd2, wr2, tm2
  <2>3. [r EXCEPT !.open = FALSE, !.rd = rd2, !.wr = wr2, !.tm = tm2] \in Session
    BY ZenonT(40), <2>1 DEF Session
  <2> QED
    BY <2>2, <2>3
<1>2. /\ Closed(r).open = FALSE /\ Closed(r).queue = r.queue
      /\ Closed(r).wr # "none" => r.wr # "none"
      /\ Closed(r).at = r.at /\ Closed(r).role = r.role
  BY DEF Closed, Session
<1> QED
  BY <1>1, <1>2 DEF Keeps, Moves

LEMMA StartReadKeeps ==
  ASSUME NEW r \in Session, Moves(r)
  PROVE  Keeps(r, StartRead(r))
BY DEF Keeps, StartRead, Session, Moves

LEMMA WatchedKeeps ==
  ASSUME NEW r \in Session, Moves(r)
  PROVE  Keeps(r, Watched(r))
BY DEF Keeps, Watched, Session, Moves

(* queue_write starts a write exactly when none is under way. *)
LEMMA QueueWriteKeeps ==
  ASSUME NEW r \in Session, Moves(r), NEW close \in BOOLEAN
  PROVE  Keeps(r, QueueWrite(r, close))
<1> DEFINE q == [r EXCEPT !.queue = @ + 1, !.closing = close]
<1>0. r.queue + 1 \in Nat /\ r.queue + 1 > 0
  BY DEF Session
<1>1. /\ q \in Session /\ q.queue = r.queue + 1 /\ q.queue > 0
      /\ q.wr = r.wr /\ q.open = r.open /\ q.at = r.at /\ q.role = r.role
  BY <1>0 DEF Session
<1>2. CASE r.queue = 0
  <2>1. QueueWrite(r, close) = StartWrite(q)
    BY <1>2 DEF QueueWrite
  <2> HIDE DEF q
  <2>2. Keeps(r, StartWrite(q))
    BY <1>1 DEF Keeps, StartWrite, Session, Moves
  <2> QED
    BY <2>1, <2>2
<1>3. CASE r.queue # 0
  <2>1. QueueWrite(r, close) = q
    BY <1>3 DEF QueueWrite
  <2>2. r.queue > 0
    BY <1>3 DEF Session
  <2> HIDE DEF q
  <2> QED
    BY <1>1, <2>1, <2>2 DEF Keeps, Moves
<1> QED
  BY <1>2, <1>3

(* The handler of a write starts the next or leaves the queue empty. *)
LEMMA WrittenKeeps ==
  ASSUME NEW r \in Session, Moves(r), r.wr # "none"
  PROVE  Keeps(r, Written(r))
<1> DEFINE q == [r EXCEPT !.queue = @ - 1, !.wr = "none"]
<1>0. r.queue - 1 \in Nat
  BY DEF Session, Moves
<1>1. /\ q \in Session /\ q.wr = "none" /\ q.at = r.at /\ q.role = r.role
  BY <1>0 DEF Session
<1>2. Written(r) = IF q.queue > 0 THEN StartWrite(q) ELSE IF q.closing THEN Closed(q) ELSE q
  BY DEF Written
<1> HIDE DEF q
<1>3. q.queue > 0 => Keeps(r, StartWrite(q))
  BY <1>1 DEF Keeps, StartWrite, Session, Moves
<1>4. Keeps(r, Closed(q))
  BY <1>1, ClosedKeeps DEF Keeps
<1>5. ~(q.queue > 0) => Keeps(r, q)
  BY <1>1 DEF Keeps, Moves
<1> QED
  BY <1>2, <1>3, <1>4, <1>5

(* The last handler's end is the session's end. *)
LEMMA SettledMoves ==
  ASSUME NEW r \in Session, Moves(r)
  PROVE  /\ Settled(r) \in Session /\ Moves(Settled(r)) /\ Settled(r).at = r.at
         /\ r.at # "none" => Settled(r) = r
BY GoneMoves DEF Settled

-----------------------------------------------------------------------------
(* What steps do to all sessions *)

Typed(f) == f \in [Slots -> Session] /\ \A s \in Slots : Moves(f[s])

LEMMA InvTyped == SessionsInv => Typed(sess)
BY DEF SessionsInv, SessionsTypeOK, RepliesMove, Typed, Moves

(* Attempts under way are sessions. *)
LEMMA AttemptsCounted ==
  ASSUME NEW S \in SUBSET Slots
  PROVE  /\ IsFiniteSet(S) /\ Cardinality(S) \in Nat /\ Cardinality(Slots) \in Nat
         /\ Cardinality(S) <= Cardinality(Slots)
         /\ \A s \in S : Cardinality(S \ {s}) = Cardinality(S) - 1
         /\ \A T \in SUBSET S : Cardinality(T) \in Nat /\ Cardinality(T) <= Cardinality(S)
<1>1. IsFiniteSet(Slots)
  BY SessionsAssumption
<1>2. IsFiniteSet(S)
  BY <1>1, FS_Subset
<1>3. \A T \in SUBSET S : IsFiniteSet(T)
  BY <1>2, FS_Subset
<1> QED
  BY <1>1, <1>2, <1>3, FS_Subset, FS_CardinalityType, FS_RemoveElement

(***************************************************************************)
(* A step that begins no attempt and no command, and changes neither the   *)
(* users nor the failures, keeps the invariant.                            *)
(***************************************************************************)
LEMMA QuietInv ==
  ASSUME SessionsInv, Typed(sess)', UNCHANGED <<userRole, failures>>,
         recent' \in {recent, FALSE}, stale' \in [Slots -> Nat],
         \A q \in Slots : stale'[q] \in {stale[q], 0},
         \A q \in Slots : \/ sess'[q].at \in {"none", "command", "reply"}
                          \/ sess'[q].at = sess[q].at /\ sess'[q].role = sess[q].role
  PROVE  SessionsInv'
<1>1. SessionsTypeOK' /\ RepliesMove'
  BY DEF SessionsInv, SessionsTypeOK, Typed, Moves, RepliesMove
<1>2. ReloadApplies' /\ OldRoleUnused'
  BY DEF SessionsInv, SessionsTypeOK, ReloadApplies, OldRoleUnused
<1>3. Attempting' \subseteq Attempting
  BY DEF Attempting
<1>4. /\ Cardinality(Attempting') <= Cardinality(Attempting)
      /\ Cardinality(Attempting') \in Nat /\ Cardinality(Attempting) \in Nat
      /\ Cardinality(Slots) \in Nat
  BY <1>3, AttemptsCounted DEF Attempting
<1>5. failures \in Nat /\ failures' = failures /\ MaxFailures \in Nat
  BY SessionsAssumption DEF SessionsInv, SessionsTypeOK
<1>6. FailuresBounded'
  BY <1>5 DEF SessionsInv, FailuresBounded
<1>7. recent' => failures' + Cardinality(Attempting') <= MaxFailures - 1 + Cardinality(Slots)
  <2>1. CASE recent' = recent
    BY <2>1, <1>4, <1>5 DEF SessionsInv, LockoutHolds
  <2>2. CASE recent' = FALSE
    BY <2>2
  <2> QED
    BY <2>1, <2>2
<1>8. LockoutHolds'
  BY <1>7 DEF LockoutHolds
<1> QED
  BY <1>1, <1>2, <1>6, <1>8 DEF SessionsInv

(* A step of the thread of one session. *)
LEMMA BecomesTyped ==
  ASSUME Typed(sess), NEW s \in Slots, NEW r \in Session, Moves(r), Becomes(s, r)
  PROVE  /\ Typed(sess)' /\ sess'[s].at = r.at
         /\ r.at # "none" => sess'[s] = r
         /\ \A q \in Slots \ {s} : sess'[q] = sess[q]
BY SettledMoves DEF Typed, Becomes

(* The same, when the thread comes to no critical section of ZestDB. *)
LEMMA QuietBecomes ==
  ASSUME SessionsInv, NEW s \in Slots, NEW r \in Session, Moves(r), Becomes(s, r),
         UNCHANGED <<shared, stale>>,
         r.at \in {"none", "command", "reply"} \/ (r.at = sess[s].at /\ r.role = sess[s].role)
  PROVE  SessionsInv'
<1>1. Typed(sess)
  BY InvTyped
<1>2. /\ Typed(sess)' /\ sess'[s].at = r.at
      /\ r.at # "none" => sess'[s] = r
      /\ \A q \in Slots \ {s} : sess'[q] = sess[q]
  BY <1>1, BecomesTyped
<1>3. \A q \in Slots : \/ sess'[q].at \in {"none", "command", "reply"}
                       \/ sess'[q].at = sess[q].at /\ sess'[q].role = sess[q].role
  BY <1>2
<1>4. /\ UNCHANGED <<userRole, failures>> /\ recent' = recent
      /\ stale' \in [Slots -> Nat] /\ stale' = stale
  BY DEF shared, SessionsInv, SessionsTypeOK
<1> QED
  BY <1>2, <1>3, <1>4, QuietInv

(* Completing an operation changes nothing but the operation. *)
LEMMA EventInv ==
  ASSUME SessionsInv, NEW s \in Slots, NEW r, Event(s, r), Keeps(sess[s], r), UNCHANGED stale
  PROVE  SessionsInv'
<1>1. Typed(sess)
  BY InvTyped
<1>2. sess' = [sess EXCEPT ![s] = r] /\ UNCHANGED <<userRole, failures, recent>>
  BY DEF Event, shared
<1>3. Typed(sess)'
  BY <1>1, <1>2 DEF Typed, Keeps
<1>4. \A q \in Slots : sess'[q].at = sess[q].at /\ sess'[q].role = sess[q].role
  BY <1>1, <1>2 DEF Typed, Keeps
<1>5. stale' \in [Slots -> Nat]
  BY DEF SessionsInv, SessionsTypeOK
<1> QED
  BY <1>2, <1>3, <1>4, <1>5, QuietInv

-----------------------------------------------------------------------------
(* The server, the client, the network and the clock *)

LEMMA InitInv == SessionsInit => SessionsInv
<1> SUFFICES ASSUME SessionsInit PROVE SessionsInv
  OBVIOUS
<1>1. \A s \in Slots : sess[s] = Gone /\ stale[s] = 0
  BY DEF SessionsInit
<1>2. SessionsTypeOK /\ RepliesMove
  BY <1>1, GoneMoves DEF SessionsInit, SessionsTypeOK, RepliesMove, Moves, Roles
<1>3. ReloadApplies /\ OldRoleUnused
  BY <1>1 DEF ReloadApplies, OldRoleUnused, Gone
<1>4. Cardinality(Slots) \in Nat /\ MaxFailures \in Nat \ {0}
  BY AttemptsCounted, SessionsAssumption
<1>5. FailuresBounded /\ LockoutHolds
  BY <1>4 DEF SessionsInit, FailuresBounded, LockoutHolds
<1> QED
  BY <1>2, <1>3, <1>5 DEF SessionsInv

LEMMA AcceptInv == ASSUME SessionsInv, NEW s \in Slots, Accept(s) PROVE SessionsInv'
<1> DEFINE r == [Gone EXCEPT !.alive = TRUE, !.open = TRUE]
<1>0. Gone.queue = 0 /\ Gone.wr = "none" /\ Gone.at = "none"
  BY DEF Gone
<1>0a. \A g \in Session : /\ [g EXCEPT !.alive = TRUE, !.open = TRUE] \in Session
                        /\ [g EXCEPT !.alive = TRUE, !.open = TRUE].queue = g.queue
                        /\ [g EXCEPT !.alive = TRUE, !.open = TRUE].wr = g.wr
                        /\ [g EXCEPT !.alive = TRUE, !.open = TRUE].at = g.at
  BY DEF Session
<1>0b. r \in Session /\ r.queue = 0 /\ r.wr = "none" /\ r.at = "none"
  BY <1>0, <1>0a, GoneMoves
<1>1. r \in Session /\ Moves(r) /\ r.at = "none"
  BY <1>0b DEF Moves
<1>2. /\ sess' = [sess EXCEPT ![s] = r] /\ stale' = [stale EXCEPT ![s] = 0]
      /\ UNCHANGED <<userRole, failures, recent>>
  BY DEF Accept, shared
<1> HIDE DEF r
<1>3. Typed(sess)
  BY InvTyped
<1>4. Typed(sess)'
  BY <1>1, <1>2, <1>3 DEF Typed
<1>5. \A q \in Slots : sess'[q].at = "none" \/ sess'[q] = sess[q]
  BY <1>1, <1>2, <1>3 DEF Typed
<1>6. stale' \in [Slots -> Nat] /\ \A q \in Slots : stale'[q] \in {stale[q], 0}
  BY <1>2 DEF SessionsInv, SessionsTypeOK
<1> QED
  BY <1>2, <1>4, <1>5, <1>6, QuietInv

LEMMA StopInv == ASSUME SessionsInv, StopServer PROVE SessionsInv'
<1>1. Typed(sess)
  BY InvTyped
<1>2. sess' = [s \in Slots |-> IF sess[s].at = "none" THEN Gone ELSE sess[s]]
  BY DEF StopServer
<1>3. /\ Typed(sess)'
      /\ \A q \in Slots : sess'[q].at = sess[q].at /\ (sess[q].at # "none" => sess'[q] = sess[q])
  BY <1>1, <1>2, GoneMoves DEF Typed
<1>4. UNCHANGED <<userRole, failures, recent, stale>> /\ stale' \in [Slots -> Nat]
  BY DEF StopServer, shared, counts, SessionsInv, SessionsTypeOK
<1> QED
  BY <1>3, <1>4, QuietInv

LEMMA StaysInv ==
  ASSUME SessionsInv, UNCHANGED <<sess, userRole, failures, stale>>, recent' \in {recent, FALSE}
  PROVE  SessionsInv'
<1>1. Typed(sess)
  BY InvTyped
<1>2. Typed(sess)' /\ stale' \in [Slots -> Nat]
  BY <1>1 DEF Typed, SessionsInv, SessionsTypeOK
<1> QED
  BY <1>2, QuietInv

(* What the system completes: an operation that waits, with a result. *)
LEMMA CompletionKeeps ==
  ASSUME NEW r \in Session, Moves(r)
  PROVE  /\ \A x \in {"data", "error"} : Keeps(r, [r EXCEPT !.rd = x])
         /\ r.wr = "wait" => \A x \in {"ok", "error"} : Keeps(r, [r EXCEPT !.wr = x])
         /\ Keeps(r, [r EXCEPT !.tm = "fired"])
BY DEF Keeps, Session, Moves

LEMMA EventsInv ==
  ASSUME SessionsInv, NEW s \in Slots, Arrives(s) \/ Leaves(s) \/ SendEnds(s) \/ TimerExpires(s)
  PROVE  SessionsInv'
<1>1. sess[s] \in Session /\ Moves(sess[s])
  BY InvTyped DEF Typed
<1>2. CASE Arrives(s)
  BY <1>1, <1>2, CompletionKeeps, EventInv DEF Arrives
<1>3. CASE Leaves(s)
  BY <1>1, <1>3, CompletionKeeps, EventInv DEF Leaves, counts
<1>4. CASE SendEnds(s)
  <2>1. PICK how \in {"ok", "error"} : Event(s, [sess[s] EXCEPT !.wr = how])
    BY <1>4 DEF SendEnds
  <2> QED
    BY <1>1, <1>4, <2>1, CompletionKeeps, EventInv DEF SendEnds, counts
<1>5. CASE TimerExpires(s)
  BY <1>1, <1>5, CompletionKeeps, EventInv DEF TimerExpires, counts
<1> QED
  BY <1>2, <1>3, <1>4, <1>5

(* A reload begins the count of commands with an old role anew. *)
LEMMA ReloadInv ==
  ASSUME SessionsInv, NEW role \in Roles \cup {"none"}, Reload(role)
  PROVE  SessionsInv'
<1>1. /\ userRole' = role /\ stale' = [s \in Slots |-> 0]
      /\ UNCHANGED <<sess, failures, recent>>
  BY DEF Reload
<1>2. SessionsTypeOK' /\ RepliesMove' /\ ReloadApplies' /\ OldRoleUnused'
  BY <1>1 DEF SessionsInv, SessionsTypeOK, RepliesMove, ReloadApplies, OldRoleUnused
<1>3. FailuresBounded' /\ LockoutHolds'
  BY <1>1 DEF SessionsInv, FailuresBounded, LockoutHolds, Attempting
<1> QED
  BY <1>2, <1>3 DEF SessionsInv

-----------------------------------------------------------------------------
(* The handlers *)

LEMMA StartInv == ASSUME SessionsInv, NEW s \in Slots, Start(s) PROVE SessionsInv'
<1> DEFINE r == [sess[s] EXCEPT !.started = TRUE]
<1>1. sess[s] \in Session /\ Moves(sess[s])
  BY InvTyped DEF Typed
<1>2. Keeps(sess[s], r)
  BY <1>1 DEF Session, Moves, Keeps
<1>3. UNCHANGED <<shared, stale>>
  BY DEF Start, counts
<1>4. Becomes(s, Closed(r)) \/ Becomes(s, QueueWrite(r, TRUE)) \/ Becomes(s, StartRead(Watched(r)))
  BY DEF Start
<1> HIDE DEF r
<1>5. Keeps(r, Closed(r)) /\ Keeps(r, QueueWrite(r, TRUE))
  BY <1>2, ClosedKeeps, QueueWriteKeeps DEF Keeps, Moves
<1>6. Keeps(r, Watched(r))
  BY <1>2, WatchedKeeps DEF Keeps
<1>7. Keeps(Watched(r), StartRead(Watched(r)))
  BY <1>6, StartReadKeeps DEF Keeps
<1> QED
  BY <1>2, <1>3, <1>4, <1>5, <1>6, <1>7, QuietBecomes DEF Keeps

LEMMA OnReadInv == ASSUME SessionsInv, NEW s \in Slots, OnRead(s) PROVE SessionsInv'
<1> DEFINE r == [sess[s] EXCEPT !.rd = "none"]
<1>1. sess[s] \in Session /\ Moves(sess[s])
  BY InvTyped DEF Typed
<1>2. Keeps(sess[s], r)
  BY <1>1 DEF Session, Moves, Keeps
<1>3. UNCHANGED <<shared, stale>>
  BY DEF OnRead, counts
<1>4. \/ Becomes(s, Closed(r)) \/ Becomes(s, QueueWrite(r, TRUE))
      \/ \E n \in BatchSizes : Becomes(s, [r EXCEPT !.at = "command", !.left = n, !.last = FALSE])
  BY DEF OnRead
<1> HIDE DEF r
<1>5. Keeps(r, Closed(r)) /\ Keeps(r, QueueWrite(r, TRUE))
  BY <1>2, ClosedKeeps, QueueWriteKeeps DEF Keeps, Moves
<1>6. CASE Becomes(s, Closed(r)) \/ Becomes(s, QueueWrite(r, TRUE))
  BY <1>2, <1>3, <1>5, <1>6, QuietBecomes DEF Keeps
<1>7. ASSUME NEW n \in BatchSizes, Becomes(s, [r EXCEPT !.at = "command", !.left = n, !.last = FALSE])
      PROVE  SessionsInv'
  <2>1. n \in Int
    BY SessionsAssumption
  <2> DEFINE q == [r EXCEPT !.at = "command", !.left = n, !.last = FALSE]
  <2>2. q \in Session /\ Moves(q) /\ q.at = "command"
    BY ZenonT(40), <1>2, <2>1 DEF Session, Moves, Keeps
  <2> HIDE DEF q
  <2> QED
    BY <1>3, <1>7, <2>2, QuietBecomes DEF q
<1> QED
  BY <1>4, <1>6, <1>7

LEMMA OnWriteInv == ASSUME SessionsInv, NEW s \in Slots, OnWrite(s) PROVE SessionsInv'
<1> DEFINE r == [sess[s] EXCEPT !.wr = "none"]
<1>1. sess[s] \in Session /\ Moves(sess[s])
  BY InvTyped DEF Typed
<1>2. r \in Session /\ r.wr = "none" /\ r.at = sess[s].at /\ r.role = sess[s].role
  BY <1>1 DEF Session
<1>3. UNCHANGED <<shared, stale>>
  BY DEF OnWrite, counts
<1>4. (sess[s].wr = "ok" /\ Becomes(s, Written(sess[s]))) \/ Becomes(s, Closed(r))
  BY DEF OnWrite
<1> HIDE DEF r
<1>5. Keeps(r, Closed(r))
  BY <1>2, ClosedKeeps
<1>6. sess[s].wr = "ok" => Keeps(sess[s], Written(sess[s]))
  BY <1>1, WrittenKeeps
<1> QED
  BY <1>2, <1>3, <1>4, <1>5, <1>6, QuietBecomes DEF Keeps

LEMMA OnTimerInv == ASSUME SessionsInv, NEW s \in Slots, OnTimer(s) PROVE SessionsInv'
<1> DEFINE r == [sess[s] EXCEPT !.tm = "none"]
<1>1. sess[s] \in Session /\ Moves(sess[s])
  BY InvTyped DEF Typed
<1>2. Keeps(sess[s], r)
  BY <1>1 DEF Session, Moves, Keeps
<1>3. UNCHANGED <<shared, stale>>
  BY DEF OnTimer, counts
<1>4. Becomes(s, Closed(r)) \/ Becomes(s, Watched(r))
  BY DEF OnTimer
<1> HIDE DEF r
<1>5. Keeps(r, Closed(r)) /\ Keeps(r, Watched(r))
  BY <1>2, ClosedKeeps, WatchedKeeps DEF Keeps, Moves
<1> QED
  BY <1>2, <1>3, <1>4, <1>5, QuietBecomes DEF Keeps

LEMMA ReplyInv == ASSUME SessionsInv, NEW s \in Slots, Reply(s) PROVE SessionsInv'
<1> DEFINE r == [sess[s] EXCEPT !.at = "none", !.left = 0]
           q == QueueWrite(r, r.last)
<1>1. sess[s] \in Session /\ Moves(sess[s])
  BY InvTyped DEF Typed
<1>2. r \in Session /\ Moves(r) /\ r.at = "none" /\ r.last \in BOOLEAN
  <2>0. \A n \in Int : LET g == [sess[s] EXCEPT !.at = "none", !.left = n]
                      IN /\ g \in Session /\ g.at = "none"
                         /\ g.open = sess[s].open /\ g.queue = sess[s].queue /\ g.wr = sess[s].wr
    BY <1>1 DEF Session
  <2>1. r \in Session /\ r.at = "none" /\ r.open = sess[s].open /\ r.queue = sess[s].queue /\ r.wr = sess[s].wr
    <3>1. PICK n \in Int : n = 0
      OBVIOUS
    <3>2. r = [sess[s] EXCEPT !.at = "none", !.left = n]
      BY <3>1
    <3> QED
      BY <2>0, <3>2
  <2> HIDE DEF r
  <2>2. r.last \in BOOLEAN
    BY <2>1 DEF Session
  <2> QED
    BY <1>1, <2>1, <2>2 DEF Moves
<1>3. UNCHANGED <<shared, stale>>
  BY DEF Reply, counts
<1>4. Becomes(s, Closed(r)) \/ Becomes(s, q) \/ Becomes(s, StartRead(q))
  BY DEF Reply
<1> HIDE DEF r
<1>5. Keeps(r, Closed(r)) /\ Keeps(r, q)
  BY <1>2, ClosedKeeps, QueueWriteKeeps DEF Moves
<1> HIDE DEF q
<1>6. Keeps(q, StartRead(q))
  BY <1>5, StartReadKeeps DEF Keeps
<1> QED
  BY <1>2, <1>3, <1>4, <1>5, <1>6, QuietBecomes DEF Keeps

-----------------------------------------------------------------------------
(* The critical sections of ZestDB *)

(***************************************************************************)
(* A step of one session that moves attempts, failures or roles: what is   *)
(* left to show is about this session and the counts.                      *)
(***************************************************************************)
LEMMA SectionInv ==
  ASSUME SessionsInv, NEW s \in Slots, NEW r \in Session, Moves(r), Becomes(s, r), r.at # "none",
         userRole' = userRole, failures' \in Nat, recent' \in BOOLEAN,
         stale' \in [Slots -> Nat], \A q \in Slots \ {s} : stale'[q] = stale[q],
         stale'[s] <= 1, r.at = "exec" /\ r.role # userRole => stale'[s] = 0,
         FailuresBounded', LockoutHolds'
  PROVE  SessionsInv'
<1>1. Typed(sess)
  BY InvTyped
<1>2. Typed(sess)' /\ sess'[s] = r /\ \A q \in Slots \ {s} : sess'[q] = sess[q]
  BY <1>1, BecomesTyped
<1>3. SessionsTypeOK' /\ RepliesMove'
  BY <1>2 DEF SessionsInv, SessionsTypeOK, RepliesMove, Typed, Moves
<1>4. ReloadApplies'
  BY DEF SessionsInv, ReloadApplies
<1>5. OldRoleUnused'
  BY <1>2 DEF SessionsInv, OldRoleUnused
<1> QED
  BY <1>3, <1>4, <1>5 DEF SessionsInv

(* The attempts under way after a step of session s to r. *)
LEMMA SectionAttempts ==
  ASSUME SessionsInv, NEW s \in Slots, NEW r \in Session, Moves(r), Becomes(s, r)
  PROVE  Attempting' = IF r.at \in {"token", "right", "wrong"} THEN Attempting \cup {s} ELSE Attempting \ {s}
<1>1. Typed(sess)
  BY InvTyped
<1>2. sess'[s].at = r.at /\ \A q \in Slots \ {s} : sess'[q] = sess[q]
  BY <1>1, BecomesTyped
<1> QED
  BY <1>2 DEF Attempting

(* authAllowed lets a session begin an attempt; roleOf gives it its role. *)
LEMMA CommandInv == ASSUME SessionsInv, NEW s \in Slots, Command(s) PROVE SessionsInv'
<1> DEFINE r == sess[s]
<1>1. r \in Session /\ Moves(r) /\ r.at = "command"
  BY InvTyped DEF Typed, Command
<1>2. UNCHANGED <<shared, stale>> /\ UNCHANGED <<userRole, failures, recent>>
  BY DEF Command, counts, shared
<1>3. /\ userRole \in Roles \cup {"none"} /\ failures \in Nat /\ recent \in BOOLEAN
      /\ stale \in [Slots -> Nat] /\ stale[s] <= 1
  BY DEF SessionsInv, SessionsTypeOK, ReloadApplies
<1>4. \/ Becomes(s, [r EXCEPT !.at = "reply"]) \/ Becomes(s, [r EXCEPT !.last = TRUE])
      \/ AuthAllowed /\ Becomes(s, [r EXCEPT !.at = "token"])
      \/ userRole # "none" /\ Becomes(s, [r EXCEPT !.at = "exec", !.role = userRole])
  BY DEF Command
<1> HIDE DEF r
<1>5. CASE Becomes(s, [r EXCEPT !.at = "reply"])
  <2>1. LET q == [r EXCEPT !.at = "reply"] IN q \in Session /\ Moves(q) /\ q.at = "reply"
    BY <1>1 DEF Session, Moves
  <2> QED
    BY <1>2, <1>5, <2>1, QuietBecomes
<1>6. CASE Becomes(s, [r EXCEPT !.last = TRUE])
  <2>1. LET q == [r EXCEPT !.last = TRUE] IN q \in Session /\ Moves(q) /\ q.at = "command"
    BY <1>1 DEF Session, Moves
  <2> QED
    BY <1>2, <1>6, <2>1, QuietBecomes
<1>7. CASE AuthAllowed /\ Becomes(s, [r EXCEPT !.at = "token"])
  <2> DEFINE q == [r EXCEPT !.at = "token"]
  <2>1. q \in Session /\ Moves(q) /\ q.at = "token"
    BY <1>1 DEF Session, Moves
  <2>2. Becomes(s, q) /\ (failures < MaxFailures \/ ~recent)
    BY <1>7 DEF AuthAllowed
  <2> HIDE DEF q
  <2>3. Attempting' = Attempting \cup {s} /\ Attempting \cup {s} \in SUBSET Slots
    BY <2>1, <2>2, SectionAttempts DEF Attempting
  <2>4. Cardinality(Attempting') \in Nat /\ Cardinality(Slots) \in Nat /\ Cardinality(Attempting') <= Cardinality(Slots)
    BY <2>3, AttemptsCounted
  <2>5. MaxFailures \in Nat
    BY SessionsAssumption
  <2>6. recent' => failures' + Cardinality(Attempting') <= MaxFailures - 1 + Cardinality(Slots)
    BY <1>2, <1>3, <2>2, <2>4, <2>5
  <2>7. LockoutHolds' /\ FailuresBounded'
    BY <1>2, <2>6 DEF LockoutHolds, FailuresBounded, SessionsInv
  <2> QED
    BY <1>2, <1>3, <2>1, <2>2, <2>7, SectionInv
<1>8. CASE userRole # "none" /\ Becomes(s, [r EXCEPT !.at = "exec", !.role = userRole])
  <2> DEFINE q == [r EXCEPT !.at = "exec", !.role = userRole]
  <2>1. q \in Session /\ Moves(q) /\ q.at = "exec" /\ q.role = userRole
    BY <1>1, <1>3 DEF Session, Moves
  <2>2. Becomes(s, q)
    BY <1>8
  <2> HIDE DEF q
  <2>3. Attempting' = Attempting
    BY <1>1, <2>1, <2>2, SectionAttempts DEF Attempting, r
  <2>4. LockoutHolds' /\ FailuresBounded'
    BY <1>2, <2>3 DEF LockoutHolds, FailuresBounded, SessionsInv
  <2> QED
    BY <1>2, <1>3, <2>1, <2>2, <2>4, SectionInv
<1> QED
  BY <1>4, <1>5, <1>6, <1>7, <1>8

LEMMA AuthenticateInv == ASSUME SessionsInv, NEW s \in Slots, Authenticate(s) PROVE SessionsInv'
<1>1. sess[s] \in Session /\ Moves(sess[s]) /\ sess[s].at = "token"
  BY InvTyped DEF Typed, Authenticate
<1>2. UNCHANGED <<userRole, failures, recent, stale>>
  BY DEF Authenticate, counts, shared
<1>3. /\ failures \in Nat /\ recent \in BOOLEAN /\ stale \in [Slots -> Nat] /\ stale[s] <= 1
  BY DEF SessionsInv, SessionsTypeOK, ReloadApplies
<1>4. PICK a \in {"right", "wrong"} : Becomes(s, [sess[s] EXCEPT !.at = a])
  BY DEF Authenticate
<1> DEFINE q == [sess[s] EXCEPT !.at = a]
<1>5. q \in Session /\ Moves(q) /\ q.at = a
  BY <1>1 DEF Session, Moves
<1> HIDE DEF q
<1>6. Attempting' = Attempting
  BY <1>1, <1>4, <1>5, SectionAttempts DEF Attempting, q
<1>7. LockoutHolds' /\ FailuresBounded'
  BY <1>2, <1>6 DEF LockoutHolds, FailuresBounded, SessionsInv
<1> QED
  BY <1>2, <1>3, <1>4, <1>5, <1>7, SectionInv DEF q

(* The attempt ends as its failure is counted, so their sum does not grow. *)
LEMMA RecordInv == ASSUME SessionsInv, NEW s \in Slots, RecordAuthResult(s) PROVE SessionsInv'
<1> DEFINE r == [sess[s] EXCEPT !.at = "command", !.left = @ - 1]
<1>1. sess[s] \in Session /\ Moves(sess[s]) /\ sess[s].at \in {"right", "wrong"}
  BY InvTyped DEF Typed, RecordAuthResult
<1>2. UNCHANGED <<userRole, stale>>
  BY DEF RecordAuthResult, counts
<1>3. /\ failures \in Nat /\ recent \in BOOLEAN /\ stale \in [Slots -> Nat] /\ stale[s] <= 1
  BY DEF SessionsInv, SessionsTypeOK, ReloadApplies
<1>4. sess[s].left - 1 \in Int
  BY <1>1 DEF Session
<1>5. r \in Session /\ Moves(r) /\ r.at = "command"
  BY <1>1, <1>4 DEF Session, Moves
<1>6. \E q \in {[r EXCEPT !.auth = TRUE], [r EXCEPT !.last = TRUE]} : Becomes(s, q)
  BY DEF RecordAuthResult
<1>7. \/ failures' = 0 /\ recent' = FALSE
      \/ failures' = (IF recent THEN failures + 1 ELSE 1) /\ recent' = TRUE
  BY DEF RecordAuthResult
<1> HIDE DEF r
<1>8. PICK q \in {[r EXCEPT !.auth = TRUE], [r EXCEPT !.last = TRUE]} : Becomes(s, q)
  BY <1>6
<1>9. q \in Session /\ Moves(q) /\ q.at = "command"
  BY <1>5 DEF Session, Moves
<1>10. Attempting' = Attempting \ {s} /\ s \in Attempting /\ Attempting \in SUBSET Slots
  BY <1>1, <1>8, <1>9, SectionAttempts DEF Attempting
<1>11. /\ Cardinality(Attempting) \in Nat /\ Cardinality(Slots) \in Nat
       /\ Cardinality(Attempting) <= Cardinality(Slots)
       /\ Cardinality(Attempting') = Cardinality(Attempting) - 1
       /\ Cardinality(Attempting') \in Nat
  BY <1>10, AttemptsCounted
<1>12. MaxFailures \in Nat \ {0}
  BY SessionsAssumption
<1>13. /\ recent => failures + Cardinality(Attempting) <= MaxFailures - 1 + Cardinality(Slots)
       /\ failures' \in Nat /\ recent' \in BOOLEAN
  <2>1. recent => failures + Cardinality(Attempting) <= MaxFailures - 1 + Cardinality(Slots)
    BY DEF SessionsInv, LockoutHolds
  <2>2. failures' \in Nat
    BY <1>3, <1>7
  <2>3. recent' \in BOOLEAN
    BY <1>7
  <2> QED
    BY <2>1, <2>2, <2>3
<1>14. recent' => failures' + Cardinality(Attempting') <= MaxFailures - 1 + Cardinality(Slots)
  BY <1>3, <1>7, <1>11, <1>12, <1>13
<1>15. failures' <= MaxFailures - 1 + Cardinality(Slots)
  BY <1>7, <1>11, <1>12, <1>13, <1>14
<1>16. LockoutHolds' /\ FailuresBounded'
  BY <1>14, <1>15 DEF LockoutHolds, FailuresBounded
<1> QED
  BY <1>2, <1>3, <1>8, <1>9, <1>13, <1>16, SectionInv

(* A command with an old role is the first since the reload. *)
LEMMA ExecInv == ASSUME SessionsInv, NEW s \in Slots, Exec(s) PROVE SessionsInv'
<1> DEFINE q == NextCommand(sess[s])
<1>1. sess[s] \in Session /\ Moves(sess[s]) /\ sess[s].at = "exec"
  BY InvTyped DEF Typed, Exec
<1>2. /\ stale' = [stale EXCEPT ![s] = IF sess[s].role = userRole THEN @ ELSE @ + 1]
      /\ UNCHANGED <<userRole, failures, recent>> /\ Becomes(s, q)
  BY DEF Exec, shared
<1>3. /\ failures \in Nat /\ recent \in BOOLEAN /\ stale \in [Slots -> Nat] /\ stale[s] <= 1
      /\ sess[s].role # userRole => stale[s] = 0
  BY <1>1 DEF SessionsInv, SessionsTypeOK, ReloadApplies, OldRoleUnused
<1>4. sess[s].left - 1 \in Int
  BY <1>1 DEF Session
<1>5. q \in Session /\ Moves(q) /\ q.at = "command"
  BY <1>1, <1>4 DEF NextCommand, Session, Moves
<1> HIDE DEF q
<1>6. Attempting' = Attempting
  BY <1>1, <1>2, <1>5, SectionAttempts DEF Attempting
<1>7. LockoutHolds' /\ FailuresBounded'
  BY <1>2, <1>6 DEF LockoutHolds, FailuresBounded, SessionsInv
<1>8. /\ stale' \in [Slots -> Nat] /\ stale'[s] <= 1
      /\ \A t \in Slots \ {s} : stale'[t] = stale[t]
  BY <1>2, <1>3
<1> QED
  BY <1>2, <1>3, <1>5, <1>7, <1>8, SectionInv

-----------------------------------------------------------------------------
(* The theorems *)

LEMMA StepInv == SessionsInv /\ [SessionsNext]_vars => SessionsInv'
<1> SUFFICES ASSUME SessionsInv, [SessionsNext]_vars PROVE SessionsInv'
  OBVIOUS
<1>1. ASSUME NEW s \in Slots, Accept(s) \/ Handler(s) PROVE SessionsInv'
  BY <1>1, AcceptInv, StartInv, OnReadInv, OnWriteInv, OnTimerInv, CommandInv,
     AuthenticateInv, RecordInv, ExecInv, ReplyInv DEF Handler
<1>2. ASSUME NEW s \in Slots, Arrives(s) \/ Leaves(s) \/ SendEnds(s) \/ TimerExpires(s) PROVE SessionsInv'
  BY <1>2, EventsInv
<1>3. CASE LockoutEnds
  BY <1>3, StaysInv DEF LockoutEnds, counts
<1>4. ASSUME NEW role \in Roles \cup {"none"}, Reload(role) PROVE SessionsInv'
  BY <1>4, ReloadInv
<1>5. CASE StopServer
  BY <1>5, StopInv
<1>6. CASE Join
  BY <1>6, StaysInv DEF Join, counts, shared
<1>7. CASE UNCHANGED vars
  BY <1>7, StaysInv DEF vars, counts, shared
<1> QED
  BY <1>1, <1>2, <1>3, <1>4, <1>5, <1>6, <1>7 DEF SessionsNext

LEMMA AlwaysSessionsInv == SessionsSpec => []SessionsInv
BY InitInv, StepInv, PTL DEF SessionsSpec

(***************************************************************************)
(* FailuresBounded holds of every behaviour: the sessions that race from   *)
(* authAllowed to recordAuthResult take the failures counted at most one   *)
(* per session beyond MAX_AUTH_FAILURES - 1.                               *)
(***************************************************************************)
THEOREM LockoutIsBounded == SessionsSpec => []FailuresBounded
<1>1. SessionsInv => FailuresBounded
  BY DEF SessionsInv
<1> QED
  BY <1>1, AlwaysSessionsInv, PTL

(***************************************************************************)
(* ReloadApplies holds of every behaviour: after reload, each session      *)
(* carries out at most the one command that was between roleOf and execCmd *)
(* with the old role.                                                      *)
(***************************************************************************)
THEOREM ReloadsApply == SessionsSpec => []ReloadApplies
<1>1. SessionsInv => ReloadApplies
  BY DEF SessionsInv
<1> QED
  BY <1>1, AlwaysSessionsInv, PTL

(***************************************************************************)
(* RepliesMove holds of every behaviour: queue_write and do_write's        *)
(* handler never leave a reply of an open connection without a write.      *)
(***************************************************************************)
THEOREM RepliesAlwaysMove == SessionsSpec => []RepliesMove
<1>1. SessionsInv => RepliesMove
  BY DEF SessionsInv
<1> QED
  BY <1>1, AlwaysSessionsInv, PTL

=============================================================================
